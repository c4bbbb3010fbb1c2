---------------------------- MODULE Discovery_proofs ----------------------------
(***************************************************************************)
(* Safety of the device cache of Discovery for every number of workers,    *)
(* callers, descriptions and LOCATIONs, and every bound.                   *)
(***************************************************************************)
EXTENDS Discovery, Naturals_proofs

\* How far a stop has come, and what is over by then.
StopProgress ==
  /\ pc["app"] \in {"closing", "joining", "waiting", "asleep", "telling", "starting"} => stopping
  /\ pc["app"] \in {"joining", "waiting", "asleep", "telling", "starting", "opening"} => ~listening
  /\ pc["app"] \in {"waiting", "asleep", "telling", "starting"} =>
       \A w \in Workers : pc[w] = "idle"
  /\ pc["app"] \in {"telling", "starting"} => pendingFetches = {}
  /\ pc["app"] = "starting" => deviceList = {}
  /\ pc["app"] = "opening" => ~stopping
  /\ stopping /\ pc["app"] = "idle" =>
       /\ ~listening
       /\ \A w \in Workers : pc[w] = "idle"
       /\ pendingFetches = {}
       /\ deviceList = {}

\* The epoch of a reservation tells whether a byebye came after it.
Epochs ==
  \A p \in pendingFetches :
    /\ fetch[p].epoch <= discoveryEpoch
    /\ p \in outdated => fetch[p].epoch < discoveryEpoch

\* Device pointers are kept by removers and by a stop that tells of the devices.
Pointers ==
  /\ \A p \in Procs : pc[p] = "removing" => p \in Removers
  /\ \A p \in Procs : held[p] # NoObject => pc[p] = "removing"
  /\ held["app"] # NoObject => pc["app"] = "telling"

\* The cached trees are described ones, served at a LOCATION, and what is about
\* to be published holds its target.
Trees ==
  /\ \A o \in deviceList : device[o].udns \in Descriptions /\ device[o].location \in Locations
  /\ \A p \in pendingFetches :
       /\ fetch[p].location \in Locations
       /\ fetch[p].candidate # {} => fetch[p].udn \in fetch[p].candidate

\* Reservations and what is published are numbered in the order they were made.
Numbers ==
  /\ \A p \in pendingFetches : fetch[p].number \in 1..fetches /\ fetch[p].known <= made
  /\ \A p, q \in pendingFetches : fetch[p].number = fetch[q].number => p = q
  /\ \A o \in deviceList : device[o].number <= fetches

\* A reservation made with its root cached knows that root.
KnowsRoot(p) == fetch[p].cachedLocation # "none"
KnownRoots ==
  \A p \in pendingFetches : KnowsRoot(p) =>
    \E d \in Descriptions : fetch[p].udn \in d /\ fetch[p].rootUdn = RootUdn(d)

\* Of the pending fetches that know the same root only the newest counts.
OnlyNewestCounts ==
  \A p, q \in pendingFetches :
    /\ KnowsRoot(p) /\ KnowsRoot(q)
    /\ fetch[p].rootUdn = fetch[q].rootUdn
    /\ fetch[p].number < fetch[q].number
    => fetch[p].superseded

\* A fetch that counts is newer than the contents of the device it was made for.
NewerThanCached ==
  \A p \in pendingFetches, o \in deviceList :
    /\ KnowsRoot(p) /\ ~fetch[p].superseded
    /\ o <= fetch[p].known
    /\ RootUdn(device[o].udns) = fetch[p].rootUdn
    => device[o].number < fetch[p].number

ControlInv == TypeOK /\ StopProgress /\ Epochs /\ Pointers
DataInv == Trees /\ UniqueRoots /\ Numbers /\ KnownRoots /\ OnlyNewestCounts /\ NewerThanCached
DiscoveryInv == ControlInv /\ DataInv

--------------------------------------------------------------------------------
\* A set of objects that is not empty has a first.
LEMMA FirstIsLeast ==
  ASSUME NEW S \in SUBSET Nat, S # {}
  PROVE  First(S) \in S /\ \A q \in S : First(S) <= q
  BY LeastExists DEF First

\* A description has one root, the same one for all that share a UDN with it.
LEMMA RootOfTree ==
  /\ \A d \in Descriptions : RootUdn(d) \in d /\ RootUdn(d) \in Udns
  /\ \A d, e \in Descriptions : d \cap e # {} => RootUdn(d) = RootUdn(e)
  <1>1. \A d \in Descriptions : RootUdn(d) \in d \cap Roots
    BY DiscoveryAssumption DEF RootUdn
  <1>2. ASSUME NEW d \in Descriptions, NEW e \in Descriptions, d \cap e # {}
        PROVE  RootUdn(d) = RootUdn(e)
    <2>1. d \cap Roots = e \cap Roots
      BY <1>2, DiscoveryAssumption
    <2>2. PICK r \in Roots : d \cap Roots = {r}
      BY DiscoveryAssumption
    <2> QED
      BY <1>1, <2>1, <2>2
  <1> QED
    BY <1>1, <1>2 DEF Udns

\* What mupnp_controlpoint_getdevicebyudn returns.
LEMMA Lookup ==
  ASSUME TypeOK, NEW u
  PROVE  /\ DeviceByUdn(u) # NoObject =>
              DeviceByUdn(u) \in deviceList /\ u \in device[DeviceByUdn(u)].udns
         /\ DeviceByUdn(u) = NoObject => \A o \in deviceList : u \notin device[o].udns
  <1> DEFINE found == {o \in deviceList : u \in device[o].udns}
  <1>1. found \in SUBSET Nat /\ 0 \notin deviceList
    <2>1. made \in Nat /\ deviceList \subseteq 1..made
      BY DiscoveryAssumption DEF TypeOK
    <2>2. deviceList \subseteq Nat /\ 0 \notin deviceList
      BY <2>1
    <2> QED
      BY <2>2
  <1>2. CASE found = {}
    BY <1>2 DEF DeviceByUdn
  <1>3. CASE found # {}
    <2>1. First(found) \in found
      BY <1>1, <1>3, FirstIsLeast
    <2>2. DeviceByUdn(u) = First(found)
      BY <1>3 DEF DeviceByUdn
    <2> QED
      BY <1>1, <2>1, <2>2 DEF NoObject
  <1> QED
    BY <1>2, <1>3

\* What becomes of a pending fetch until it ends.
Ages(f, g) ==
  /\ g.udn = f.udn /\ g.rootUdn = f.rootUdn /\ g.location = f.location
  /\ g.cachedLocation = f.cachedLocation /\ g.number = f.number /\ g.known = f.known
  /\ g.epoch = f.epoch
  /\ f.superseded => g.superseded

\* A scan only marks; the other fields stay.
LEMMA SupersedeMarks ==
  ASSUME TypeOK, NEW u, NEW r, NEW l
  PROVE  /\ Supersede(u, r, l) \in [Procs -> FetchState]
         /\ \A p \in Procs :
              /\ Ages(fetch[p], Supersede(u, r, l)[p])
              /\ Supersede(u, r, l)[p].candidate = fetch[p].candidate
              /\ p \in Superseding(u, r, l) => Supersede(u, r, l)[p].superseded
  <1> SUFFICES ASSUME NEW p \in Procs
               PROVE  /\ Supersede(u, r, l)[p] \in FetchState
                      /\ Ages(fetch[p], Supersede(u, r, l)[p])
                      /\ Supersede(u, r, l)[p].candidate = fetch[p].candidate
                      /\ p \in Superseding(u, r, l) => Supersede(u, r, l)[p].superseded
    BY DEF Supersede
  <1>1. fetch[p] \in FetchState
    BY DEF TypeOK
  <1>2. CASE p \in Superseding(u, r, l)
    <2>1. Supersede(u, r, l)[p] = [fetch[p] EXCEPT !.superseded = TRUE]
      BY <1>2 DEF Supersede
    <2> QED
      BY <1>1, <2>1 DEF FetchState, Ages
  <1>3. CASE p \notin Superseding(u, r, l)
    <2>1. Supersede(u, r, l)[p] = fetch[p]
      BY <1>3 DEF Supersede
    <2> QED
      BY <1>1, <1>3, <2>1 DEF FetchState, Ages
  <1> QED
    BY <1>2, <1>3

\* The record of a new reservation.
LEMMA ReservationTyped ==
  ASSUME DiscoveryInv, NEW u \in Udns
  PROVE  /\ KnownRoot(u) \in Udns
         /\ KnownLocation(u) \in Locations \cup {"none"}
         /\ KnownLocation(u) # "none" =>
              \E d \in Descriptions : u \in d /\ KnownRoot(u) = RootUdn(d)
  BY Lookup, RootOfTree DEF KnownRoot, KnownLocation, DiscoveryInv, ControlInv, DataInv, Trees

\* Without a new reservation and without a publication the data stays right,
\* whatever ends, is marked, gets its candidate or leaves the list.
LEMMA DataShrinks ==
  ASSUME DataInv,
         pendingFetches' \subseteq pendingFetches,
         \A p \in pendingFetches' :
           /\ Ages(fetch[p], fetch'[p])
           /\ fetch'[p].candidate # {} => fetch'[p].udn \in fetch'[p].candidate,
         fetches' = fetches,
         deviceList' \subseteq deviceList,
         device' = device,
         made' = made
  PROVE  DataInv'
  <1> USE DEF DataInv
  <1>1. Trees'
    BY DEF Trees, Ages
  <1>2. UniqueRoots'
    BY DEF UniqueRoots
  <1>3. Numbers'
    BY DEF Numbers, Ages
  <1>4. KnownRoots'
    BY DEF KnownRoots, KnowsRoot, Ages
  <1>5. OnlyNewestCounts'
    BY DEF OnlyNewestCounts, KnowsRoot, Ages
  <1>6. NewerThanCached'
    BY DEF NewerThanCached, KnowsRoot, Ages
  <1> QED
    BY <1>1, <1>2, <1>3, <1>4, <1>5, <1>6

\* In particular when it is left alone.
LEMMA DataStays ==
  ASSUME DataInv,
         UNCHANGED <<pendingFetches, fetch, fetches>>,
         deviceList' \subseteq deviceList,
         UNCHANGED <<device, made>>
  PROVE  DataInv'
  <1>1. \A p \in pendingFetches' :
          /\ Ages(fetch[p], fetch'[p])
          /\ fetch'[p].candidate # {} => fetch'[p].udn \in fetch'[p].candidate
    BY DEF DataInv, Trees, Ages
  <1> QED
    BY <1>1, DataShrinks

\* The end of a fetch: its reservation is gone, the others are as they were.
LEMMA EndOfFetch ==
  ASSUME TypeOK, NEW p \in Procs, NEW to \in {"idle", "notify"}, EndsFetch(p, to)
  PROVE  /\ p \in pendingFetches
         /\ pendingFetches' = pendingFetches \ {p}
         /\ \A q \in pendingFetches' : fetch'[q] = fetch[q]
         /\ fetch' \in [Procs -> FetchState]
         /\ pc' \in [Procs \cup {"app"} -> ProcPc \cup AppPc]
         /\ pc'[p] = to /\ pc[p] = "commit"
         /\ \A q \in Procs \ {p} : pc'[q] = pc[q]
         /\ pc'["app"] = IF pc["app"] = "asleep" THEN "waiting" ELSE pc["app"]
  <1>1. pc \in [Procs \cup {"app"} -> ProcPc \cup AppPc] /\ "app" \notin Procs
    BY DiscoveryAssumption DEF TypeOK
  <1>2. p \in pendingFetches
    BY DEF EndsFetch, TypeOK
  <1>3. NoFetch \in FetchState
    BY DiscoveryAssumption DEF NoFetch, FetchState
  <1>4. fetch' \in [Procs -> FetchState] /\ \A q \in Procs \ {p} : fetch'[q] = fetch[q]
    BY <1>3 DEF EndsFetch, TypeOK
  <1>5. /\ pc' \in [Procs \cup {"app"} -> ProcPc \cup AppPc]
        /\ pc'[p] = to
        /\ \A q \in Procs \ {p} : pc'[q] = pc[q]
        /\ pc'["app"] = IF pc["app"] = "asleep" THEN "waiting" ELSE pc["app"]
    BY <1>1 DEF EndsFetch, SignalsAlways, ProcPc, AppPc
  <1>6. pendingFetches' = pendingFetches \ {p} /\ pc[p] = "commit"
    BY DEF EndsFetch
  <1>7. pendingFetches' \subseteq Procs \ {p}
    BY <1>6 DEF TypeOK
  <1> QED
    BY <1>2, <1>4, <1>5, <1>6, <1>7

\* It leaves the control state of DiscoveryInv right.
LEMMA EndOfFetchControl ==
  ASSUME ControlInv, NEW p \in Procs, NEW to \in {"idle", "notify"}, EndsFetch(p, to),
         made' \in 0..MaxObjects, deviceList' \subseteq 1..made',
         device' \in [Objects -> DeviceState]
  PROVE  ControlInv'
  <1> USE DEF ControlInv
  <1>a. "app" \notin Procs
    BY DiscoveryAssumption
  <1>1. TypeOK'
    <2>1. pendingFetches' = {q \in Procs : pc'[q] \in {"fetching", "commit"}}
      BY EndOfFetch DEF TypeOK
    <2>2. outdated' \subseteq pendingFetches' /\ shared' \subseteq pendingFetches'
      BY EndOfFetch DEF TypeOK, EndsFetch
    <2>3. pc'["app"] \in AppPc /\ \A q \in Procs : pc'[q] \in ProcPc
      BY EndOfFetch DEF TypeOK, ProcPc, AppPc
    <2>4. UNCHANGED <<stopping, listening, restarting, discoveryEpoch, fetches, held>>
      BY DEF EndsFetch, controlVars
    <2> QED
      BY <2>1, <2>2, <2>3, <2>4, EndOfFetch DEF TypeOK
  <1>2. StopProgress'
    <2>1. UNCHANGED <<stopping, listening>>
      BY DEF EndsFetch, controlVars
    <2>2. p \in pendingFetches /\ pc[p] = "commit"
      BY EndOfFetch
    <2>3. /\ pc["app"] \notin {"telling", "starting"}
          /\ ~(stopping /\ pc["app"] = "idle")
      BY <2>2 DEF StopProgress
    <2>4. pc["app"] \in {"waiting", "asleep"} => p \notin Workers
      BY <2>2 DEF StopProgress
    <2>5. \A w \in Workers : w # p => pc'[w] = pc[w]
      BY EndOfFetch DEF Procs
    <2>6. pc'["app"] = IF pc["app"] = "asleep" THEN "waiting" ELSE pc["app"]
      BY EndOfFetch
    <2> QED
      BY <2>1, <2>3, <2>4, <2>5, <2>6 DEF StopProgress
  <1>3. Epochs'
    <2> UNCHANGED discoveryEpoch /\ outdated' \subseteq outdated
      BY DEF EndsFetch, controlVars
    <2> QED
      BY EndOfFetch DEF Epochs
  <1>4. Pointers'
    <2> UNCHANGED held
      BY DEF EndsFetch
    <2> QED
      BY <1>a, EndOfFetch DEF Pointers
  <1> QED
    BY <1>1, <1>2, <1>3, <1>4

--------------------------------------------------------------------------------
\* Each action preserves the invariant; first those of fetches.
LEMMA RefreshesInv ==
  ASSUME DiscoveryInv, NEW p \in Procs, NEW u \in Udns, NEW l \in Locations, Refreshes(p, u, l)
  PROVE  DiscoveryInv'
  <1> USE DEF DiscoveryInv, ControlInv
  <1>a. "app" \notin Procs
    BY DiscoveryAssumption
  <1>b. UNCHANGED <<controlVars, fetchVars, cacheVars, held>> /\ ~stopping
    BY DEF Refreshes
  <1>c. pc' = [pc EXCEPT ![p] = "notify"] /\ pc[p] = "idle"
    BY DEF Refreshes, Announced
  <1>1. TypeOK'
    BY <1>a, <1>b, <1>c DEF TypeOK, controlVars, fetchVars, cacheVars, ProcPc, AppPc
  <1>2. StopProgress'
    BY <1>a, <1>b, <1>c DEF StopProgress, controlVars, fetchVars, cacheVars, TypeOK
  <1>3. Epochs'
    BY <1>b DEF Epochs, controlVars, fetchVars
  <1>4. Pointers'
    BY <1>a, <1>b, <1>c DEF Pointers, TypeOK
  <1>5. DataInv'
    BY <1>b, DataStays DEF fetchVars, cacheVars
  <1> QED
    BY <1>1, <1>2, <1>3, <1>4, <1>5

\* An announcement that is answered by a pending fetch only marks what it supersedes.
LEMMA SharesInv ==
  ASSUME DiscoveryInv, NEW p \in Procs, NEW u \in Udns, NEW l \in Locations, Shares(p, u, l)
  PROVE  DiscoveryInv'
  <1> USE DEF DiscoveryInv, ControlInv
  <1>b. UNCHANGED <<controlVars, pendingFetches, fetches, outdated, cacheVars, pc, held>>
    BY DEF Shares
  <1>c. /\ fetch' \in [Procs -> FetchState]
        /\ \A q \in Procs : Ages(fetch[q], fetch'[q]) /\ fetch'[q].candidate = fetch[q].candidate
    BY SupersedeMarks DEF Shares
  <1>d. pendingFetches \subseteq Procs
    BY DEF TypeOK
  <1>1. TypeOK'
    <2> shared' \subseteq pendingFetches'
      BY <1>b DEF Shares, Sharing, TypeOK
    <2> QED
      BY <1>b, <1>c DEF TypeOK, controlVars, cacheVars
  <1>2. StopProgress'
    BY <1>b DEF StopProgress, controlVars, cacheVars
  <1>3. Epochs'
    BY <1>b, <1>c, <1>d DEF Epochs, controlVars, Ages
  <1>4. Pointers'
    BY <1>b DEF Pointers
  <1>5. DataInv'
    <2>1. \A q \in pendingFetches' :
            /\ Ages(fetch[q], fetch'[q])
            /\ fetch'[q].candidate # {} => fetch'[q].udn \in fetch'[q].candidate
      BY <1>b, <1>c, <1>d DEF DataInv, Trees, Ages
    <2> QED
      BY <1>b, <2>1, DataShrinks DEF cacheVars
  <1> QED
    BY <1>1, <1>2, <1>3, <1>4, <1>5

\* A fetch that ends only fills in its candidate.
LEMMA FetchedInv ==
  ASSUME DiscoveryInv, NEW p \in Procs, Fetched(p)
  PROVE  DiscoveryInv'
  <1> USE DEF DiscoveryInv, ControlInv
  <1>a. "app" \notin Procs
    BY DiscoveryAssumption
  <1>b. UNCHANGED <<controlVars, pendingFetches, fetches, outdated, shared, cacheVars, held>>
    BY DEF Fetched
  <1>c. pc' = [pc EXCEPT ![p] = "commit"] /\ pc[p] = "fetching"
    BY DEF Fetched, Goto
  <1>d. PICK tree \in {{}} \cup {d \in Descriptions : fetch[p].udn \in d} :
          fetch' = [fetch EXCEPT ![p].candidate = tree]
    BY DEF Fetched
  <1>e. fetch[p] \in FetchState /\ pendingFetches \subseteq Procs
    BY DEF TypeOK
  <1>f. /\ fetch'[p] \in FetchState /\ fetch'[p].candidate = tree
        /\ fetch'[p].udn = fetch[p].udn /\ Ages(fetch[p], fetch'[p])
    <2>1. fetch'[p] = [fetch[p] EXCEPT !.candidate = tree]
      BY <1>d DEF TypeOK
    <2> QED
      BY <2>1, <1>e DEF FetchState, Ages
  <1>g. \A q \in Procs \ {p} : fetch'[q] = fetch[q]
    BY <1>d DEF TypeOK
  <1>1. TypeOK'
    <2>1. fetch' \in [Procs -> FetchState]
      BY <1>d, <1>f, <1>g DEF TypeOK
    <2> QED
      BY <2>1, <1>a, <1>b, <1>c DEF TypeOK, controlVars, cacheVars, ProcPc, AppPc
  <1>2. StopProgress'
    BY <1>a, <1>b, <1>c DEF StopProgress, controlVars, cacheVars, TypeOK
  <1>3. Epochs'
    BY <1>b, <1>e, <1>f, <1>g DEF Epochs, controlVars, Ages
  <1>4. Pointers'
    BY <1>a, <1>b, <1>c DEF Pointers, TypeOK
  <1>5. DataInv'
    <2>1. \A q \in pendingFetches' :
            /\ Ages(fetch[q], fetch'[q])
            /\ fetch'[q].candidate # {} => fetch'[q].udn \in fetch'[q].candidate
      BY <1>b, <1>e, <1>f, <1>g DEF DataInv, Trees, Ages
    <2> QED
      BY <1>b, <2>1, DataShrinks DEF cacheVars
  <1> QED
    BY <1>1, <1>2, <1>3, <1>4, <1>5

\* A reservation is the newest, and supersedes those that know its root.
LEMMA ReservesInv ==
  ASSUME DiscoveryInv, NEW p \in Procs, NEW u \in Udns, NEW l \in Locations, Reserves(p, u, l)
  PROVE  DiscoveryInv'
  <1> USE DEF DiscoveryInv, ControlInv
  <1> DEFINE marked == Supersede(u, KnownRoot(u), l)
             new == [udn |-> u, rootUdn |-> KnownRoot(u), location |-> l, superseded |-> FALSE,
                     epoch |-> discoveryEpoch, cachedLocation |-> KnownLocation(u),
                     candidate |-> {}, number |-> fetches + 1, known |-> made]
  <1>a. "app" \notin Procs
    BY DiscoveryAssumption
  <1>b. /\ UNCHANGED <<controlVars, outdated, shared, cacheVars, held>>
        /\ fetches < MaxFetches /\ fetches' = fetches + 1
        /\ pendingFetches' = pendingFetches \cup {p}
        /\ Sharing(l) = {}
        /\ ~stopping
    BY DEF Reserves, Reservation
  <1>c. pc' = [pc EXCEPT ![p] = "fetching"] /\ pc[p] = "idle" /\ p \notin pendingFetches
    BY DEF Reserves, Reservation, Announced, TypeOK
  <1>d. /\ marked \in [Procs -> FetchState]
        /\ \A q \in Procs : /\ Ages(fetch[q], marked[q])
                            /\ marked[q].candidate = fetch[q].candidate
                            /\ q \in Superseding(u, KnownRoot(u), l) => marked[q].superseded
    BY SupersedeMarks
  <1>e. new \in FetchState
    BY <1>b, ReservationTyped, DiscoveryAssumption DEF FetchState, TypeOK
  <1>f. fetch' = [marked EXCEPT ![p] = new]
    BY DEF Reserves, Reservation
  <1> HIDE DEF marked
  <1>g. fetch' \in [Procs -> FetchState] /\ fetch'[p] = new
    BY <1>d, <1>e, <1>f
  <1>h. /\ pendingFetches \subseteq Procs /\ pendingFetches' \ {p} = pendingFetches
        /\ \A q \in pendingFetches : /\ fetch'[q] = marked[q]
                                     /\ Ages(fetch[q], fetch'[q])
                                     /\ fetch'[q].candidate = fetch[q].candidate
    <2>1. pendingFetches \subseteq Procs /\ pendingFetches' \ {p} = pendingFetches
      BY <1>b, <1>c DEF TypeOK
    <2>2. \A q \in pendingFetches : fetch'[q] = marked[q]
      BY <1>c, <1>d, <1>f, <2>1
    <2> QED
      BY <1>d, <2>1, <2>2
  <1>i. UNCHANGED <<stopping, discoveryEpoch, listening, restarting, deviceList, device, made>>
    BY <1>b DEF controlVars, cacheVars
  <1>j. /\ new.rootUdn = KnownRoot(u) /\ new.number = fetches + 1 /\ new.known = made
        /\ new.candidate = {} /\ new.location = l /\ new.udn = u
        /\ new.cachedLocation = KnownLocation(u) /\ new.epoch = discoveryEpoch
    OBVIOUS
  <1> HIDE DEF new
  <1>k. fetches \in Nat /\ made \in Nat /\ discoveryEpoch \in Nat
    BY DiscoveryAssumption DEF TypeOK
  <1>1. TypeOK'
    <2>1. pendingFetches' = {q \in Procs : pc'[q] \in {"fetching", "commit"}}
      BY <1>a, <1>b, <1>c DEF TypeOK
    <2>2. fetches' \in 0..MaxFetches
      BY <1>b, <1>k, DiscoveryAssumption
    <2> QED
      BY <2>1, <2>2, <1>a, <1>b, <1>c, <1>g, <1>i DEF TypeOK, ProcPc, AppPc
  <1>2. StopProgress'
    BY <1>a, <1>b, <1>c, <1>i DEF StopProgress, TypeOK
  <1>3. Epochs'
    <2>1. outdated' = outdated /\ p \notin outdated
      BY <1>b, <1>c DEF TypeOK
    <2> QED
      BY <1>g, <1>h, <1>i, <1>j, <1>k, <2>1 DEF Epochs, Ages
  <1>4. Pointers'
    BY <1>a, <1>b, <1>c DEF Pointers, TypeOK
  <1>5. DataInv'
    <2> USE DEF DataInv
    <2>1. Trees'
      BY <1>g, <1>h, <1>i, <1>j DEF Trees, Ages
    <2>2. UniqueRoots'
      BY <1>i DEF UniqueRoots
    <2>3. Numbers'
      <3>1. \A q \in pendingFetches : /\ fetch'[q].number = fetch[q].number
                                     /\ fetch'[q].number \in 1..fetches
                                     /\ fetch'[q].known <= made
        BY <1>h DEF Numbers, Ages
      <3>2. /\ fetch'[p].number = fetches + 1 /\ fetch'[p].known = made
            /\ pendingFetches' = pendingFetches \cup {p}
        BY <1>b, <1>g, <1>j
      <3>3. \A q \in pendingFetches' : fetch'[q].number \in 1..fetches' /\ fetch'[q].known <= made'
        BY <1>b, <1>i, <1>k, <3>1, <3>2
      <3>4. \A q, s \in pendingFetches' : fetch'[q].number = fetch'[s].number => q = s
        BY <1>k, <3>1, <3>2 DEF Numbers
      <3>5. \A o \in deviceList' : device'[o].number <= fetches'
        <4> SUFFICES ASSUME NEW o \in deviceList PROVE device[o].number <= fetches + 1
          BY <1>b, <1>i
        <4>1. device[o].number <= fetches /\ device[o].number \in Nat
          BY DiscoveryAssumption DEF Numbers, TypeOK, DeviceState, Objects
        <4> QED
          BY <1>k, <4>1
      <3> QED
        BY <3>3, <3>4, <3>5 DEF Numbers
    <2>4. KnownRoots'
      BY <1>g, <1>h, <1>j, ReservationTyped DEF KnownRoots, KnowsRoot, Ages
    <2>5. OnlyNewestCounts'
      <3> SUFFICES ASSUME NEW q \in pendingFetches', NEW s \in pendingFetches',
                          KnowsRoot(q)', KnowsRoot(s)', fetch'[q].rootUdn = fetch'[s].rootUdn,
                          fetch'[q].number < fetch'[s].number
                   PROVE  fetch'[q].superseded
        BY DEF OnlyNewestCounts
      <3>1. q # p
        BY <1>b, <1>g, <1>h, <1>j, <1>k DEF Numbers, Ages
      <3>2. CASE s = p
        <4>1. q \in Superseding(u, KnownRoot(u), l)
          BY <1>b, <1>g, <1>h, <1>j, <3>1, <3>2 DEF Superseding, Scanned, Ages
        <4> QED
          BY <1>d, <1>h, <3>1, <4>1
      <3>3. CASE s # p
        BY <1>h, <3>1, <3>3 DEF OnlyNewestCounts, KnowsRoot, Ages
      <3> QED
        BY <3>2, <3>3
    <2>6. NewerThanCached'
      <3> SUFFICES ASSUME NEW q \in pendingFetches', NEW o \in deviceList,
                          KnowsRoot(q)', ~fetch'[q].superseded, o <= fetch'[q].known,
                          RootUdn(device[o].udns) = fetch'[q].rootUdn
                   PROVE  device[o].number < fetch'[q].number
        BY <1>i DEF NewerThanCached
      <3>1. CASE q = p
        <4>1. device[o].number <= fetches /\ device[o].number \in Nat
          BY DiscoveryAssumption DEF Numbers, TypeOK, DeviceState, Objects
        <4> QED
          BY <1>g, <1>j, <1>k, <3>1, <4>1
      <3>2. CASE q # p
        BY <1>h, <3>2 DEF NewerThanCached, KnowsRoot, Ages
      <3> QED
        BY <3>1, <3>2
    <2> QED
      BY <2>1, <2>2, <2>3, <2>4, <2>5, <2>6
  <1> QED
    BY <1>1, <1>2, <1>3, <1>4, <1>5

--------------------------------------------------------------------------------
\* The actions that end a fetch.
LEMMA DiscardsInv ==
  ASSUME DiscoveryInv, NEW p \in Procs, Discards(p) \/ Fails(p)
  PROVE  DiscoveryInv'
  <1> USE DEF DiscoveryInv, ControlInv
  <1>1. PICK to \in {"idle", "notify"} : EndsFetch(p, to)
    BY DEF Discards, Fails
  <1>2. UNCHANGED <<deviceList, device, made, fetches>>
    BY <1>1 DEF Discards, Fails, cacheVars, EndsFetch
  <1>3. ControlInv'
    <2> made' \in 0..MaxObjects /\ deviceList' \subseteq 1..made' /\ device' \in [Objects -> DeviceState]
      BY <1>2 DEF TypeOK
    <2> QED
      BY <1>1, EndOfFetchControl
  <1>4. DataInv'
    <2>1. /\ pendingFetches' \subseteq pendingFetches
          /\ \A q \in pendingFetches' : fetch'[q] = fetch[q]
      BY <1>1, EndOfFetch
    <2>2. \A q \in pendingFetches' :
            /\ Ages(fetch[q], fetch'[q])
            /\ fetch'[q].candidate # {} => fetch'[q].udn \in fetch'[q].candidate
      BY <2>1 DEF DataInv, Trees, Ages
    <2> QED
      BY <1>2, <2>1, <2>2, DataShrinks
  <1> QED
    BY <1>3, <1>4

\* What is published keeps the numbers and marks of those still pending right.
LEMMA EndOfFetchPending ==
  ASSUME DiscoveryInv, NEW p \in Procs, NEW to \in {"idle", "notify"}, EndsFetch(p, to),
         made' >= made, made' \in Nat
  PROVE  /\ \A q \in pendingFetches' :
              /\ fetch'[q].location \in Locations
              /\ fetch'[q].candidate # {} => fetch'[q].udn \in fetch'[q].candidate
              /\ fetch'[q].number \in 1..fetches' /\ fetch'[q].known <= made'
         /\ \A q, s \in pendingFetches' : fetch'[q].number = fetch'[s].number => q = s
         /\ KnownRoots' /\ OnlyNewestCounts'
  <1> USE DEF DiscoveryInv, ControlInv, DataInv
  <1>1. /\ pendingFetches' \subseteq pendingFetches
        /\ \A q \in pendingFetches' : fetch'[q] = fetch[q]
    BY EndOfFetch
  <1>2. fetches' = fetches
    BY DEF EndsFetch
  <1>3. made \in Nat /\ \A q \in pendingFetches : fetch[q].known \in Nat
    BY DiscoveryAssumption DEF TypeOK, FetchState
  <1>4. \A q \in pendingFetches' :
          /\ fetch'[q].location \in Locations
          /\ fetch'[q].candidate # {} => fetch'[q].udn \in fetch'[q].candidate
    BY <1>1 DEF Trees
  <1>5. \A q \in pendingFetches' : fetch'[q].number \in 1..fetches' /\ fetch'[q].known <= made'
    BY <1>1, <1>2, <1>3 DEF Numbers
  <1>6. \A q, s \in pendingFetches' : fetch'[q].number = fetch'[s].number => q = s
    BY <1>1 DEF Numbers
  <1>7. KnownRoots'
    BY <1>1 DEF KnownRoots, KnowsRoot
  <1>8. OnlyNewestCounts'
    BY <1>1 DEF OnlyNewestCounts, KnowsRoot
  <1> QED
    BY <1>4, <1>5, <1>6, <1>7, <1>8

\* The device that an update changes: its root is the one the reservation knew,
\* its contents older than the reservation.
LEMMA UpdatedDevice ==
  ASSUME DiscoveryInv, NEW p \in pendingFetches, Valid(p), ~Overtaken(p),
         NEW o, o = DeviceByUdn(fetch[p].udn), o # NoObject
  PROVE  /\ o \in deviceList /\ fetch[p].udn \in device[o].udns
         /\ KnowsRoot(p)
         /\ RootUdn(device[o].udns) = fetch[p].rootUdn
         /\ fetch[p].candidate # {} =>
              fetch[p].candidate \in Descriptions /\ RootUdn(fetch[p].candidate) = fetch[p].rootUdn
  <1> USE DEF DiscoveryInv, ControlInv, DataInv
  <1>1. o \in deviceList /\ fetch[p].udn \in device[o].udns
    BY Lookup
  <1>2. KnowsRoot(p)
    <2>1. device[o].location = fetch[p].cachedLocation
      BY DEF Overtaken
    <2> QED
      BY <1>1, <2>1, DiscoveryAssumption DEF Trees, KnowsRoot
  <1>3. PICK d \in Descriptions : fetch[p].udn \in d /\ fetch[p].rootUdn = RootUdn(d)
    BY <1>2 DEF KnownRoots
  <1>4. device[o].udns \in Descriptions
    BY <1>1 DEF Trees
  <1>5. ASSUME NEW e \in Descriptions, fetch[p].udn \in e
        PROVE  RootUdn(e) = fetch[p].rootUdn
    <2> d \cap e # {}
      BY <1>3, <1>5
    <2> QED
      BY <1>3, RootOfTree
  <1>6. fetch[p].candidate # {} => fetch[p].candidate \in Descriptions /\ fetch[p].udn \in fetch[p].candidate
    BY DEF Trees, TypeOK, FetchState
  <1> QED
    BY <1>1, <1>2, <1>4, <1>5, <1>6

\* An update keeps the root of its device, and is newer than what it replaces.
LEMMA UpdatesInv ==
  ASSUME DiscoveryInv, NEW p \in Procs, Updates(p)
  PROVE  DiscoveryInv'
  <1> USE DEF DiscoveryInv, ControlInv, DataInv
  <1> DEFINE o == DeviceByUdn(fetch[p].udn)
             content == [udns |-> fetch[p].candidate, location |-> fetch[p].location,
                         number |-> fetch[p].number]
  <1>1. /\ EndsFetch(p, "notify") /\ Valid(p) /\ ~Overtaken(p) /\ o # NoObject
        /\ UNCHANGED <<deviceList, made>>
        /\ device' = IF fetch[p].candidate = {} THEN device ELSE [device EXCEPT ![o] = content]
    BY DEF Updates, Update
  <1>2. p \in pendingFetches /\ fetch[p] \in FetchState
    BY <1>1, EndOfFetch DEF TypeOK
  <1>3. /\ o \in deviceList /\ fetch[p].udn \in device[o].udns /\ KnowsRoot(p)
        /\ RootUdn(device[o].udns) = fetch[p].rootUdn
        /\ fetch[p].candidate # {} =>
             fetch[p].candidate \in Descriptions /\ RootUdn(fetch[p].candidate) = fetch[p].rootUdn
    BY <1>1, <1>2, UpdatedDevice
  <1> HIDE DEF o
  <1>4. deviceList \subseteq Objects /\ made \in 0..MaxObjects /\ made \in Nat
    BY DiscoveryAssumption DEF TypeOK, Objects
  <1>5. content \in DeviceState
    BY <1>2 DEF FetchState, DeviceState
  <1>6. /\ content.udns = fetch[p].candidate /\ content.location = fetch[p].location
        /\ content.number = fetch[p].number
    OBVIOUS
  <1> HIDE DEF content
  <1>7. /\ device' \in [Objects -> DeviceState]
        /\ \A q \in deviceList \ {o} : device'[q] = device[q]
        /\ device'[o] = IF fetch[p].candidate = {} THEN device[o] ELSE content
    BY <1>1, <1>3, <1>4, <1>5 DEF TypeOK
  <1>8. ControlInv'
    <2> made' \in 0..MaxObjects /\ deviceList' \subseteq 1..made'
      BY <1>1, <1>4 DEF TypeOK
    <2> QED
      BY <1>1, <1>7, EndOfFetchControl
  <1>9. \A q \in deviceList : RootUdn(device'[q].udns) = RootUdn(device[q].udns)
    BY <1>3, <1>6, <1>7
  <1>a. /\ pendingFetches' = pendingFetches \ {p}
        /\ \A q \in pendingFetches' : fetch'[q] = fetch[q]
        /\ UNCHANGED fetches
    BY <1>1, EndOfFetch DEF EndsFetch
  <1>b. made' >= made /\ made' \in Nat
    BY <1>1, <1>4
  <1>c. Trees'
    <2>1. fetch[p].location \in Locations
      BY <1>2 DEF Trees
    <2>2. \A q \in deviceList : device'[q].udns \in Descriptions /\ device'[q].location \in Locations
      BY <1>3, <1>6, <1>7, <2>1 DEF Trees
    <2> QED
      BY <1>1, <1>b, <2>2, EndOfFetchPending DEF Trees
  <1>d. UniqueRoots'
    BY <1>1, <1>9 DEF UniqueRoots
  <1>e. Numbers'
    <2>1. \A q \in deviceList' : device'[q].number <= fetches'
      BY <1>1, <1>2, <1>6, <1>7, <1>a, DiscoveryAssumption DEF Numbers, TypeOK
    <2> QED
      BY <1>1, <1>b, <2>1, EndOfFetchPending DEF Numbers
  <1>f. KnownRoots' /\ OnlyNewestCounts'
    BY <1>1, <1>b, EndOfFetchPending
  <1>g. NewerThanCached'
    <2> SUFFICES ASSUME NEW q \in pendingFetches', NEW d \in deviceList,
                        KnowsRoot(q), ~fetch[q].superseded, d <= fetch[q].known,
                        RootUdn(device[d].udns) = fetch[q].rootUdn
                 PROVE  device'[d].number < fetch[q].number
      BY <1>1, <1>9, <1>a DEF NewerThanCached, KnowsRoot
    <2>0. q \in pendingFetches /\ q # p
      BY <1>a
    <2>1. CASE device'[d] = device[d]
      BY <2>0, <2>1 DEF NewerThanCached
    <2>2. CASE device'[d] # device[d]
      <3>1. d = o /\ device'[d].number = fetch[p].number
        BY <1>6, <1>7, <2>2
      <3>2. fetch[p].rootUdn = fetch[q].rootUdn
        BY <1>3, <3>1
      <3>3. ~(fetch[q].number < fetch[p].number)
        BY <1>2, <1>3, <2>0, <3>2 DEF OnlyNewestCounts
      <3>4. fetch[q].number # fetch[p].number
        BY <1>2, <2>0 DEF Numbers
      <3>5. fetch[q].number \in Nat /\ fetch[p].number \in Nat
        BY <1>2, <2>0, DiscoveryAssumption DEF TypeOK, FetchState
      <3> QED
        BY <3>1, <3>3, <3>4, <3>5
    <2> QED
      BY <2>1, <2>2
  <1> QED
    BY <1>8, <1>c, <1>d, <1>e, <1>f, <1>g

\* An added device has a root that no cached device has.
LEMMA AddsInv ==
  ASSUME DiscoveryInv, NEW p \in Procs, Adds(p)
  PROVE  DiscoveryInv'
  <1> USE DEF DiscoveryInv, ControlInv, DataInv
  <1> DEFINE content == [udns |-> fetch[p].candidate, location |-> fetch[p].location,
                         number |-> fetch[p].number]
             o == made + 1
  <1>1. /\ EndsFetch(p, "notify") /\ Valid(p) /\ ~Overtaken(p)
        /\ DeviceByUdn(fetch[p].udn) = NoObject
        /\ fetch[p].candidate # {} /\ made < MaxObjects /\ made' = o
        /\ deviceList' = deviceList \cup {o}
        /\ device' = [device EXCEPT ![o] = content]
    BY DEF Adds, Add
  <1>2. p \in pendingFetches /\ fetch[p] \in FetchState
    BY <1>1, EndOfFetch DEF TypeOK
  <1>3. fetch[p].candidate \in Descriptions /\ fetch[p].location \in Locations
    BY <1>1, <1>2 DEF Trees, FetchState
  <1>4. made \in Nat /\ deviceList \subseteq 1..made /\ o \in Objects /\ o \notin deviceList
    BY <1>1, DiscoveryAssumption DEF TypeOK, Objects
  <1>5. content \in DeviceState
    BY <1>2 DEF FetchState, DeviceState
  <1>6. /\ content.udns = fetch[p].candidate /\ content.location = fetch[p].location
        /\ content.number = fetch[p].number
    OBVIOUS
  <1> HIDE DEF content
  <1>7. /\ device' \in [Objects -> DeviceState]
        /\ \A q \in deviceList : device'[q] = device[q]
        /\ device'[o] = content
    BY <1>1, <1>4, <1>5 DEF TypeOK
  <1>8. ControlInv'
    <2>1. made' \in 0..MaxObjects
      BY <1>1, <1>4, DiscoveryAssumption
    <2>2. 1..made \subseteq 1..o /\ o \in 1..o
      BY <1>4
    <2>3. deviceList' \subseteq 1..made'
      BY <1>1, <1>4, <2>2
    <2> QED
      BY <1>1, <1>7, <2>1, <2>3, EndOfFetchControl
  <1>9. \A q \in deviceList : RootUdn(device[q].udns) # RootUdn(content.udns)
    <2>1. DeviceByUdn(RootUdn(fetch[p].candidate)) = NoObject
      BY <1>1 DEF Overtaken
    <2>2. \A q \in deviceList : RootUdn(fetch[p].candidate) \notin device[q].udns
      BY <2>1, Lookup
    <2>3. \A q \in deviceList : RootUdn(device[q].udns) \in device[q].udns
      BY RootOfTree DEF Trees
    <2> QED
      BY <1>6, <2>2, <2>3
  <1>a. /\ pendingFetches' = pendingFetches \ {p}
        /\ \A q \in pendingFetches' : fetch'[q] = fetch[q]
        /\ UNCHANGED fetches
    BY <1>1, EndOfFetch DEF EndsFetch
  <1>b. made' >= made /\ made' \in Nat
    BY <1>1, <1>4
  <1>c. Trees'
    <2>1. \A q \in deviceList' : device'[q].udns \in Descriptions /\ device'[q].location \in Locations
      BY <1>1, <1>3, <1>6, <1>7 DEF Trees
    <2> QED
      BY <1>1, <1>b, <2>1, EndOfFetchPending DEF Trees
  <1>d. UniqueRoots'
    BY <1>1, <1>7, <1>9 DEF UniqueRoots
  <1>e. Numbers'
    <2>1. \A q \in deviceList' : device'[q].number <= fetches'
      BY <1>1, <1>2, <1>6, <1>7, <1>a, DiscoveryAssumption DEF Numbers, TypeOK
    <2> QED
      BY <1>1, <1>b, <2>1, EndOfFetchPending DEF Numbers
  <1>f. KnownRoots' /\ OnlyNewestCounts'
    BY <1>1, <1>b, EndOfFetchPending
  <1>g. NewerThanCached'
    <2> SUFFICES ASSUME NEW q \in pendingFetches', NEW d \in deviceList',
                        KnowsRoot(q), ~fetch[q].superseded, d <= fetch[q].known,
                        RootUdn(device'[d].udns) = fetch[q].rootUdn
                 PROVE  device'[d].number < fetch[q].number
      BY <1>a DEF NewerThanCached, KnowsRoot
    <2>1. q \in pendingFetches /\ fetch[q].known \in Nat /\ fetch[q].known <= made
      BY <1>a, DiscoveryAssumption DEF Numbers, TypeOK, FetchState
    <2>2. d # o
      BY <1>4, <2>1
    <2>3. d \in deviceList
      BY <1>1, <2>2
    <2> QED
      BY <1>7, <2>1, <2>3 DEF NewerThanCached
  <1> QED
    BY <1>8, <1>c, <1>d, <1>e, <1>f, <1>g

--------------------------------------------------------------------------------
\* The listener, byebyes and the application.
LEMMA NotifiesInv ==
  ASSUME DiscoveryInv, NEW p \in Procs, Notifies(p)
  PROVE  DiscoveryInv'
  <1> USE DEF DiscoveryInv, ControlInv
  <1>a. "app" \notin Procs
    BY DiscoveryAssumption
  <1>b. UNCHANGED <<controlVars, fetchVars, cacheVars, held>>
    BY DEF Notifies
  <1>c. pc' = [pc EXCEPT ![p] = "idle"] /\ pc[p] = "notify"
    BY DEF Notifies, Goto
  <1>1. TypeOK'
    BY <1>a, <1>b, <1>c DEF TypeOK, controlVars, fetchVars, cacheVars, ProcPc, AppPc
  <1>2. StopProgress'
    BY <1>a, <1>b, <1>c DEF StopProgress, controlVars, fetchVars, cacheVars, TypeOK
  <1>3. Epochs'
    BY <1>b DEF Epochs, controlVars, fetchVars
  <1>4. Pointers'
    BY <1>a, <1>b, <1>c DEF Pointers, TypeOK
  <1>5. DataInv'
    BY <1>b, DataStays DEF fetchVars, cacheVars
  <1> QED
    BY <1>1, <1>2, <1>3, <1>4, <1>5

\* After a byebye or a stop every pending fetch is of an older epoch.
LEMMA NextEpochInv ==
  ASSUME DiscoveryInv, NextEpoch, UNCHANGED <<pendingFetches, fetch>>
  PROVE  Epochs' /\ discoveryEpoch' \in 0..MaxEpoch /\ outdated' \subseteq pendingFetches'
  <1> USE DEF DiscoveryInv, ControlInv
  <1>1. discoveryEpoch' = discoveryEpoch + 1 /\ discoveryEpoch \in Nat /\ discoveryEpoch < MaxEpoch
    BY DiscoveryAssumption DEF NextEpoch, TypeOK
  <1>2. \A p \in pendingFetches : fetch[p].epoch \in Nat
    BY DiscoveryAssumption DEF TypeOK, FetchState
  <1>3. Epochs'
    BY <1>1, <1>2 DEF Epochs
  <1>4. discoveryEpoch' \in 0..MaxEpoch
    BY <1>1, DiscoveryAssumption
  <1> QED
    BY <1>3, <1>4 DEF NextEpoch

\* A byebye outdates every pending fetch, and only a remover keeps the pointer.
LEMMA ByebyeInv ==
  ASSUME DiscoveryInv, NEW p \in Removers, NEW r \in Roots, Byebye(p, r)
  PROVE  DiscoveryInv'
  <1> USE DEF DiscoveryInv, ControlInv
  <1> DEFINE o == DeviceByUdn(r)
  <1>a. "app" \notin Procs /\ p \in Procs /\ p \in Workers
    BY DiscoveryAssumption DEF Procs
  <1>b. /\ UNCHANGED <<stopping, listening, restarting, pendingFetches, fetch, fetches, shared, cacheVars>>
        /\ NextEpoch /\ listening
        /\ held' = [held EXCEPT ![p] = o]
    BY DEF Byebye
  <1>c. pc' = [pc EXCEPT ![p] = IF o = NoObject THEN "idle" ELSE "removing"] /\ pc[p] = "idle"
    BY DEF Byebye
  <1>d. o \in Objects \cup {NoObject}
    <2>1. deviceList \subseteq Objects
      BY DiscoveryAssumption DEF TypeOK, Objects
    <2> QED
      BY <2>1, Lookup
  <1> HIDE DEF o
  <1>e. Epochs' /\ discoveryEpoch' \in 0..MaxEpoch /\ outdated' \subseteq pendingFetches'
    BY <1>b, NextEpochInv
  <1>1. TypeOK'
    <2>1. /\ pc' \in [Procs \cup {"app"} -> ProcPc \cup AppPc] /\ pc'["app"] \in AppPc
          /\ \A q \in Procs : pc'[q] \in ProcPc
          /\ pendingFetches' = {q \in Procs : pc'[q] \in {"fetching", "commit"}}
      BY <1>a, <1>b, <1>c DEF TypeOK, ProcPc, AppPc
    <2>2. held' \in [Procs \cup {"app"} -> Objects \cup {NoObject}]
      BY <1>a, <1>b, <1>d DEF TypeOK
    <2> QED
      BY <2>1, <2>2, <1>b, <1>e DEF TypeOK, cacheVars
  <1>2. StopProgress'
    BY <1>a, <1>b, <1>c DEF StopProgress, cacheVars, TypeOK
  <1>3. Pointers'
    BY <1>a, <1>b, <1>c DEF Pointers, TypeOK
  <1>4. DataInv'
    BY <1>b, DataStays DEF cacheVars
  <1> QED
    BY <1>1, <1>2, <1>3, <1>4, <1>e

\* A removal only shrinks the list.
LEMMA RemovesInv ==
  ASSUME DiscoveryInv, NEW p \in Procs, Removes(p)
  PROVE  DiscoveryInv'
  <1> USE DEF DiscoveryInv, ControlInv
  <1>a. "app" \notin Procs
    BY DiscoveryAssumption
  <1>b. /\ UNCHANGED <<controlVars, fetchVars, device, made>>
        /\ deviceList' = deviceList \ {held[p]}
        /\ held' = [held EXCEPT ![p] = NoObject]
    BY DEF Removes
  <1>c. pc' = [pc EXCEPT ![p] = "idle"] /\ pc[p] = "removing"
    BY DEF Removes, Goto
  <1>1. TypeOK'
    BY <1>a, <1>b, <1>c DEF TypeOK, controlVars, fetchVars, ProcPc, AppPc, NoObject
  <1>2. StopProgress'
    <2>1. pc'["app"] = pc["app"] /\ \A w \in Workers : pc[w] = "idle" => pc'[w] = "idle"
      BY <1>a, <1>c DEF TypeOK, Procs
    <2>2. UNCHANGED <<stopping, listening, pendingFetches>> /\ deviceList' \subseteq deviceList
      BY <1>b DEF controlVars, fetchVars
    <2> QED
      BY <2>1, <2>2 DEF StopProgress
  <1>3. Epochs'
    BY <1>b DEF Epochs, controlVars, fetchVars
  <1>4. Pointers'
    BY <1>a, <1>b, <1>c DEF Pointers, TypeOK
  <1>5. DataInv'
    BY <1>b, DataStays DEF fetchVars
  <1> QED
    BY <1>1, <1>2, <1>3, <1>4, <1>5

\* A stop begins like a byebye, and refuses further reservations.
LEMMA CallsStopInv ==
  ASSUME DiscoveryInv, CallsStop
  PROVE  DiscoveryInv'
  <1> USE DEF DiscoveryInv, ControlInv
  <1>a. "app" \notin Procs
    BY DiscoveryAssumption
  <1>b. /\ UNCHANGED <<listening, pendingFetches, fetch, fetches, shared, cacheVars, held>>
        /\ NextEpoch /\ stopping' = TRUE /\ restarting' \in BOOLEAN
    BY DEF CallsStop
  <1>c. pc' = [pc EXCEPT !["app"] = "closing"] /\ pc["app"] \in {"idle", "opening"}
    BY DEF CallsStop, Goto
  <1>e. Epochs' /\ discoveryEpoch' \in 0..MaxEpoch /\ outdated' \subseteq pendingFetches'
    BY <1>b, NextEpochInv
  <1>1. TypeOK'
    BY <1>a, <1>b, <1>c, <1>e DEF TypeOK, cacheVars, ProcPc, AppPc
  <1>2. StopProgress'
    <2>1. pc'["app"] = "closing"
      BY <1>c DEF TypeOK
    <2> QED
      BY <1>b, <2>1 DEF StopProgress
  <1>3. Pointers'
    BY <1>a, <1>b, <1>c DEF Pointers, TypeOK
  <1>4. DataInv'
    BY <1>b, DataStays DEF cacheVars
  <1> QED
    BY <1>1, <1>2, <1>3, <1>4, <1>e

\* The steps of a stop and of a start.
LEMMA AppInv ==
  ASSUME DiscoveryInv, AppStep
  PROVE  DiscoveryInv'
  <1> USE DEF DiscoveryInv, ControlInv
  <1>a. "app" \notin Procs /\ Workers \subseteq Procs
    BY DiscoveryAssumption DEF Procs
  <1>b. /\ UNCHANGED <<discoveryEpoch, pendingFetches, fetch, fetches, outdated, shared, device, made>>
        /\ deviceList' \in {deviceList, {}}
        /\ UNCHANGED stopping \/ Restarts
        /\ UNCHANGED listening \/ ClosesServers \/ OpensServers
        /\ UNCHANGED restarting \/ restarting' = FALSE
        /\ UNCHANGED held \/ AwaitsFetches \/ Tells
    BY DEF AppStep, ClosesServers, JoinsWorkers, AwaitsFetches, Tells, Restarts, OpensServers,
           controlVars, fetchVars, cacheVars
  <1>c. PICK to \in AppPc : pc' = [pc EXCEPT !["app"] = to]
    <2>1. UNCHANGED pc => pc' = [pc EXCEPT !["app"] = pc["app"]] /\ pc["app"] \in AppPc
      BY DEF TypeOK
    <2> QED
      BY <2>1 DEF AppStep, ClosesServers, JoinsWorkers, AwaitsFetches, Tells, Restarts,
                  OpensServers, Goto, Done, AppPc
  <1>d. pc'["app"] = to /\ \A p \in Procs : pc'[p] = pc[p]
    BY <1>a, <1>c DEF TypeOK
  <1>e. deviceList' \subseteq deviceList
    BY <1>b
  <1>f. \A S \in SUBSET deviceList : S # {} => First(S) \in Objects /\ First(S) \in S
    <2>1. deviceList \subseteq Objects /\ deviceList \subseteq Nat
      BY DiscoveryAssumption DEF TypeOK, Objects
    <2> QED
      BY <2>1, FirstIsLeast
  <1>1. TypeOK'
    <2>1. held' \in [Procs \cup {"app"} -> Objects \cup {NoObject}]
      <3>1. CASE UNCHANGED held
        BY <3>1 DEF TypeOK
      <3>2. CASE AwaitsFetches
        BY <1>f, <3>2 DEF AwaitsFetches, TypeOK
      <3>3. CASE Tells
        <4>1. {o \in deviceList : o > held["app"]} \in SUBSET deviceList
          OBVIOUS
        <4> QED
          BY <1>f, <3>3, <4>1 DEF Tells, TypeOK
      <3> QED
        BY <1>b, <3>1, <3>2, <3>3
    <2>2. stopping' \in BOOLEAN /\ listening' \in BOOLEAN /\ restarting' \in BOOLEAN
      BY <1>b DEF TypeOK, Restarts, ClosesServers, OpensServers
    <2>3. deviceList' \subseteq 1..made'
      BY <1>b, <1>e DEF TypeOK
    <2>4. pc' \in [Procs \cup {"app"} -> ProcPc \cup AppPc]
      BY <1>c DEF TypeOK
    <2>5. pendingFetches' = {q \in Procs : pc'[q] \in {"fetching", "commit"}}
      BY <1>b, <1>d DEF TypeOK
    <2> QED
      BY <1>b, <1>d, <2>1, <2>2, <2>3, <2>4, <2>5 DEF TypeOK
  <1>2. StopProgress'
    <2>a. \A w \in Workers : pc'[w] = pc[w]
      BY <1>a, <1>d
    <2>b. to \in AppPc /\ pc'["app"] = to
      BY <1>d
    <2>1. CASE ClosesServers
      <3> to = "joining" /\ pc["app"] = "closing" /\ ~listening' /\ UNCHANGED stopping
        BY <2>1, <1>d DEF ClosesServers, Goto, TypeOK
      <3> QED
        BY <2>b DEF StopProgress
    <2>2. CASE JoinsWorkers
      <3> /\ to = "waiting" /\ pc["app"] = "joining" /\ \A w \in Workers : pc[w] = "idle"
          /\ UNCHANGED <<stopping, listening>>
        BY <2>2, <1>d DEF JoinsWorkers, Goto, TypeOK, controlVars
      <3> QED
        BY <2>a, <2>b DEF StopProgress
    <2>3. CASE AwaitsFetches
      <3>1. /\ pc["app"] = "waiting" /\ UNCHANGED <<stopping, listening, pendingFetches, deviceList>>
            /\ \/ to = "asleep"
               \/ to = "telling" /\ pendingFetches = {}
               \/ to \in {"starting", "idle"} /\ pendingFetches = {} /\ deviceList = {}
        BY <2>3, <1>d DEF AwaitsFetches, TypeOK, controlVars, fetchVars, cacheVars, Done
      <3> QED
        BY <2>a, <2>b, <3>1 DEF StopProgress
    <2>4. CASE Tells
      <3>1. /\ pc["app"] = "telling" /\ UNCHANGED <<stopping, listening, pendingFetches>>
            /\ \/ to = "telling"
               \/ to \in {"starting", "idle"} /\ deviceList' = {}
        BY <2>4, <1>d DEF Tells, TypeOK, controlVars, fetchVars, Done
      <3> QED
        BY <2>a, <2>b, <3>1 DEF StopProgress
    <2>5. CASE Restarts
      <3>1. to = "opening" /\ pc["app"] = "starting" /\ stopping' = FALSE /\ UNCHANGED listening
        BY <2>5, <1>d DEF Restarts, Goto, TypeOK
      <3> QED
        BY <2>b, <3>1 DEF StopProgress
    <2>6. CASE OpensServers
      <3>1. to = "idle" /\ pc["app"] = "opening" /\ UNCHANGED stopping
        BY <2>6, <1>d DEF OpensServers, Goto, TypeOK
      <3> QED
        BY <2>b, <3>1 DEF StopProgress
    <2> QED
      BY <2>1, <2>2, <2>3, <2>4, <2>5, <2>6 DEF AppStep
  <1>3. Epochs'
    BY <1>b DEF Epochs
  <1>4. Pointers'
    <2>1. \A p \in Procs : held'[p] = held[p]
      BY <1>a, <1>b DEF AwaitsFetches, Tells, TypeOK
    <2>2. held'["app"] # NoObject => to = "telling"
      <3>1. CASE ClosesServers \/ JoinsWorkers \/ Restarts \/ OpensServers
        <4>1. UNCHANGED held /\ pc["app"] # "telling"
          BY <3>1 DEF ClosesServers, JoinsWorkers, Restarts, OpensServers, Goto
        <4> QED
          BY <4>1 DEF Pointers
      <3>2. CASE AwaitsFetches
        BY <1>d, <3>2 DEF AwaitsFetches, Pointers, TypeOK
      <3>3. CASE Tells
        BY <1>d, <3>3 DEF Tells, Pointers, TypeOK
      <3> QED
        BY <3>1, <3>2, <3>3 DEF AppStep
    <2> QED
      BY <1>d, <2>1, <2>2 DEF Pointers
  <1>5. DataInv'
    BY <1>b, <1>e, DataStays
  <1> QED
    BY <1>1, <1>2, <1>3, <1>4, <1>5

--------------------------------------------------------------------------------
LEMMA InitInv ==
  ASSUME Init
  PROVE  DiscoveryInv
  <1> USE DEF Init
  <1>1. TypeOK
    <2>1. NoFetch \in FetchState /\ NoDevice \in DeviceState
      BY DiscoveryAssumption DEF NoFetch, FetchState, NoDevice, DeviceState
    <2>2. pendingFetches = {p \in Procs : pc[p] \in {"fetching", "commit"}}
      OBVIOUS
    <2>3. fetch \in [Procs -> FetchState] /\ device \in [Objects -> DeviceState]
      BY <2>1
    <2>4. /\ pc \in [Procs \cup {"app"} -> ProcPc \cup AppPc]
          /\ pc["app"] \in AppPc /\ \A p \in Procs : pc[p] \in ProcPc
          /\ held \in [Procs \cup {"app"} -> Objects \cup {NoObject}]
      BY DEF ProcPc, AppPc
    <2>5. discoveryEpoch \in 0..MaxEpoch /\ fetches \in 0..MaxFetches /\ made \in 0..MaxObjects
      BY DiscoveryAssumption
    <2> QED
      BY <2>2, <2>3, <2>4, <2>5 DEF TypeOK
  <1>2. StopProgress
    BY DEF StopProgress, Procs
  <1>3. Epochs /\ Pointers
    BY DEF Epochs, Pointers
  <1>4. DataInv
    BY DEF DataInv, Trees, UniqueRoots, Numbers, KnownRoots, OnlyNewestCounts, NewerThanCached
  <1> QED
    BY <1>1, <1>2, <1>3, <1>4 DEF DiscoveryInv, ControlInv

\* Every step preserves the invariant.
LEMMA NextInv ==
  ASSUME DiscoveryInv, [Next]_vars
  PROVE  DiscoveryInv'
  <1>1. CASE \E p \in Procs, u \in Udns, l \in Locations :
               Refreshes(p, u, l) \/ Shares(p, u, l) \/ Reserves(p, u, l)
    BY <1>1, RefreshesInv, SharesInv, ReservesInv
  <1>2. CASE \E p \in Procs : ProcStep(p)
    BY <1>2, FetchedInv, DiscardsInv, UpdatesInv, AddsInv, NotifiesInv, RemovesInv
    DEF ProcStep, Commits
  <1>3. CASE \E p \in Removers, r \in Roots : Byebye(p, r)
    BY <1>3, ByebyeInv
  <1>4. CASE CallsStop
    BY <1>4, CallsStopInv
  <1>5. CASE AppStep
    BY <1>5, AppInv
  <1>6. CASE UNCHANGED vars
    <2> UNCHANGED <<stopping, discoveryEpoch, listening, restarting, pendingFetches, fetch, fetches,
                    outdated, shared, deviceList, device, made, pc, held>>
      BY <1>6 DEF vars, controlVars, fetchVars, cacheVars
    <2>1. TypeOK'
      BY DEF DiscoveryInv, ControlInv, TypeOK
    <2>2. StopProgress' /\ Epochs' /\ Pointers'
      BY DEF DiscoveryInv, ControlInv, StopProgress, Epochs, Pointers
    <2>3. DataInv'
      BY DataStays DEF DiscoveryInv
    <2> QED
      BY <2>1, <2>2, <2>3 DEF DiscoveryInv, ControlInv
  <1> QED
    BY <1>1, <1>2, <1>3, <1>4, <1>5, <1>6 DEF Next

\* The inductive invariant holds: the stop protocol, the epochs, the numbering of
\* reservations and the roots of what is cached and pending hang together.
THEOREM Discovered == Spec => []DiscoveryInv
  <1>1. Init => DiscoveryInv
    BY InitInv
  <1>2. DiscoveryInv /\ [Next]_vars => DiscoveryInv'
    BY NextInv
  <1> QED
    BY <1>1, <1>2, PTL DEF Spec

\* Type correctness: in particular a reservation, a record on the stack of
\* mupnp_controlpoint_fetchdevice, is on the list exactly during that call.
THEOREM CacheTyped == Spec => []TypeOK
  <1>1. DiscoveryInv => TypeOK
    BY DEF DiscoveryInv, ControlInv
  <1> QED
    BY <1>1, Discovered, PTL

\* mupnp_controlpoint_fetchdevice never caches one root twice.
THEOREM RootsAreUnique == Spec => []UniqueRoots
  <1>1. DiscoveryInv => UniqueRoots
    BY DEF DiscoveryInv, DataInv
  <1> QED
    BY <1>1, Discovered, PTL

\* When mupnp_controlpoint_stop has returned, the workers, the fetches and the
\* cache are gone, and stay so until the next start.
THEOREM StopsQuietly == Spec => []StoppedIsQuiet
  <1>1. DiscoveryInv => StoppedIsQuiet
    BY DEF DiscoveryInv, ControlInv, StopProgress, StoppedIsQuiet
  <1> QED
    BY <1>1, Discovered, PTL

--------------------------------------------------------------------------------
\* A pending fetch goes on by its own steps only.
LEMMA OwnSteps ==
  ASSUME DiscoveryInv, [Next]_vars, NEW p \in pendingFetches, pc'[p] # pc[p]
  PROVE  Fetched(p) \/ Commits(p)
  <1>p. p \in Procs /\ pc[p] \in {"fetching", "commit"}
    BY DEF DiscoveryInv, ControlInv, TypeOK
  <1>a. "app" \notin Procs /\ Removers \subseteq Procs
    BY DiscoveryAssumption DEF Procs
  <1>b. pc \in [Procs \cup {"app"} -> ProcPc \cup AppPc]
    BY DEF DiscoveryInv, ControlInv, TypeOK
  <1>1. ASSUME NEW q \in Procs, NEW u, NEW l, Refreshes(q, u, l) \/ Shares(q, u, l) \/ Reserves(q, u, l)
        PROVE  FALSE
    BY <1>1, <1>b, <1>p DEF Refreshes, Shares, Reserves, Reservation, Announced
  <1>2. ASSUME NEW q \in Procs, Fetched(q) \/ Notifies(q) \/ Removes(q), q # p
        PROVE  FALSE
    BY <1>2, <1>b, <1>p DEF Fetched, Notifies, Removes, Goto
  <1>3. ASSUME NEW q \in Procs, Commits(q), q # p
        PROVE  FALSE
    <2>1. PICK to \in {"idle", "notify"} : EndsFetch(q, to)
      BY <1>3 DEF Commits, Discards, Updates, Update, Adds, Add, Fails
    <2> QED
      BY <1>3, <1>p, <2>1, EndOfFetch DEF DiscoveryInv, ControlInv
  <1>4. ASSUME NEW q \in Removers, NEW r, Byebye(q, r)
        PROVE  FALSE
    BY <1>4, <1>a, <1>b, <1>p DEF Byebye
  <1>5. ~CallsStop
    BY <1>a, <1>b, <1>p DEF CallsStop, Goto
  <1>6. ~AppStep
    BY <1>a, <1>b, <1>p DEF AppStep, ClosesServers, JoinsWorkers, AwaitsFetches, Tells, Restarts,
                     OpensServers, Goto
  <1>7. ~UNCHANGED vars
    BY DEF vars
  <1>8. ~Notifies(p) /\ ~Removes(p)
    BY <1>p DEF Notifies, Removes, Goto
  <1> QED
    BY <1>1, <1>2, <1>3, <1>4, <1>5, <1>6, <1>7, <1>8 DEF Next, ProcStep

\* Whatever was fetched when a byebye or a stop came is discarded by
\* mupnp_controlpoint_fetchdevice: the epoch of its reservation is old.
THEOREM ByebyesInvalidate == Spec => ByebyeInvalidates
  <1>1. ASSUME DiscoveryInv, [Next]_vars, NEW p \in Procs,
               p \in outdated, pc[p] = "commit", pc'[p] # "commit"
        PROVE  pc'[p] = "idle" /\ UNCHANGED cacheVars
    <2>0. p \in pendingFetches
      BY <1>1 DEF DiscoveryInv, ControlInv, TypeOK
    <2>1. Commits(p)
      BY <1>1, <2>0, OwnSteps DEF Fetched, Goto
    <2>2. ~Valid(p)
      BY <1>1, <2>0, DiscoveryAssumption DEF DiscoveryInv, ControlInv, TypeOK, Epochs, Valid, FetchState
    <2>3. Discards(p)
      BY <2>1, <2>2 DEF Commits, Updates, Update, Adds, Add, Fails
    <2>4. EndsFetch(p, "idle") /\ UNCHANGED cacheVars
      BY <2>3 DEF Discards
    <2> QED
      BY <2>4, <1>1, EndOfFetch DEF DiscoveryInv, ControlInv
  <1>2. DiscoveryInv /\ [Next]_vars =>
          [\A p \in Procs : p \in outdated /\ pc[p] = "commit" /\ pc[p]' # "commit" =>
             pc[p]' = "idle" /\ UNCHANGED cacheVars]_vars
    BY <1>1
  <1> QED
    BY <1>2, Discovered, PTL DEF Spec, ByebyeInvalidates

\* An older response never replaces a newer one in the cache.
THEOREM NewestOneStays == Spec => NewestStays
  <1>1. ASSUME DiscoveryInv, [Next]_vars, NEW p \in pendingFetches,
               NEW o \in deviceList \cap deviceList',
               pc'[p] = "notify", o <= fetch[p].known
        PROVE  device[o].number <= device'[o].number
    <2>1. p \in Procs /\ pc[p] \in {"fetching", "commit"} /\ TypeOK
      BY <1>1 DEF DiscoveryInv, ControlInv, TypeOK
    <2>2. ~Fetched(p)
      BY <1>1, <2>1 DEF Fetched, Goto, TypeOK
    <2>3. Commits(p)
      BY <1>1, <2>1, <2>2, OwnSteps
    <2>4. o \in Objects /\ device[o].number \in Nat /\ fetch[p].number \in Nat
      BY <1>1, <2>1, DiscoveryAssumption DEF TypeOK, Objects, DeviceState, FetchState
    <2>5. CASE device'[o] = device[o]
      BY <2>4, <2>5
    <2>6. CASE device'[o] # device[o]
      <3>1. ~Discards(p) /\ ~Fails(p)
        BY <2>6 DEF Discards, Fails, cacheVars
      <3>2. ~Adds(p)
        <4> made + 1 \notin deviceList
          BY <2>1, DiscoveryAssumption DEF TypeOK
        <4> QED
          BY <2>1, <2>4, <2>6 DEF Adds, Add, TypeOK
      <3>3. Updates(p)
        BY <2>3, <3>1, <3>2 DEF Commits
      <3>4. o = DeviceByUdn(fetch[p].udn) /\ device'[o].number = fetch[p].number
        BY <2>1, <2>4, <2>6, <3>3 DEF Updates, Update, TypeOK
      <3>5. KnowsRoot(p) /\ RootUdn(device[o].udns) = fetch[p].rootUdn /\ ~fetch[p].superseded
        BY <1>1, <3>3, <3>4, UpdatedDevice DEF Updates, Update, Valid
      <3>6. device[o].number < fetch[p].number
        BY <1>1, <3>5 DEF DiscoveryInv, DataInv, NewerThanCached
      <3> QED
        BY <2>4, <3>4, <3>6
    <2> QED
      BY <2>5, <2>6
  <1>2. DiscoveryInv /\ [Next]_vars =>
          [\A p \in pendingFetches, o \in deviceList \cap deviceList' :
             pc[p]' = "notify" /\ o <= fetch[p].known => device[o].number <= device[o].number']_vars
    BY <1>1
  <1> QED
    BY <1>2, Discovered, PTL DEF Spec, NewestStays

--------------------------------------------------------------------------------
\* With one thread that removes devices no pointer outlives its device: that the
\* second section of mupnp_controlpoint_removedevicebyssdppacket deletes the
\* pointer of the first is safe for one NOTIFY server, and only for one.
THEOREM OneRemoverIsSafe ==
  ASSUME \A a, b \in Removers : a = b
  PROVE  Spec => []DevicesOutliveUse
  <1>1. Init => DevicesOutliveUse
    BY DEF Init, DevicesOutliveUse
  <1>2. ASSUME DiscoveryInv, DevicesOutliveUse, [Next]_vars
        PROVE  DevicesOutliveUse'
    <2> TypeOK /\ StopProgress /\ Pointers
      BY <1>2 DEF DiscoveryInv, ControlInv
    <2>a. "app" \notin Procs /\ Removers \subseteq Workers /\ Workers \subseteq Procs
      BY DiscoveryAssumption DEF Procs
    <2>b. deviceList \subseteq Nat /\ 0 \notin deviceList
      BY DiscoveryAssumption DEF TypeOK
    <2>c. \A p \in Procs : held[p] # NoObject => p \in Workers /\ pc[p] = "removing"
      BY <2>a DEF Pointers
    <2>d. held["app"] # NoObject => \A w \in Workers : pc[w] = "idle"
      BY DEF Pointers, StopProgress
    <2>1. CASE UNCHANGED held /\ deviceList \subseteq deviceList'
      BY <1>2, <2>1 DEF DevicesOutliveUse
    <2>2. ASSUME NEW p \in Removers, NEW r, Byebye(p, r)
          PROVE  DevicesOutliveUse'
      <3>1. DeviceByUdn(r) # NoObject => DeviceByUdn(r) \in deviceList
        BY Lookup
      <3> QED
        BY <1>2, <2>2, <3>1 DEF Byebye, DevicesOutliveUse, cacheVars, TypeOK
    <2>3. ASSUME NEW p \in Procs, Removes(p)
          PROVE  DevicesOutliveUse'
      <3>1. pc[p] = "removing" /\ p \in Removers
        BY <2>3 DEF Removes, Goto, Pointers
      <3>2. \A q \in (Procs \cup {"app"}) \ {p} : held[q] = NoObject
        BY <2>a, <2>d, <3>1 DEF Pointers
      <3>3. held' = [held EXCEPT ![p] = NoObject]
        BY <2>3 DEF Removes
      <3> QED
        BY <3>2, <3>3 DEF DevicesOutliveUse, TypeOK
    <2>4. CASE AwaitsFetches
      <3>1. deviceList # {} => First(deviceList) \in deviceList
        BY <2>b, FirstIsLeast
      <3>2. deviceList' = deviceList
        BY <2>4 DEF AwaitsFetches, cacheVars
      <3> QED
        BY <1>2, <2>4, <3>1, <3>2 DEF AwaitsFetches, DevicesOutliveUse, TypeOK
    <2>5. CASE Tells
      <3> DEFINE rest == {o \in deviceList : o > held["app"]}
      <3>1. rest # {} => First(rest) \in rest
        BY <2>b, FirstIsLeast
      <3>2. \A q \in Procs : held[q] = NoObject
        <4> \A w \in Workers : pc[w] = "idle"
          BY <2>5 DEF Tells, StopProgress
        <4> QED
          BY <2>c
      <3>3. \A q \in Procs : held'[q] = NoObject
        BY <2>5, <2>a, <3>2 DEF Tells, TypeOK
      <3>4. CASE rest # {}
        <4>1. held'["app"] = First(rest) /\ deviceList' = deviceList
          BY <2>5, <3>4 DEF Tells, TypeOK
        <4> QED
          BY <3>1, <3>3, <3>4, <4>1 DEF DevicesOutliveUse
      <3>5. CASE rest = {}
        <4>1. held'["app"] = NoObject
          BY <2>5, <3>5 DEF Tells, TypeOK
        <4> QED
          BY <3>3, <4>1 DEF DevicesOutliveUse
      <3> QED
        BY <3>4, <3>5
    <2>6. ASSUME NEW p \in Procs, Commits(p)
          PROVE  UNCHANGED held /\ deviceList \subseteq deviceList'
      BY <2>6 DEF Commits, Discards, Updates, Update, Adds, Add, Fails, EndsFetch, cacheVars
    <2>7. ASSUME NEW p \in Procs, Fetched(p) \/ Notifies(p)
          PROVE  UNCHANGED held /\ deviceList \subseteq deviceList'
      BY <2>7 DEF Fetched, Notifies, cacheVars
    <2>8. ASSUME NEW p \in Procs, NEW u, NEW l, Refreshes(p, u, l) \/ Shares(p, u, l) \/ Reserves(p, u, l)
          PROVE  UNCHANGED held /\ deviceList \subseteq deviceList'
      BY <2>8 DEF Refreshes, Shares, Reserves, Reservation, cacheVars
    <2>9. CASE CallsStop \/ ClosesServers \/ JoinsWorkers \/ Restarts \/ OpensServers \/ UNCHANGED vars
      <3> UNCHANGED held /\ deviceList \subseteq deviceList'
        BY <2>9 DEF CallsStop, ClosesServers, JoinsWorkers, Restarts, OpensServers, vars, cacheVars
      <3> QED
        BY <2>1
    <2> QED
      BY <1>2, <2>1, <2>2, <2>3, <2>4, <2>5, <2>6, <2>7, <2>8, <2>9 DEF Next, ProcStep, AppStep
  <1> QED
    BY <1>1, <1>2, Discovered, PTL DEF Spec
================================================================================
