------------------------ MODULE ContainerWatchProofs ------------------------
(***************************************************************************)
(* Theorems about ContainerWatch, for any ports, checks, policies, bounds  *)
(* on the probes and restarts in place: what the polls take for an exit,   *)
(* and that the probes keep to their slots and the restarts to their limit.*)
(***************************************************************************)
EXTENDS ContainerWatch, FiniteSetTheorems, WellFoundedInduction, TLAPS

\* The inspections under way that will count for an exit.
Bad == {i \in 1..MaxInspects : inspects[i] \in {"down", "failed"}}

\* The variables the polls depend on.
Typed ==
    /\ box \in [state : {"up", "down", "restarting"}, serving : SUBSET Ports]
    /\ sm \in [exited : BOOLEAN, count : Nat, polling : BOOLEAN, restarting : BOOLEAN]
    /\ inspects \in [1..MaxInspects -> {"none", "up", "down", "restarting", "failed"}]
    /\ left \in [faults : 0..MaxFaults, changes : 0..MaxChanges]
    /\ op \in {"on", "exiting", "over"}

\* While the container is alive the polls have not told an exit, and cannot: what counts for one is an
\* inspection under way since before a restart in place, or one that failed, and these are too few.
TooFew ==
    Polled /\ box.state # "down" =>
        ~sm.exited /\ sm.count + Cardinality(Bad) <= MaxInspects + (MaxFaults - left.faults)

-----------------------------------------------------------------------------

LEMMA Bounds ==
    /\ MaxInspects \in Nat /\ MaxFaults \in Nat /\ MaxChanges \in Nat
    /\ MaxInspects + MaxFaults < Required
BY WatchAssumption

LEMMA BadFinite ==
    ASSUME Typed
    PROVE  IsFiniteSet(Bad) /\ Cardinality(Bad) \in 0..MaxInspects
<1>1. IsFiniteSet(1..MaxInspects) /\ Cardinality(1..MaxInspects) = MaxInspects
  BY Bounds, FS_Interval
<1>2. Bad \subseteq 1..MaxInspects
  BY DEF Bad
<1>3. IsFiniteSet(Bad) /\ Cardinality(Bad) <= MaxInspects
  BY <1>1, <1>2, FS_Subset
<1>4. Cardinality(Bad) \in Nat
  BY <1>3, FS_CardinalityType
<1> QED BY <1>3, <1>4, Bounds

\* A call that fails takes one of the failures that are left.
LEMMA FaultLeft ==
    ASSUME Typed, Fault
    PROVE  /\ left' \in [faults : 0..MaxFaults, changes : 0..MaxChanges]
           /\ left'.faults = left.faults - 1
<1>1. left.faults \in Nat /\ left.faults - 1 \in 0..MaxFaults
  BY Bounds DEF Typed, Fault
<1> QED BY <1>1 DEF Typed, Fault

\* Whether a container is polled depends on its setup, which no step changes.
LEMMA PolledStays ==
    ASSUME setup' = setup
    PROVE  Polled' <=> Polled
BY DEF Polled, RestartsOnUnhealthy, Checks

LEMMA InitTooFew == Init => Typed /\ TooFew
<1> SUFFICES ASSUME Init PROVE Typed /\ TooFew
  OBVIOUS
<1>1. Typed
  <2>1. sm \in [exited : BOOLEAN, count : Nat, polling : BOOLEAN, restarting : BOOLEAN]
    BY WatchAssumption DEF Init, Polled, RestartsOnUnhealthy
  <2> QED BY <2>1, Bounds DEF Init, Typed
<1>2. Bad = {}
  BY DEF Init, Bad
<1>3. Cardinality(Bad) = 0
  BY <1>2, FS_EmptySet
<1> QED BY <1>1, <1>3, Bounds DEF Init, TooFew

\* An inspection that is asked adds to what counts only if the container is down or the call fails.
LEMMA PollTooFew ==
    ASSUME Typed, TooFew, Poll
    PROVE  Typed' /\ TooFew'
<1>1. box' = box /\ (Polled' <=> Polled) /\ op' = op
  BY PolledStays DEF Poll, args
<1>2. CASE inspects' = inspects
  <2>1. \/ sm' = [sm EXCEPT !.polling = FALSE] /\ left' = left
        \/ sm' = [sm EXCEPT !.count = 0] /\ left' = left
    <3>1. ASSUME NEW i \in 1..MaxInspects, inspects[i] = "none", NEW answer \in {box.state, "failed"},
                 inspects' = [inspects EXCEPT ![i] = answer]
          PROVE  FALSE
      BY <1>2, <3>1 DEF Typed
    <3> QED BY <1>2, <3>1 DEF Poll
  <2>2. Bad' = Bad
    BY <1>2 DEF Bad
  <2>3. Typed'
    <3>1. sm' \in [exited : BOOLEAN, count : Nat, polling : BOOLEAN, restarting : BOOLEAN]
      <4>1. CASE sm' = [sm EXCEPT !.polling = FALSE]
        BY <4>1 DEF Typed
      <4>2. CASE sm' = [sm EXCEPT !.count = 0]
        BY <4>2 DEF Typed
      <4> QED BY <2>1, <4>1, <4>2
    <3>2. left' = left
      BY <2>1
    <3> QED BY <1>1, <1>2, <3>1, <3>2 DEF Typed
  <2>4. sm'.exited = sm.exited /\ sm'.count \in {0, sm.count} /\ sm.count \in Nat
    BY <2>1 DEF Typed
  <2> QED BY <1>1, <2>1, <2>2, <2>3, <2>4, BadFinite, Bounds DEF Typed, TooFew
<1>3. CASE inspects' # inspects
  <2>1. PICK i \in 1..MaxInspects :
          /\ inspects[i] = "none" /\ sm' = sm
          /\ \/ inspects' = [inspects EXCEPT ![i] = box.state] /\ left' = left
             \/ inspects' = [inspects EXCEPT ![i] = "failed"] /\ Fault
    BY <1>3 DEF Poll
  <2>2. Typed'
    <3>1. inspects' \in [1..MaxInspects -> {"none", "up", "down", "restarting", "failed"}]
      BY <2>1 DEF Typed
    <3>2. left' \in [faults : 0..MaxFaults, changes : 0..MaxChanges]
      BY <2>1, FaultLeft DEF Typed
    <3> QED BY <1>1, <2>1, <3>1, <3>2 DEF Typed
  <2>3. CASE inspects' = [inspects EXCEPT ![i] = box.state] /\ left' = left
    <3>1. box.state # "down" => Bad' = Bad
      BY <2>1, <2>3 DEF Bad, Typed
    <3> QED BY <1>1, <2>1, <2>2, <2>3, <3>1 DEF TooFew
  <2>4. CASE inspects' = [inspects EXCEPT ![i] = "failed"] /\ Fault
    <3>1. Bad' = Bad \cup {i} /\ i \notin Bad
      BY <2>1, <2>4 DEF Bad, Typed
    <3>2. Cardinality(Bad') = Cardinality(Bad) + 1
      BY <3>1, BadFinite, FS_AddElement
    <3>3. left'.faults = left.faults - 1
      BY <2>4, FaultLeft
    <3> QED BY <1>1, <2>1, <2>2, <3>2, <3>3, BadFinite, Bounds
            DEF Typed, TooFew
  <2> QED BY <2>1, <2>3, <2>4
<1> QED BY <1>2, <1>3

\* One that arrives moves to the count, which stays below what tells an exit.
LEMMA ArrivesTooFew ==
    ASSUME Typed, TooFew, NEW i \in 1..MaxInspects, InspectArrives(i)
    PROVE  Typed' /\ TooFew'
<1>1. /\ box' = box /\ (Polled' <=> Polled) /\ left' = left /\ op' = op
      /\ inspects[i] # "none" /\ inspects' = [inspects EXCEPT ![i] = "none"]
  BY PolledStays DEF InspectArrives, args
<1>2. CASE inspects[i] \in {"up", "restarting"}
  <2>1. sm' = [sm EXCEPT !.count = 0, !.exited = FALSE]
    BY <1>2 DEF InspectArrives
  <2>2. Bad' = Bad
    BY <1>1, <1>2 DEF Bad, Typed
  <2>3. Typed'
    BY <1>1, <2>1 DEF Typed
  <2>4. Cardinality(Bad') \in 0..MaxInspects
    BY <2>2, BadFinite
  <2> QED BY <1>1, <2>1, <2>3, <2>4, Bounds DEF Typed, TooFew
<1>3. CASE inspects[i] \in {"down", "failed"}
  <2>1. /\ sm'.count = IF sm.count + 1 >= Required THEN Required ELSE sm.count + 1
        /\ sm'.exited <=> sm.exited \/ sm.count + 1 >= Required
        /\ sm' \in [exited : BOOLEAN, count : Nat, polling : BOOLEAN, restarting : BOOLEAN]
    <3> DEFINE told == sm.count + 1 >= Required
    <3>1. sm' = [sm EXCEPT !.count = IF told THEN Required ELSE @ + 1, !.exited = @ \/ told,
                           !.polling = @ /\ ~(told /\ inspects[i] = "failed")]
      BY <1>3 DEF InspectArrives
    <3>2. (IF told THEN Required ELSE sm.count + 1) \in Nat
      BY DEF Typed, Required
    <3> HIDE DEF told
    <3>3. sm' \in [exited : BOOLEAN, count : Nat, polling : BOOLEAN, restarting : BOOLEAN]
      BY <3>1, <3>2 DEF Typed
    <3>4. (sm'.exited <=> sm.exited \/ told) /\ sm'.count = IF told THEN Required ELSE sm.count + 1
      BY <3>1 DEF Typed
    <3> QED BY <3>3, <3>4 DEF told
  <2>2. Bad' = Bad \ {i} /\ i \in Bad
    BY <1>1, <1>3 DEF Bad, Typed
  <2>3. Cardinality(Bad') = Cardinality(Bad) - 1
    BY <2>2, BadFinite, FS_RemoveElement
  <2>4. Typed'
    BY <1>1, <2>1 DEF Typed
  <2>5. IsFiniteSet(Bad') /\ Cardinality(Bad') \in Nat
    BY <2>2, BadFinite, FS_RemoveElement, FS_CardinalityType
  <2>6. ASSUME Polled, box.state # "down"
        PROVE  ~sm'.exited /\ sm'.count + Cardinality(Bad') <= MaxInspects + (MaxFaults - left.faults)
    <3>1. sm.count + 1 < Required
      BY <2>3, <2>5, <2>6, Bounds, BadFinite DEF Typed, TooFew, Required
    <3> QED BY <2>1, <2>3, <2>5, <2>6, <3>1, Bounds, BadFinite DEF Typed, TooFew, Required
  <2> QED BY <1>1, <2>4, <2>6 DEF TooFew
<1> QED BY <1>1, <1>2, <1>3 DEF Typed

\* A container that is up again starts the count anew; the inspections under way remain.
LEMMA RestartTooFew ==
    ASSUME Typed, TooFew, RestartReturns
    PROVE  Typed' /\ TooFew'
<1>1. /\ sm' = [sm EXCEPT !.exited = FALSE, !.count = 0, !.restarting = FALSE]
      /\ inspects' = inspects /\ left' = left /\ op' = op /\ box' = [box EXCEPT !.state = "up"]
  BY DEF RestartReturns
<1>2. Typed'
  BY <1>1 DEF Typed
<1>3. Cardinality(Bad') \in 0..MaxInspects
  BY <1>2, BadFinite, <1>1 DEF Bad
<1> QED BY <1>1, <1>2, <1>3, Bounds DEF Typed, TooFew

\* Every other step leaves the container alive or not, or makes it end.
LEMMA TooFewNext == (Typed /\ TooFew) /\ [Next]_vars => (Typed /\ TooFew)'
<1> SUFFICES ASSUME Typed, TooFew, [Next]_vars PROVE Typed' /\ TooFew'
  OBVIOUS
<1> USE DEF monitor, prober, args
<1>1. CASE Poll
  BY <1>1, PollTooFew
<1>2. ASSUME NEW i \in 1..MaxInspects, InspectArrives(i) PROVE Typed' /\ TooFew'
  BY <1>2, ArrivesTooFew
<1>3. CASE RestartReturns
  BY <1>3, RestartTooFew
<1>4. ASSUME inspects' = inspects, Polled' <=> Polled, sm'.exited = sm.exited, sm'.count = sm.count,
             left'.faults = left.faults, box'.state # "down" => box.state # "down", Typed'
      PROVE  Typed' /\ TooFew'
  <2>1. Bad' = Bad
    BY <1>4 DEF Bad
  <2> QED BY <1>4, <2>1 DEF TooFew
<1>5. CASE WaitSettles
  <2>1. Typed'
    BY <1>5, FaultLeft DEF WaitSettles, Typed
  <2>2. ~Polled'
    BY <1>5, PolledStays DEF WaitSettles
  <2> QED BY <2>1, <2>2 DEF TooFew
<1>6. CASE RestartStops
  BY <1>6 DEF RestartStops, Typed, TooFew
<1>7. CASE RestartFails
  <2>1. Typed' /\ box' = box /\ inspects' = inspects /\ setup' = setup
    BY <1>7, FaultLeft DEF RestartFails, Typed
  <2>2. sm'.count = 0 /\ sm'.exited = sm.exited /\ left'.faults = left.faults - 1
    BY <1>7, FaultLeft DEF RestartFails, Typed
  <2>3. Bad' = Bad
    BY <2>1 DEF Bad
  <2> QED BY <2>1, <2>2, <2>3, PolledStays, BadFinite, Bounds DEF Typed, TooFew
<1>8. ASSUME NEW p \in Ports, NEW s \in Slots, ProbeTick(p, s) \/ StartupArrives(p, s) PROVE Typed' /\ TooFew'
  BY <1>4, <1>8, PolledStays DEF ProbeTick, StartupArrives, Typed
<1>9. ASSUME NEW p \in Ports, NEW s \in Slots, ContinuousArrives(p, s) PROVE Typed' /\ TooFew'
  <2>1. /\ box' = box /\ inspects' = inspects /\ left' = left /\ op' = op /\ setup' = setup
        /\ sm' = sm \/ sm' = [sm EXCEPT !.restarting = @ \/ TRUE] \/ sm' = [sm EXCEPT !.restarting = @ \/ FALSE]
    BY <1>9 DEF ContinuousArrives, RestartUnhealthy
  <2>2. sm' \in [exited : BOOLEAN, count : Nat, polling : BOOLEAN, restarting : BOOLEAN]
    BY <2>1 DEF Typed
  <2>3. sm'.exited = sm.exited /\ sm'.count = sm.count
    BY <2>1 DEF Typed
  <2>4. Typed'
    BY <2>1, <2>2 DEF Typed
  <2> QED BY <1>4, <2>1, <2>3, <2>4, PolledStays
<1>10. CASE WaitForExit \/ CleanUp \/ Abort
  <2>1. Typed' /\ box' = box /\ inspects' = inspects /\ setup' = setup /\ left' = left
    BY <1>10 DEF WaitForExit, CleanUp, Abort, Typed
  <2>2. sm'.exited = sm.exited /\ sm'.count = sm.count
    BY <1>10 DEF WaitForExit, CleanUp, Abort, Typed
  <2> QED BY <1>4, <2>1, <2>2, PolledStays
<1>11. ASSUME Exits \/ PolicyRestarts \/ \E p \in Ports : ServiceChanges(p) PROVE Typed' /\ TooFew'
  <2>1. /\ sm' = sm /\ inspects' = inspects /\ setup' = setup /\ op' = op
        /\ box.state # "down" /\ left'.faults = left.faults
    BY <1>11 DEF Exits, PolicyRestarts, ServiceChanges, Change, Typed
  <2>2. /\ box' \in [state : {"up", "down", "restarting"}, serving : SUBSET Ports]
        /\ left' \in [faults : 0..MaxFaults, changes : 0..MaxChanges]
    BY <1>11, Bounds DEF Exits, PolicyRestarts, ServiceChanges, Change, Typed
  <2>3. Typed'
    BY <2>1, <2>2 DEF Typed
  <2> QED BY <1>4, <2>1, <2>3, PolledStays
<1>12. CASE UNCHANGED vars
  BY <1>4, <1>12, PolledStays DEF vars, Typed
<1> QED BY <1>1, <1>2, <1>3, <1>5, <1>6, <1>7, <1>8, <1>9, <1>10, <1>11, <1>12 DEF Next, CheckArrives

-----------------------------------------------------------------------------

\* A run that was not aborted is over only when its container is down: three polls in a row that find
\* it gone are never three late or failed answers about a container that is alive.
THEOREM ExitIsRealAlways == Spec => ExitIsReal
<1>1. Init => Typed /\ TooFew
  BY InitTooFew
<1>2. (Typed /\ TooFew) /\ [Next]_vars
        => [Polled /\ op = "on" /\ op' = "exiting" /\ aborted = "no" => box.state = "down"]_vars
  <2> SUFFICES ASSUME Typed, TooFew, Next, op = "on", op' = "exiting", aborted = "no", Polled
               PROVE  box.state = "down"
    OBVIOUS
  <2>1. WaitForExit
    BY DEF Next, CheckArrives, Poll, WaitSettles, InspectArrives, RestartStops, RestartReturns, RestartFails,
           ProbeTick, StartupArrives, ContinuousArrives, CleanUp, Abort, Exits, PolicyRestarts, ServiceChanges
  <2> QED BY <2>1 DEF WaitForExit, TooFew
<1> QED BY <1>1, <1>2, TooFewNext, PTL DEF Spec, ExitIsReal

-----------------------------------------------------------------------------
(* The types.                                                                  *)

Below == {pair \in Nat \X Nat : pair[1] < pair[2]}

\* The first free slot of a port is one of its slots, and free.
LEMMA FirstFree ==
    ASSUME NEW p \in Ports, NEW all, HasFree(p, all)
    PROVE  FreeSlot(p, all) \in Slots /\ all[p][FreeSlot(p, all)] = Free
<1> DEFINE S == {s \in Slots : all[p][s] = Free}
<1>1. S # {} /\ S \subseteq Nat /\ \A s \in S : s \in Slots /\ all[p][s] = Free
  BY WatchAssumption DEF HasFree, Slots
<1>2. \A t \in Slots : t \notin S => all[p][t] # Free
  OBVIOUS
<1> HIDE DEF S
<1>3. IsWellFoundedOn(Below, Nat)
  BY NatLessThanWellFounded DEF OpToRel, Below
<1>4. PICK s \in S : \A t \in S : <<t, s>> \notin Below
  BY <1>1, <1>3, WFMin
<1>5. s \in Slots /\ all[p][s] = Free
  BY <1>1, <1>4
<1>6. \A t \in 1..(s - 1) : all[p][t] # Free
  <2> SUFFICES ASSUME NEW t \in 1..(s - 1) PROVE all[p][t] # Free
    OBVIOUS
  <2>1. t \in Slots /\ t < s /\ t \in Nat /\ s \in Nat
    BY <1>5, WatchAssumption DEF Slots
  <2>2. t \notin S
    BY <1>4, <2>1 DEF Below
  <2> QED BY <1>2, <2>1, <2>2
<1>7. \E x \in Slots : all[p][x] = Free /\ \A t \in 1..(x - 1) : all[p][t] # Free
  BY <1>5, <1>6
<1> QED BY <1>7, Zenon DEF FreeSlot

LEMMA ProbeTyped ==
    /\ Free \in Probe /\ Begin("startup") \in Probe /\ Begin("continuous") \in Probe
    /\ \A probe \in Probe : /\ Kept(probe) \in Probe
                            /\ Kept([probe EXCEPT !.check = "none"]) \in Probe
                            /\ Kept([probe EXCEPT !.armed = FALSE]) \in Probe
<1>1. Free \in Probe /\ Begin("startup") \in Probe /\ Begin("continuous") \in Probe
  BY DEF Free, Begin, Probe
<1>2. ASSUME NEW probe \in Probe
      PROVE  [probe EXCEPT !.check = "none"] \in Probe /\ [probe EXCEPT !.armed = FALSE] \in Probe
  BY DEF Probe
<1> QED BY <1>1, <1>2 DEF Kept

Grids == [Ports -> [Slots -> Probe]]

\* What the steps make of the probes.
LEMMA Started ==
    ASSUME NEW all \in Grids, \A p \in Ports : HasFree(p, all)
    PROVE  AllStarted(all) \in Grids /\ StartedHandles(all) \in [Ports -> 0..MaxProbes]
<1>1. ASSUME NEW p \in Ports
      PROVE  [all[p] EXCEPT ![FreeSlot(p, all)] = Begin("startup")] \in [Slots -> Probe]
  BY ProbeTyped DEF Grids
<1>2. ASSUME NEW p \in Ports PROVE FreeSlot(p, all) \in 0..MaxProbes
  BY FirstFree, WatchAssumption DEF Slots
<1> QED BY <1>1, <1>2 DEF AllStarted, StartedHandles, Grids

LEMMA Written ==
    ASSUME NEW all \in Grids, NEW p \in Ports, NEW s \in Slots, NEW probe \in Probe
    PROVE  /\ [all EXCEPT ![p][s] = probe] \in Grids
           /\ [all EXCEPT ![p][s] = probe][p][s] = probe
BY DEF Grids

LEMMA ProbesTyped ==
    ASSUME probes \in Grids, NEW p \in Ports, NEW s \in Slots
    PROVE  /\ Cleared(p, s) \in Grids /\ Cleared(p, s)[p][s] = Free
           /\ Answered(p, s) \in Grids
           /\ [probes EXCEPT ![p][s].check = CheckPort(p, probes[p][s].kind = "startup")] \in Grids
           /\ \A all \in Grids : Dropped(all) \in Grids
<1>1. probes[p][s] \in Probe
  BY DEF Grids
<1>2. Cleared(p, s) \in Grids /\ Cleared(p, s)[p][s] = Free
  BY ProbeTyped, Written DEF Cleared
<1>3. Answered(p, s) \in Grids
  <2> DEFINE probe == Kept([probes[p][s] EXCEPT !.check = "none"])
  <2>1. probe \in Probe
    BY <1>1, ProbeTyped
  <2>2. Answered(p, s) = [probes EXCEPT ![p][s] = probe]
    BY DEF Answered, Grids
  <2> HIDE DEF probe
  <2>3. [probes EXCEPT ![p][s] = probe] \in Grids
    BY <2>1, Written
  <2> QED BY <2>2, <2>3
<1>4. [probes EXCEPT ![p][s].check = CheckPort(p, probes[p][s].kind = "startup")] \in Grids
  <2> DEFINE check == CheckPort(p, probes[p][s].kind = "startup")
  <2>1. check \in {"ok", "bad", "restart", "null"}
    BY DEF CheckPort
  <2> HIDE DEF check
  <2>2. [probes[p][s] EXCEPT !.check = check] \in Probe
    BY <1>1, <2>1 DEF Probe
  <2>3. [probes EXCEPT ![p][s].check = check] = [probes EXCEPT ![p][s] = [probes[p][s] EXCEPT !.check = check]]
    BY DEF Grids
  <2>4. [probes EXCEPT ![p][s].check = check] \in Grids
    BY <2>2, <2>3, Written
  <2> QED BY <2>4 DEF check
<1>5. ASSUME NEW all \in Grids PROVE Dropped(all) \in Grids
  <2>1. \A x \in Ports, y \in Slots : all[x][y] \in Probe
    BY DEF Grids
  <2> QED BY <2>1, ProbeTyped DEF Dropped, Grids
<1> QED BY <1>2, <1>3, <1>4, <1>5

ManagerState == [exited : BOOLEAN, count : 0..Required, polling : BOOLEAN, restarting : BOOLEAN]
CheckState == [restarts : 0..MaxRestarts, inFlight : BOOLEAN, stopped : BOOLEAN]
Health == [Ports -> {"unset", "up", "down"}]
Statuses == [Ports -> {"OFFLINE", "UNKNOWN", "ONLINE"}]

\* The prober's variables and the statuses, which most steps leave alone.
Probes == hc \in CheckState /\ health \in Health /\ probes \in Grids /\ handle \in [Ports -> 0..MaxProbes]
              /\ restart \in {"none", "stopping", "starting"} /\ status \in Statuses
Others ==
    /\ setup \in Setups
    /\ box \in [state : {"up", "down", "restarting"}, serving : SUBSET Ports]
    /\ sm \in ManagerState
    /\ inspects \in [1..MaxInspects -> {"none", "up", "down", "restarting", "failed"}]
    /\ op \in {"on", "exiting", "over"} /\ aborted \in {"no", "stop", "timeout"}
    /\ left \in [faults : 0..MaxFaults, changes : 0..MaxChanges]

LEMMA TypeOKParts == TypeOK <=> Probes /\ Others
BY DEF TypeOK, Probes, Others, ManagerState, CheckState, Health, Statuses, Grids

LEMMA ReportedTyped ==
    ASSUME status \in Statuses, NEW p, NEW to \in {"OFFLINE", "ONLINE"}, Reported(p, to)
    PROVE  status' \in Statuses
BY DEF Reported, Statuses

LEMMA InitTyped == Init => TypeOK
<1> SUFFICES ASSUME Init PROVE TypeOK
  OBVIOUS
<1> DEFINE none == [p \in Ports |-> [s \in Slots |-> Free]]
<1>1. none \in Grids /\ \A p \in Ports : HasFree(p, none)
  BY ProbeTyped, WatchAssumption DEF Grids, HasFree, Slots
<1>2. probes = AllStarted(none)
  BY DEF Init
<1> HIDE DEF none
<1>3. probes \in Grids
  BY <1>1, <1>2, Started
<1>4. handle \in [Ports -> 0..MaxProbes]
  BY WatchAssumption DEF Init
<1>5. sm \in ManagerState
  BY DEF Init, ManagerState, Required, Polled, RestartsOnUnhealthy
<1>6. status \in Statuses /\ health \in Health /\ hc \in CheckState /\ left \in [faults : 0..MaxFaults, changes : 0..MaxChanges]
  BY WatchAssumption DEF Init, Statuses, Health, StatusAtFirst, CheckState
<1> QED BY <1>3, <1>4, <1>5, <1>6, TypeOKParts DEF Init, Probes, Others

\* What TooFewNext has left to say: the count of the polls is cut at what tells an exit.
LEMMA OthersNext ==
    ASSUME TypeOK, [Next]_vars, Typed'
    PROVE  Others'
<1>1. Others
  BY TypeOKParts
<1>2. setup' = setup /\ aborted' \in {"no", "stop", "timeout"}
  <2> USE DEF args
  <2>1. CASE Abort
    BY <1>1, <2>1 DEF Others, Abort
  <2>2. CASE UNCHANGED vars
    BY <1>1, <2>2 DEF Others, vars
  <2>3. ASSUME UNCHANGED args
        PROVE  setup' = setup /\ aborted' \in {"no", "stop", "timeout"}
    BY <1>1, <2>3 DEF Others
  <2>4. CASE Poll \/ WaitSettles \/ \E i \in 1..MaxInspects : InspectArrives(i)
    BY <2>3, <2>4 DEF Poll, WaitSettles, InspectArrives
  <2>5. CASE RestartStops \/ RestartReturns \/ RestartFails
    BY <2>3, <2>5 DEF RestartStops, RestartReturns, RestartFails
  <2>6. CASE \E p \in Ports, s \in Slots : ProbeTick(p, s) \/ CheckArrives(p, s)
    BY <2>3, <2>6 DEF ProbeTick, CheckArrives, StartupArrives, ContinuousArrives
  <2>7. CASE WaitForExit \/ CleanUp \/ Exits \/ PolicyRestarts \/ \E p \in Ports : ServiceChanges(p)
    BY <2>3, <2>7 DEF WaitForExit, CleanUp, Exits, PolicyRestarts, ServiceChanges
  <2> QED BY <2>1, <2>2, <2>4, <2>5, <2>6, <2>7 DEF Next
<1>3. sm'.count \in 0..Required
  <2>1. sm \in ManagerState /\ sm.count \in 0..Required /\ Required \in Nat
    BY <1>1 DEF Others, ManagerState, Required
  <2>2. CASE sm' = sm
    BY <2>1, <2>2
  <2>3. ASSUME NEW i \in 1..MaxInspects, InspectArrives(i)
        PROVE  sm'.count \in 0..Required
    <3>1. sm'.count \in {0, Required, sm.count + 1} /\ (sm'.count = sm.count + 1 => ~(sm.count + 1 > Required))
      BY <2>1, <2>3 DEF InspectArrives, ManagerState, Required
    <3> QED BY <2>1, <3>1 DEF Required
  <2>4. CASE Poll
    BY <2>1, <2>4 DEF Poll, ManagerState
  <2>5. CASE WaitSettles \/ CleanUp
    <3>1. sm' = [sm EXCEPT !.exited = TRUE] \/ sm' = [sm EXCEPT !.polling = FALSE]
      BY <2>5 DEF WaitSettles, CleanUp
    <3> QED BY <2>1, <3>1 DEF ManagerState
  <2>10. CASE RestartReturns \/ RestartFails
    <3>1. sm'.count = 0
      BY <2>1, <2>10 DEF RestartReturns, RestartFails, ManagerState
    <3> QED BY <2>1, <3>1
  <2>6. ASSUME NEW p \in Ports, NEW s \in Slots, ContinuousArrives(p, s)
        PROVE  sm'.count \in 0..Required
    BY <2>1, <2>6 DEF ContinuousArrives, RestartUnhealthy, ManagerState
  <2>7. ASSUME NEW p \in Ports, NEW s \in Slots, ProbeTick(p, s) \/ StartupArrives(p, s)
        PROVE  sm' = sm
    BY <2>7 DEF ProbeTick, StartupArrives, monitor
  <2>8. CASE UNCHANGED vars \/ RestartStops \/ WaitForExit \/ Abort \/ Exits \/ PolicyRestarts
    BY <2>1, <2>8 DEF vars, monitor, RestartStops, WaitForExit, Abort, Exits, PolicyRestarts
  <2>9. ASSUME NEW p \in Ports, ServiceChanges(p)
        PROVE  sm' = sm
    BY <2>9 DEF ServiceChanges, monitor
  <2> QED BY <2>2, <2>3, <2>4, <2>5, <2>6, <2>7, <2>8, <2>9, <2>10 DEF Next, CheckArrives
<1>4. sm' \in ManagerState
  <2>1. sm' \in [exited : BOOLEAN, count : Nat, polling : BOOLEAN, restarting : BOOLEAN]
    BY DEF Typed
  <2>2. ASSUME NEW r \in [exited : BOOLEAN, count : Nat, polling : BOOLEAN, restarting : BOOLEAN],
               r.count \in 0..Required
        PROVE  r \in ManagerState
    BY <2>2 DEF ManagerState
  <2> QED BY <1>3, <2>1, <2>2
<1>5. setup' \in Setups
  BY <1>1, <1>2 DEF Others
<1>6. /\ box' \in [state : {"up", "down", "restarting"}, serving : SUBSET Ports]
      /\ inspects' \in [1..MaxInspects -> {"none", "up", "down", "restarting", "failed"}]
      /\ op' \in {"on", "exiting", "over"}
      /\ left' \in [faults : 0..MaxFaults, changes : 0..MaxChanges]
  BY DEF Typed
<1> QED BY <1>2, <1>4, <1>5, <1>6 DEF Others

LEMMA ProbesNext ==
    ASSUME TypeOK, [Next]_vars
    PROVE  Probes'
<1>1. Probes /\ Others
  BY TypeOKParts
<1>2. CASE UNCHANGED vars \/ Poll \/ WaitSettles \/ WaitForExit \/ Abort \/ Exits \/ PolicyRestarts
  BY <1>1, <1>2 DEF Probes, vars, prober, Poll, WaitSettles, WaitForExit, Abort, Exits, PolicyRestarts
<1>3. ASSUME NEW i \in 1..MaxInspects, InspectArrives(i) PROVE Probes'
  BY <1>1, <1>3 DEF Probes, prober, InspectArrives
<1>4. ASSUME NEW p \in Ports, ServiceChanges(p) PROVE Probes'
  BY <1>1, <1>4 DEF Probes, prober, ServiceChanges
<1>5. CASE RestartStops
  BY <1>1, <1>5 DEF Probes, prober, RestartStops
<1>6. CASE RestartFails
  BY <1>1, <1>6 DEF Probes, RestartFails, CheckState
<1>7. CASE RestartReturns
  <2>1. hc' \in CheckState /\ restart' = "none" /\ health' = health /\ status' = status
    BY <1>1, <1>7 DEF RestartReturns, Probes, CheckState
  <2>2. probes' \in Grids /\ handle' \in [Ports -> 0..MaxProbes]
    <3>1. CASE hc.stopped
      BY <1>1, <1>7, <3>1 DEF RestartReturns, Probes
    <3>2. CASE ~hc.stopped
      <4>1. probes \in Grids /\ \A p \in Ports : HasFree(p, probes)
        BY <1>1, <1>7, <3>2 DEF RestartReturns, Probes
      <4>2. probes' = AllStarted(probes) /\ handle' = StartedHandles(probes)
        BY <1>7, <3>2 DEF RestartReturns
      <4> QED BY <4>1, <4>2, Started
    <3> QED BY <3>1, <3>2
  <2> QED BY <1>1, <2>1, <2>2 DEF Probes
<1>8. ASSUME NEW p \in Ports, NEW s \in Slots, ProbeTick(p, s) PROVE Probes'
  <2>1. probes' \in Grids
    BY <1>1, <1>8, ProbesTyped DEF ProbeTick, Probes
  <2> QED BY <1>1, <1>8, <2>1 DEF ProbeTick, Probes
<1>9. ASSUME NEW p \in Ports, NEW s \in Slots, StartupArrives(p, s) PROVE Probes'
  <2>1. hc' = hc /\ restart' = restart
    BY <1>9 DEF StartupArrives
  <2>2. Cleared(p, s) \in Grids /\ Cleared(p, s)[p][s] = Free /\ Answered(p, s) \in Grids
    BY <1>1, ProbesTyped DEF Probes
  <2>3. CASE probes[p][s].check = "ok"
    <3> DEFINE rest == Cleared(p, s)
    <3> DEFINE free == FreeSlot(p, rest)
    <3>1. /\ health' = [health EXCEPT ![p] = "up"] /\ Reported(p, "ONLINE")
          /\ probes' = [rest EXCEPT ![p][free] = Begin("continuous")]
          /\ handle' = [handle EXCEPT ![p] = free]
      BY <1>9, <2>3 DEF StartupArrives
    <3>2. HasFree(p, rest)
      BY <2>2 DEF HasFree
    <3>3. free \in Slots
      BY <3>2, FirstFree
    <3>4. rest \in Grids
      BY <2>2
    <3> HIDE DEF rest, free
    <3>5. probes' \in Grids
      BY <3>1, <3>3, <3>4, Written, ProbeTyped
    <3>6. handle' \in [Ports -> 0..MaxProbes]
      BY <1>1, <3>1, <3>3, WatchAssumption DEF Probes, Slots
    <3>7. health' \in Health /\ status' \in Statuses
      BY <1>1, <3>1, ReportedTyped DEF Probes, Health
    <3> QED BY <1>1, <2>1, <3>5, <3>6, <3>7 DEF Probes
  <2>4. CASE probes[p][s].check # "ok"
    <3>1. probes' \in {Cleared(p, s), Answered(p, s)} /\ UNCHANGED <<health, handle, status>>
      BY <1>9, <2>4 DEF StartupArrives
    <3> QED BY <1>1, <2>1, <2>2, <3>1 DEF Probes
  <2> QED BY <2>3, <2>4
<1>10. ASSUME NEW p \in Ports, NEW s \in Slots, ContinuousArrives(p, s) PROVE Probes'
  <2> DEFINE check == probes[p][s].check
  <2>1. status' \in Statuses
    BY <1>1, <1>10, ReportedTyped DEF ContinuousArrives, Probes
  <2>2. Cleared(p, s) \in Grids /\ Answered(p, s) \in Grids /\ Dropped(Answered(p, s)) \in Grids
    BY <1>1, ProbesTyped DEF Probes
  <2>3. CASE check = "restart" /\ MayRestart
    <3>1. RestartUnhealthy(Answered(p, s)) /\ hc.restarts < MaxRestarts
      BY <1>10, <2>3 DEF ContinuousArrives, MayRestart
    <3>2. hc' \in CheckState
      <4>1. hc.restarts \in 0..MaxRestarts /\ MaxRestarts \in Nat
        BY <1>1, WatchAssumption DEF Probes, CheckState
      <4>2. hc.restarts + 1 \in 0..MaxRestarts
        BY <3>1, <4>1
      <4> DEFINE called == aborted = "no" /\ ~sm.exited
      <4>3. called \in BOOLEAN
        OBVIOUS
      <4>4. hc' = [hc EXCEPT !.restarts = hc.restarts + 1, !.inFlight = called]
        BY <3>1 DEF RestartUnhealthy
      <4> HIDE DEF called
      <4> QED BY <1>1, <4>2, <4>3, <4>4 DEF Probes, CheckState
    <3>3. probes' \in Grids /\ health' \in Health
      BY <2>2, <3>1 DEF RestartUnhealthy, Health
    <3>4. handle' \in [Ports -> 0..MaxProbes] /\ restart' \in {"none", "stopping", "starting"}
      BY <1>1, <3>1, WatchAssumption DEF RestartUnhealthy, Probes
    <3> QED BY <2>1, <3>2, <3>3, <3>4 DEF Probes
  <2>4. CASE ~(check = "restart" /\ MayRestart)
    <3>1. /\ probes' \in {Cleared(p, s), Answered(p, s)} /\ UNCHANGED <<hc, handle, restart>>
          /\ health' = health \/ \E to \in {"up", "down", health[p]} : health' = [health EXCEPT ![p] = to]
      BY <1>10, <2>4 DEF ContinuousArrives
    <3>2. health' \in Health
      BY <1>1, <3>1 DEF Probes, Health
    <3> QED BY <1>1, <2>1, <2>2, <3>1, <3>2 DEF Probes
  <2> QED BY <2>3, <2>4
<1>11. CASE CleanUp
  <2>1. hc' \in CheckState /\ health' \in Health /\ status' \in Statuses /\ restart' = restart
    BY <1>1, <1>11 DEF CleanUp, Probes, CheckState, Health, Statuses
  <2>2. probes' \in Grids /\ handle' \in [Ports -> 0..MaxProbes]
    <3>1. \A x \in Ports, y \in Slots : probes[x][y] \in Probe
      BY <1>1 DEF Probes, Grids
    <3>2. Dropped(probes) \in Grids
      BY <3>1, ProbeTyped DEF Dropped, Grids
    <3>3. handle' \in [Ports -> 0..MaxProbes]
      BY <1>11, WatchAssumption DEF CleanUp
    <3> QED BY <1>11, <3>2, <3>3 DEF CleanUp
  <2> QED BY <1>1, <2>1, <2>2 DEF Probes
<1> QED BY <1>2, <1>3, <1>4, <1>5, <1>6, <1>7, <1>8, <1>9, <1>10, <1>11 DEF Next, CheckArrives

\* The restarts keep to max_restarts, every probe is in a slot of its port and every handle leads to one or
\* to none, however the checks, the restarts in place and the end of the run come together.
THEOREM WatchTypeCorrect == Spec => []TypeOK
<1>1. Init => Typed /\ TooFew /\ TypeOK
  BY InitTooFew, InitTyped
<1>2. (Typed /\ TooFew /\ TypeOK) /\ [Next]_vars => (Typed /\ TooFew /\ TypeOK)'
  <2> SUFFICES ASSUME Typed, TooFew, TypeOK, [Next]_vars PROVE Typed' /\ TooFew' /\ TypeOK'
    OBVIOUS
  <2>1. Typed' /\ TooFew'
    BY TooFewNext
  <2>2. Others' /\ Probes'
    BY <2>1, OthersNext, ProbesNext
  <2>3. TypeOK'
    BY <2>2 DEF TypeOK, Probes, Others, ManagerState, CheckState, Health, Statuses, Grids
  <2> QED BY <2>1, <2>3
<1> QED BY <1>1, <1>2, PTL DEF Spec
=============================================================================
