------------------------------- MODULE WebApp -------------------------------
(***************************************************************************)
(* The web app (App.tsx): the user goes from page to page while the        *)
(* requests of the pages left behind are still answered.  Composed of the  *)
(* pages that ask the firmware for a series of things on their own: Power, *)
(* Devices with the page of an open window, and what keeps Topology live.  *)
(***************************************************************************)
EXTENDS Integers, Sequences, FiniteSets

CONSTANTS
    Wiring, Dates, Today, Recorded(_, _), DayEnd(_), Energy,
    GridStreams, SolarStreams, LoadStreams, MaxSelects, MaxPowerFaults,
    Names, Paired, Impatient, MaxDeviceActs, MaxDeviceFaults,
    BaseRetry, MaxRetry, Visits, SlotsPerDay, MaxClock, MaxDrops, MaxLoads,
    MaxGotos,           \* bound: links the user follows
    MaxEvents           \* bound on all that is bounded by the Max of a page, together

ASSUME VisitsAssumption == Visits \subseteq Nat \ {0}
ASSUME SlotsAssumption == SlotsPerDay \in Nat \ {0}
ASSUME RetryAssumption == BaseRetry \in Nat /\ MaxRetry \in Nat /\ BaseRetry <= MaxRetry

VARIABLES
    route, gotos,       \* the page, and the links followed so far
    view, visit, date, charts, usage, queue, sent, selects, powerFaults,
    stored, listed, shown, dvisit, editing, draft, opening, calls, code, acts, deviceFaults,
    here, lvisit, sockets, timers, attempt, retry, failed, drops,
    clock, slot, day, loads, lastLoad, priceFailed, loadCount

P == INSTANCE PowerPage
D == INSTANCE DevicesPage
L == INSTANCE LiveConnection

(* connectedNodes returns an array of the nodes it found.                  *)
ASSUME WiringAssumption == P!InOrder \in Seq(P!Connected)
ASSUME DatesAssumption == Today \in Dates
ASSUME RecordedAssumption ==
    \A n \in P!Connected : \A d \in Dates :
        /\ Recorded(n, d) \in Seq(Nat) /\ DayEnd(d) \in Nat
        /\ \A i, j \in DOMAIN Recorded(n, d) : i <= j => Recorded(n, d)[i] <= Recorded(n, d)[j]
ASSUME EnergyAssumption ==
    /\ IsFiniteSet(GridStreams) /\ IsFiniteSet(SolarStreams) /\ IsFiniteSet(LoadStreams)
    /\ \A d \in Energy : \A s \in DOMAIN d : d[s] \in Int

power == <<view, visit, date, charts, usage, queue, sent, selects, powerFaults>>
devices == <<stored, listed, shown, dvisit, editing, draft, opening, calls, code, acts, deviceFaults>>
live == <<here, lvisit, sockets, timers, attempt, retry, failed, drops,
          clock, slot, day, loads, lastLoad, priceFailed, loadCount>>
vars == <<route, gotos, power, devices, live>>

(* "other" is where the app starts; the pages not modelled here leave the  *)
(* others alone, so that no link to them adds anything.                    *)
Routes == {"power", "devices", "window", "topology", "other"}

TypeOK == route \in Routes /\ gotos \in 0..MaxGotos /\ P!TypeOK /\ D!TypeOK /\ L!TypeOK

Init == route = "other" /\ gotos = 0 /\ P!Init /\ D!Init /\ L!Init

-----------------------------------------------------------------------------
(* What a change of page to `to` does to each page: it is mounted, it is   *)
(* unmounted, or it was not there and is not.                              *)
PowerFollows(to) ==
    \/ route # "power" /\ to = "power" /\ P!Mount
    \/ route = "power" /\ to # "power" /\ P!Unmount
    \/ (route = "power") = (to = "power") /\ UNCHANGED power
TopologyFollows(to) ==
    \/ route # "topology" /\ to = "topology" /\ L!Mount
    \/ route = "topology" /\ to # "topology" /\ L!Unmount
    \/ (route = "topology") = (to = "topology") /\ UNCHANGED live

Goto(to) ==
    /\ to # route /\ gotos < MaxGotos /\ gotos' = gotos + 1 /\ route' = to
    /\ PowerFollows(to) /\ TopologyFollows(to)
    /\ \/ to = "devices" /\ D!Mount
       \/ route = "devices" /\ D!Unmount /\ UNCHANGED <<stored, calls, code, deviceFaults>>
       \/ "devices" \notin {route, to} /\ UNCHANGED devices

(* A window that opened takes the user to its code, from any page.         *)
ShowCode ==
    /\ D!WindowOpened /\ route' = "window" /\ UNCHANGED gotos
    /\ PowerFollows("window") /\ TopologyFollows("window")
    /\ IF route = "devices" THEN D!Unmount
       ELSE UNCHANGED <<listed, shown, dvisit, editing, draft, opening, acts>>

PowerStep == P!Step /\ UNCHANGED <<route, gotos, devices, live>>
DevicesStep == D!Step /\ UNCHANGED <<route, gotos, power, live>>
TopologyStep == L!Step /\ UNCHANGED <<route, gotos, power, devices>>

Budget == selects + powerFaults + acts + deviceFaults + drops + loadCount + (clock - (SlotsPerDay - 1)) <= MaxEvents
Next ==
    /\ \/ \E to \in {"power", "devices", "topology"} : Goto(to)
       \/ ShowCode \/ PowerStep \/ DevicesStep \/ TopologyStep
    /\ Budget'

(* The firmware answers or the request fails, the queue goes on when it    *)
(* does, and a connection that is tried is made or fails.                  *)
Fairness ==
    /\ WF_vars(P!Send /\ UNCHANGED <<route, gotos, devices, live>>)
    /\ WF_vars(P!Skip /\ UNCHANGED <<route, gotos, devices, live>>)
    /\ WF_vars((\E ok \in BOOLEAN : P!Answer(ok)) /\ UNCHANGED <<route, gotos, devices, live>>)
    /\ WF_vars((\E s \in sockets : L!Opens(s) \/ L!Drop(s)) /\ UNCHANGED <<route, gotos, power, devices>>)
    /\ WF_vars((\E t \in timers : L!Retry(t)) /\ UNCHANGED <<route, gotos, power, devices>>)

Spec == Init /\ [][Next]_vars /\ Fairness

-----------------------------------------------------------------------------
(* Properties; each is explained in the module of its page.                *)

(* Power.tsx: a drawn chart is of the day that is selected.                *)
ChartsShowTheDay == P!ChartsShowTheDay
(* Power.tsx: the parts of a drawn day without data are flagged.           *)
GapsAreFlagged == P!GapsAreFlagged
(* Power.tsx: the parts of a day's usage add up to it.                     *)
UsageAddsUp == P!UsageAddsUp
(* fetchQueue.ts: every chart of the page is answered or given up.         *)
ChartsSettle == P!ChartsSettle
(* Devices.tsx: with nothing under way the list is what is stored.         *)
ListIsStored == D!ListIsStored
(* Devices.tsx: a visit opens one commissioning window at a time.          *)
OneWindowAtATime == D!OneWindowAtATime
(* Devices.tsx: a rename that is answered leaves other edits alone.        *)
DraftKept == D!DraftKept
(* useWebSocket.ts: a visit has one socket or one timer.                   *)
OneConnection == L!OneConnection
(* useWebSocket.ts: the delay doubles with every retry that failed.        *)
BacksOff == L!BacksOff
(* useWebSocket.ts: the page gets connected again.                         *)
Reconnects == L!Reconnects
(* useWebSocket.ts: a page that was left keeps no connection.              *)
NothingLeftBehind == L!NothingLeftBehind
(* tariff.ts: the price is of the slot and day it was last read for.       *)
PriceIsOfLastLoad == L!PriceIsOfLastLoad

=============================================================================
