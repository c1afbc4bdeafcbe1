------------------------- MODULE DeviceStore_proofs -------------------------
(***************************************************************************)
(* What holds of DeviceStore for any devices, endpoints and bounds.        *)
(***************************************************************************)
EXTENDS DeviceStore, TLAPS

USE StoreAssumption

Alone == \A t, u \in Tasks : OnTheWay(t) /\ OnTheWay(u) => t = u

(* What the list has that the file has not will get there: somebody is     *)
(* about to take a snapshot, or the last one taken is of the list as it is. *)
Current ==
    /\ \A t \in Tasks : OnTheWay(t) => persist[t].text = list
    /\ (\A t \in Tasks : ~OnTheWay(t)) => Loaded(file) = list
Underway ==
    \/ reads # {}
    \/ http.at \in {"add", "send"}
    \/ \E t \in Tasks : At(t, "snapshot")
    \/ Current

Written(t) == At(t, "rename") => tmp = Text(persist[t].text)

SaveInv ==
    /\ persist["http"].at # "idle" => http.at = "save"
    /\ ~overlapped => Alone
    /\ ~overlapped /\ faults = 0 =>
         /\ Underway
         /\ \A t \in Tasks : Written(t)

WholeInv ==
    /\ faults = 0 /\ tmp.kind = "empty" =>
         (\E u \in Tasks : Opened(u)) \/ \A t \in Tasks : ~At(t, "rename")
    /\ ~overlapped => \A t \in Tasks : At(t, "rename") => tmp.kind # "empty"
    /\ StoredIsWhole

(* An interrogation has every detail that is missing still to report, or   *)
(* will be sent.                                                           *)
Described(n, e) == e \in list[n].known /\ e \in list[n].detailed
Announced(n) ==
    \/ http.at \in {"add", "send"} /\ http.node = n
    \/ \E r \in reads :
          /\ r.node = n
          /\ \A e \in Endpoints : Described(n, e) \/ [attr |-> "details", ep |-> e] \in r.left
    \/ \A e \in Endpoints : Described(n, e)
DetailInv == restarts = 0 /\ faults = 0 => \A n \in Nodes : list[n].here => Announced(n)

-----------------------------------------------------------------------------
LEMMA EntryTypes ==
    /\ Absent \in Entries
    /\ NewDevice \in Entries
    /\ NoDevices \in Lists
    /\ Idle \in [at : Places, text : Lists]
    /\ NoFile \in Contents /\ EmptyFile \in Contents
    /\ \A l \in Lists : Text(l) \in Contents
    /\ \A f \in Contents : Loaded(f) \in Lists
    /\ \A d \in Entries, r \in Reports : Reported(d, r) \in Entries
<1> USE DEF Absent, Entries
<1>1. Absent \in Entries OBVIOUS
<1>2. NewDevice \in Entries BY DEF NewDevice
<1>3. NoDevices \in Lists BY <1>1 DEF NoDevices, Lists
<1>4. Idle \in [at : Places, text : Lists] BY <1>3 DEF Idle, Places
<1>5. NoFile \in Contents /\ EmptyFile \in Contents BY <1>3 DEF NoFile, EmptyFile, Contents
<1>6. \A l \in Lists : Text(l) \in Contents BY DEF Text, Contents
<1>7. \A f \in Contents : Loaded(f) \in Lists BY DEF Loaded, Contents
<1>8. ASSUME NEW d \in Entries, NEW r \in Reports PROVE Reported(d, r) \in Entries
  <2>1. r.ep \in Endpoints BY DEF Reports
  <2> QED BY <2>1 DEF Reported
<1> QED BY <1>1, <1>2, <1>3, <1>4, <1>5, <1>6, <1>7, <1>8

LEMMA TypeInit == Init => TypeOK
<1> SUFFICES ASSUME Init PROVE TypeOK
  OBVIOUS
<1>1. persist \in [Tasks -> [at : Places, text : Lists]] BY EntryTypes DEF Init
<1>2. http \in Handlers BY DEF Init, Handlers
<1>3. list \in Lists /\ file \in Contents /\ tmp \in Contents BY EntryTypes DEF Init
<1> QED BY <1>1, <1>2, <1>3 DEF Init, TypeOK

(* The parts of device_manager_persist that keep types. *)
LEMMA ReturnType ==
    ASSUME TypeOK, NEW t \in Tasks, Return(t)
    PROVE  /\ persist' \in [Tasks -> [at : Places, text : Lists]]
           /\ http' \in Handlers
<1> USE DEF Handlers
<1>1. [at |-> "idle", node |-> 0] \in Handlers OBVIOUS
<1>2. http \in Handlers BY DEF TypeOK
<1>3. http' \in Handlers BY <1>1, <1>2 DEF Return
<1> QED BY <1>3, EntryTypes DEF TypeOK, Return

LEMMA SavingType == ASSUME TypeOK, NEW t \in Tasks, Saving(t) PROVE TypeOK'
<1> USE DEF TypeOK, bounds, Places, Tasks
<1>1. CASE Snapshot(t)
  <2>1. persist' \in [Tasks -> [at : Places, text : Lists]] BY <1>1 DEF Snapshot
  <2>2. overlapped' \in BOOLEAN BY <1>1 DEF Snapshot
  <2> QED BY <1>1, <2>1, <2>2 DEF Snapshot
<1>2. CASE Open(t) BY <1>2, ReturnType, EntryTypes DEF Open, GoTo, Fault
<1>3. CASE Write(t) BY <1>3, ReturnType DEF Write, GoTo, Fault
<1>4. CASE Commit(t) BY <1>4, EntryTypes DEF Commit, GoTo, Fault
<1>5. CASE Rename(t) BY <1>5, ReturnType, EntryTypes DEF Rename, Fault
<1> QED BY <1>1, <1>2, <1>3, <1>4, <1>5 DEF Saving

LEMMA SaveForType ==
    ASSUME TypeOK, NEW n \in Nodes \cup {0}, SaveFor(n)
    PROVE  /\ persist' \in [Tasks -> [at : Places, text : Lists]]
           /\ http' \in Handlers
  BY DEF TypeOK, SaveFor, Persist, Places, Tasks, Handlers

LEMMA ListUpdate ==
    ASSUME list \in Lists, NEW n \in Nodes, NEW d \in Entries,
           list' = [list EXCEPT ![n] = d]
    PROVE  list' \in Lists /\ list'[n] = d /\ \A m \in Nodes \ {n} : list'[m] = list[m]
  BY DEF Lists

LEMMA HandleType == ASSUME TypeOK, NEW n \in Nodes, Handle(n) PROVE TypeOK'
<1> USE DEF TypeOK, Request, Handlers
<1>0. list[n] \in Entries BY DEF Lists
<1>1. CASE SetDeviceName(n)
  <2>1. [list[n] EXCEPT !.name = requests + 1] \in Entries BY <1>0 DEF Entries
  <2>2. list' \in Lists BY <1>1, <2>1, ListUpdate DEF SetDeviceName
  <2> QED BY <1>1, <2>2, SaveForType DEF SetDeviceName
<1>2. ASSUME NEW e \in Endpoints, NEW b \in BOOLEAN, SetEndpointIncluded(n, e, b) PROVE TypeOK'
  <2> DEFINE I == IF b THEN list[n].included \cup {e} ELSE list[n].included \ {e}
  <2>1. [list[n] EXCEPT !.included = I] \in Entries BY <1>0 DEF Entries
  <2>2. list' \in Lists BY <1>2, <2>1, ListUpdate DEF SetEndpointIncluded
  <2> QED BY <1>2, <2>2, SaveForType DEF SetEndpointIncluded
<1>3. CASE RemoveDevice(n)
  <2>1. list' \in Lists BY <1>3, EntryTypes, ListUpdate DEF RemoveDevice
  <2> QED BY <1>3, <2>1, SaveForType DEF RemoveDevice
<1>4. CASE Commission(n) BY <1>4 DEF Commission
<1>5. CASE ClearDeviceEndpoints(n)
  <2> DEFINE d == [list[n] EXCEPT !.known = {}, !.detailed = {}, !.included = {}]
  <2>1. d \in Entries BY <1>0 DEF Entries
  <2>2. list' \in Lists BY <1>5, <2>1, ListUpdate DEF ClearDeviceEndpoints
  <2> QED BY <1>5, <2>2 DEF ClearDeviceEndpoints
<1> QED BY <1>1, <1>2, <1>3, <1>4, <1>5 DEF Handle

LEMMA InterrogationType == ASSUME TypeOK, NEW r \in reads, Interrogation(r) PROVE TypeOK'
<1> USE DEF TypeOK, bounds
<1>0. r \in [of : Nat, node : Nodes, left : SUBSET Reports] OBVIOUS
<1>1. ASSUME NEW p \in r.left, Report(r, p) PROVE TypeOK'
  <2>1. list[r.node] \in Entries /\ p \in Reports BY <1>0 DEF Lists
  <2>2. list' \in Lists BY <1>0, <1>1, <2>1, EntryTypes, ListUpdate DEF Report
  <2>3. [r EXCEPT !.left = @ \ {p}] \in [of : Nat, node : Nodes, left : SUBSET Reports] BY <1>0
  <2> QED BY <1>1, <2>2, <2>3 DEF Report
<1>2. CASE InterrogationDone(r) BY <1>2 DEF InterrogationDone, Persist, Fault, Places, Tasks
<1>3. CASE ReadLost(r) BY <1>3 DEF ReadLost, Fault
<1> QED BY <1>1, <1>2, <1>3 DEF Interrogation

LEMMA TypeStep == TypeOK /\ [Next]_vars => TypeOK'
<1> SUFFICES ASSUME TypeOK, [Next]_vars PROVE TypeOK'
  OBVIOUS
<1> USE DEF TypeOK, bounds, Handlers
<1>1. CASE FactoryReset BY <1>1, EntryTypes, SaveForType DEF FactoryReset, Request
<1>2. CASE AddDevice
  <2>1. http.node \in Nodes BY <1>2 DEF AddDevice
  <2>2. list[http.node] \in Entries BY <2>1 DEF Lists
  <2>3. list' \in Lists BY <1>2, <2>1, <2>2, EntryTypes, ListUpdate DEF AddDevice
  <2> QED BY <1>2, <2>3 DEF AddDevice
<1>3. CASE SendRead
  <2> QED BY <1>3 DEF SendRead, Fault
<1>4. CASE Restart BY <1>4, EntryTypes DEF Restart
<1>5. CASE UNCHANGED vars BY <1>5 DEF vars
<1> QED BY <1>1, <1>2, <1>3, <1>4, <1>5, SavingType, HandleType, InterrogationType DEF Next

-----------------------------------------------------------------------------
(* Saving. *)
LEMMA SaveInit == Init => SaveInv
  BY DEF Init, SaveInv, Alone, Underway, Current, Written, OnTheWay, At, Idle, Tasks, Loaded, NoFile

LEMMA SnapshotSaves == ASSUME TypeOK, SaveInv, NEW t \in Tasks, Snapshot(t) PROVE SaveInv'
<1> USE DEF Snapshot, At, OnTheWay, Tasks
<1>1. persist'[t] = [at |-> "open", text |-> list] /\ \A u \in Tasks \ {t} : persist'[u] = persist[u]
  BY DEF TypeOK
<1>2. persist'["http"].at # "idle" => http'.at = "save" BY <1>1 DEF SaveInv
<1>3. ~overlapped' => Alone' BY <1>1 DEF SaveInv, Alone
<1>4. ASSUME ~overlapped' PROVE Underway'
  <2>1. \A u \in Tasks \ {t} : ~OnTheWay(u)' BY <1>1, <1>4
  <2> QED BY <1>1, <2>1 DEF Underway, Current
<1>5. ASSUME ~overlapped', faults' = 0 PROVE \A u \in Tasks : Written(u)'
  <2>1. \A u \in Tasks \ {t} : persist'[u].at # "rename" BY <1>1, <1>5
  <2>2. persist'[t].at # "rename" BY <1>1
  <2> QED BY <2>1, <2>2 DEF Written
<1> QED BY <1>2, <1>3, <1>4, <1>5 DEF SaveInv

(* A call that fails gives nothing to prove but who is where. *)
LEMMA FaultSaves ==
    ASSUME TypeOK, SaveInv, NEW t \in Tasks, Return(t), faults' # 0, UNCHANGED overlapped
    PROVE  SaveInv'
<1>1. persist'[t] = Idle /\ \A u \in Tasks \ {t} : persist'[u] = persist[u]
  BY DEF TypeOK, Return
<1>2. persist'["http"].at # "idle" => http'.at = "save"
  BY <1>1 DEF SaveInv, Return, Idle, Tasks
<1>3. ~overlapped' => Alone' BY <1>1 DEF SaveInv, Alone, OnTheWay, Idle
<1> QED BY <1>2, <1>3 DEF SaveInv

LEMMA Faulty == ASSUME TypeOK, NEW k, Fault(k) PROVE faults' # 0
  BY DEF TypeOK, Fault

LEMMA WritingSaves ==
    ASSUME TypeOK, SaveInv, NEW t \in Tasks, Open(t) \/ Write(t) \/ Commit(t)
    PROVE  SaveInv'
<1>0. UNCHANGED overlapped BY DEF Open, Write, Commit
<1>1. CASE Return(t) /\ faults' # 0 BY <1>0, <1>1, FaultSaves
<1>2. CASE \E p \in {"write", "commit", "rename"} :
             GoTo(t, p) /\ UNCHANGED http /\ (p = "rename" => Commit(t))
  <2>1. PICK p \in {"write", "commit", "rename"} :
          GoTo(t, p) /\ UNCHANGED http /\ (p = "rename" => Commit(t))
    BY <1>2
  <2>2. persist'[t].at = p /\ persist'[t].text = persist[t].text
        /\ \A u \in Tasks \ {t} : persist'[u] = persist[u]
    BY <2>1 DEF TypeOK, GoTo
  <2>3. OnTheWay(t) /\ persist[t].at # "rename" /\ persist[t].at # "snapshot"
    BY DEF Open, Write, Commit, At, OnTheWay
  <2>4. UNCHANGED <<list, http, reads, file, overlapped>>
    BY <2>1 DEF Open, Write, Commit
  <2>5. persist'["http"].at # "idle" => http'.at = "save"
    BY <2>2, <2>3, <2>4 DEF SaveInv, OnTheWay, Tasks
  <2>6. \A u \in Tasks : OnTheWay(u)' <=> OnTheWay(u) BY <2>2, <2>3 DEF OnTheWay
  <2>7. ~overlapped' => Alone' BY <2>4, <2>6 DEF SaveInv, Alone
  <2>8. ASSUME ~overlapped', faults' = 0 PROVE Underway' /\ \A u \in Tasks : Written(u)'
    <3>1. faults = 0 BY <2>8, Faulty DEF Open, Write, Commit
    <3>2. Underway' BY <2>2, <2>3, <2>4, <2>6, <2>8, <3>1 DEF SaveInv, Underway, Current, At
    <3>3. \A u \in Tasks \ {t} : persist[u].at # "rename"
      BY <2>3, <2>4, <2>8 DEF SaveInv, Alone, OnTheWay
    <3>4. p = "rename" => tmp' = Text(persist[t].text)
      BY <2>1, <2>8, Faulty DEF Commit
    <3>6. \A u \in Tasks : Written(u)' BY <2>2, <3>3, <3>4 DEF Written, At
    <3> QED BY <3>2, <3>6
  <2> QED BY <2>5, <2>7, <2>8 DEF SaveInv
<1>3. CASE Open(t) BY <1>1, <1>2, <1>3, Faulty DEF Open
<1>4. CASE Write(t) BY <1>1, <1>2, <1>4, Faulty DEF Write
<1>5. CASE Commit(t) BY <1>2, <1>5 DEF Commit
<1> QED BY <1>3, <1>4, <1>5

LEMMA RenameSaves == ASSUME TypeOK, SaveInv, NEW t \in Tasks, Rename(t) PROVE SaveInv'
<1>1. Return(t) /\ UNCHANGED overlapped BY DEF Rename
<1>2. CASE faults' # 0 BY <1>1, <1>2, FaultSaves
<1>3. CASE faults' = 0
  <2>1. persist'[t] = Idle /\ \A u \in Tasks \ {t} : persist'[u] = persist[u]
    BY <1>1 DEF TypeOK, Return
  <2>2. persist'["http"].at # "idle" => http'.at = "save"
    BY <2>1, <1>1 DEF SaveInv, Return, Idle, Tasks
  <2>3. ~overlapped' => Alone' BY <1>1, <2>1 DEF SaveInv, Alone, OnTheWay, Idle
  <2>4. ASSUME ~overlapped' PROVE Underway' /\ \A u \in Tasks : Written(u)'
    <3>1. faults = 0 /\ ~overlapped BY <1>3, <2>4, Faulty DEF Rename
    <3>2. \A u \in Tasks \ {t} : ~OnTheWay(u)
      BY <3>1 DEF SaveInv, Alone, Rename, OnTheWay, At
    <3>3. tmp = Text(persist[t].text) BY <3>1 DEF SaveInv, Written, Rename
    <3>4. \A u \in Tasks : ~Opened(u) BY <3>2 DEF Opened, OnTheWay, Rename, At
    <3>5. file' = tmp BY <1>3, <3>3, <3>4, Faulty DEF Rename, Text
    <3>6. UNCHANGED <<list, reads>> BY DEF Rename
    <3>7. Loaded(file') = persist[t].text BY <3>3, <3>5 DEF Loaded, Text
    <3>8. Underway'
      <4>1. Underway BY <3>1 DEF SaveInv
      <4>2. ASSUME NEW u \in Tasks, At(u, "snapshot") PROVE Underway'
        <5>1. u # t BY <4>2 DEF Rename, At
        <5> QED BY <4>2, <5>1, <2>1 DEF Underway, At
      <4>3. CASE reads # {} BY <4>3, <3>6 DEF Underway
      <4>4. CASE http.at \in {"add", "send"}
        <5>1. t # "http" BY <4>4 DEF SaveInv, Rename, At
        <5> QED BY <4>4, <5>1, <1>1 DEF Underway, Return
      <4>5. CASE Current
        <5>1. persist[t].text = list BY <4>5 DEF Current, Rename, At, OnTheWay
        <5>2. \A u \in Tasks : ~OnTheWay(u)' BY <2>1, <3>2 DEF OnTheWay, Idle
        <5> QED BY <5>1, <5>2, <3>6, <3>7 DEF Underway, Current
      <4> QED BY <4>1, <4>2, <4>3, <4>4, <4>5 DEF Underway
    <3>9. \A u \in Tasks : Written(u)'
      BY <2>1, <3>2 DEF Written, At, OnTheWay, Idle
    <3> QED BY <3>8, <3>9
  <2> QED BY <2>2, <2>3, <2>4 DEF SaveInv
<1> QED BY <1>2, <1>3

LEMMA SaveForSaves ==
    ASSUME TypeOK, SaveInv, Request, NEW n, SaveFor(n) PROVE SaveInv'
<1>1. /\ persist["http"].at = "idle" /\ At("http", "snapshot")'
      /\ \A u \in Tasks \ {"http"} : persist'[u] = persist[u]
      /\ \A u \in Tasks : OnTheWay(u)' => OnTheWay(u)
      /\ http'.at = "save"
  BY DEF TypeOK, SaveInv, Request, SaveFor, Persist, At, OnTheWay, Tasks
<1>2. Underway' BY <1>1 DEF Underway, Tasks
<1>3. UNCHANGED <<tmp, overlapped, faults>> BY DEF Request
<1>4. ~overlapped' => Alone' BY <1>1, <1>3 DEF SaveInv, Alone
<1>5. ASSUME ~overlapped', faults' = 0 PROVE \A u \in Tasks : Written(u)'
  BY <1>1, <1>3, <1>5 DEF SaveInv, Written, At
<1> QED BY <1>1, <1>2, <1>4, <1>5 DEF SaveInv

LEMMA ChangeSaves ==
    ASSUME SaveInv, UNCHANGED <<persist, tmp, overlapped, faults>>, Underway',
           http.at # "save" \/ UNCHANGED http
    PROVE  SaveInv'
  BY DEF SaveInv, Alone, Written, OnTheWay, At

LEMMA SaveStep == TypeOK /\ SaveInv /\ [Next]_vars => SaveInv'
<1> SUFFICES ASSUME TypeOK, SaveInv, [Next]_vars PROVE SaveInv'
  OBVIOUS
<1>1. ASSUME NEW t \in Tasks, Saving(t) PROVE SaveInv'
  BY <1>1, SnapshotSaves, WritingSaves, RenameSaves DEF Saving
<1>2. ASSUME NEW n \in Nodes, Handle(n) PROVE SaveInv'
  <2>1. CASE Commission(n) \/ ClearDeviceEndpoints(n)
    <3>1. http'.at = "add" /\ http.at # "save" /\ UNCHANGED <<persist, tmp, overlapped, faults>>
      BY <2>1 DEF Commission, ClearDeviceEndpoints, Request
    <3> QED BY <3>1, ChangeSaves DEF Underway
  <2> QED BY <1>2, <2>1, SaveForSaves
        DEF Handle, SetDeviceName, SetEndpointIncluded, RemoveDevice
<1>3. CASE FactoryReset BY <1>3, SaveForSaves DEF FactoryReset
<1>4. CASE AddDevice
  <2>1. http'.at = "send" BY <1>4 DEF AddDevice, TypeOK, Handlers
  <2> QED BY <1>4, <2>1, ChangeSaves DEF AddDevice, Underway, bounds
<1>5. CASE SendRead
  <2>1. CASE reads' # {} /\ UNCHANGED faults BY <1>5, <2>1, ChangeSaves DEF SendRead, Underway
  <2>2. CASE faults' # 0
    BY <1>5, <2>2 DEF SendRead, SaveInv, Alone, OnTheWay
  <2> QED BY <1>5, <2>1, <2>2, Faulty DEF SendRead
<1>6. ASSUME NEW r \in reads, Interrogation(r) PROVE SaveInv'
  <2>1. ASSUME NEW p \in r.left, Report(r, p) PROVE SaveInv'
    <3>1. reads' # {} BY <2>1 DEF Report
    <3> QED BY <2>1, <3>1, ChangeSaves DEF Report, Underway, bounds
  <2>2. CASE InterrogationDone(r)
    <3>1. /\ At("chip", "snapshot")'
          /\ persist'["http"] = persist["http"]
          /\ \A u \in Tasks : OnTheWay(u)' => OnTheWay(u)
          /\ \A u \in Tasks : At(u, "rename")' => At(u, "rename") /\ persist'[u] = persist[u]
      BY <2>2 DEF InterrogationDone, TypeOK, Persist, At, OnTheWay, Tasks
    <3>2. Underway' BY <3>1 DEF Underway, Tasks
    <3>3. UNCHANGED <<http, tmp, overlapped>> BY <2>2 DEF InterrogationDone
    <3>4. faults' = 0 => faults = 0 BY <2>2, Faulty DEF InterrogationDone
    <3> QED BY <3>1, <3>2, <3>3, <3>4 DEF SaveInv, Alone, Written
  <2>3. CASE ReadLost(r)
    <3>1. faults' # 0 BY <2>3, Faulty DEF ReadLost
    <3> QED BY <2>3, <3>1 DEF ReadLost, SaveInv, Alone, OnTheWay
  <2> QED BY <1>6, <2>1, <2>2, <2>3 DEF Interrogation
<1>7. CASE Restart
  <2>1. \A t \in Tasks : persist'[t] = Idle BY <1>7 DEF Restart
  <2>2. Loaded(file') = list' BY <1>7 DEF Restart
  <2> QED BY <2>1, <2>2 DEF SaveInv, Alone, Underway, Current, Written, OnTheWay, At, Idle, Tasks
<1>8. CASE UNCHANGED vars
  BY <1>8 DEF vars, bounds, SaveInv, Alone, Underway, Current, Written, OnTheWay, At
<1> QED BY <1>1, <1>2, <1>3, <1>4, <1>5, <1>6, <1>7, <1>8 DEF Next

-----------------------------------------------------------------------------
(* Whole files. *)
LEMMA WholeSaving ==
    ASSUME TypeOK, SaveInv, WholeInv, "flush" \notin Faults, NEW t \in Tasks, Saving(t)
    PROVE  WholeInv'
<1> USE DEF WholeInv, StoredIsWhole
<1>0. t \in Tasks /\ persist \in [Tasks -> [at : Places, text : Lists]] BY DEF TypeOK
<1>1. CASE Snapshot(t)
  <2>1. \A u \in Tasks : Opened(u) => Opened(u)' BY <1>0, <1>1 DEF Snapshot, Opened, At
  <2>2. \A u \in Tasks : At(u, "rename")' => At(u, "rename") BY <1>0, <1>1 DEF Snapshot, At
  <2>3. UNCHANGED <<tmp, file, faults>> BY <1>1 DEF Snapshot, bounds
  <2>4. overlapped => overlapped' BY <1>1 DEF Snapshot
  <2> QED BY <2>1, <2>2, <2>3, <2>4
<1>2. CASE Open(t)
  <2>1. UNCHANGED <<file, overlapped>> BY <1>2 DEF Open
  <2>2. CASE UNCHANGED tmp /\ faults' # 0
    <3>1. \A u \in Tasks : At(u, "rename")' => At(u, "rename")
      BY <1>0, <1>2 DEF Open, Return, GoTo, Idle, At
    <3> QED BY <2>1, <2>2, <3>1
  <2>3. CASE GoTo(t, "write") /\ UNCHANGED faults
    <3>1. Opened(t)' BY <1>0, <2>3 DEF GoTo, Opened
    <3>2. \A u \in Tasks : At(u, "rename")' => At(u, "rename") /\ u # t BY <1>0, <2>3 DEF GoTo, At
    <3>3. ~overlapped => \A u \in Tasks : ~At(u, "rename")'
      BY <1>2, <3>2 DEF SaveInv, Alone, OnTheWay, Open, At
    <3> QED BY <2>1, <2>3, <3>1, <3>3
  <2> QED BY <1>2, <2>2, <2>3, Faulty DEF Open
<1>3. CASE Write(t)
  <2>1. UNCHANGED <<file, tmp, overlapped>> BY <1>3 DEF Write
  <2>2. \A u \in Tasks : At(u, "rename")' => At(u, "rename")
    BY <1>0, <1>3 DEF Write, Return, GoTo, Idle, At
  <2>3. faults' = 0 => faults = 0 /\ \A u \in Tasks : Opened(u) => Opened(u)'
    BY <1>0, <1>3, Faulty DEF Write, GoTo, Opened
  <2> QED BY <2>1, <2>2, <2>3
<1>4. CASE Commit(t)
  <2>1. tmp'.kind = "list" /\ UNCHANGED <<file, faults, overlapped>>
    BY <1>4 DEF Commit, Fault, Text
  <2> QED BY <2>1
<1>5. CASE Rename(t)
  <2>1. UNCHANGED overlapped /\ At(t, "rename") BY <1>5 DEF Rename
  <2>2. \A u \in Tasks : At(u, "rename")' => At(u, "rename")
    BY <1>0, <1>5 DEF Rename, Return, Idle, At
  <2>3. \A u \in Tasks : Opened(u) => Opened(u)'
    BY <1>0, <1>5 DEF Rename, Return, Idle, At, Opened
  <2>4. faults' = 0 => faults = 0 BY <1>5, Faulty DEF Rename
  <2>5. CASE UNCHANGED <<file, tmp>> BY <2>1, <2>2, <2>3, <2>4, <2>5
  <2>6. CASE file' = tmp /\ tmp' = NoFile /\ UNCHANGED faults /\ \A u \in Tasks : ~Opened(u)
    BY <2>1, <2>6 DEF NoFile
  <2> QED BY <1>5, <2>5, <2>6 DEF Rename
<1> QED BY <1>1, <1>2, <1>3, <1>4, <1>5 DEF Saving

LEMMA WholeOther ==
    ASSUME WholeInv, UNCHANGED <<file, tmp, overlapped>>, faults' = 0 => faults = 0,
           \A u \in Tasks : Opened(u) => Opened(u)',
           \A u \in Tasks : At(u, "rename")' => At(u, "rename")
    PROVE  WholeInv'
  BY DEF WholeInv, StoredIsWhole

LEMMA WholeStep ==
    TypeOK /\ SaveInv /\ WholeInv /\ "flush" \notin Faults /\ [Next]_vars => WholeInv'
<1> SUFFICES ASSUME TypeOK, SaveInv, WholeInv, "flush" \notin Faults, [Next]_vars
             PROVE  WholeInv'
  OBVIOUS
<1> USE DEF Opened, At
<1>1. ASSUME NEW t \in Tasks, Saving(t) PROVE WholeInv' BY <1>1, WholeSaving
<1>2. ASSUME NEW n \in Nodes \cup {0}, Request, SaveFor(n) PROVE WholeInv'
  BY <1>2, WholeOther DEF Request, SaveFor, Persist, SaveInv, TypeOK, Tasks
<1>3. CASE FactoryReset BY <1>2, <1>3 DEF FactoryReset
<1>4. ASSUME NEW n \in Nodes, Handle(n) PROVE WholeInv'
  <2>1. CASE Commission(n) \/ ClearDeviceEndpoints(n)
    BY <2>1, WholeOther DEF Commission, ClearDeviceEndpoints, Request
  <2> QED BY <1>2, <1>4, <2>1
        DEF Handle, SetDeviceName, SetEndpointIncluded, RemoveDevice
<1>5. CASE AddDevice BY <1>5, WholeOther DEF AddDevice, bounds
<1>6. CASE SendRead BY <1>6, WholeOther, Faulty DEF SendRead
<1>7. ASSUME NEW r \in reads, Interrogation(r) PROVE WholeInv'
  <2>1. ASSUME NEW p \in r.left, Report(r, p) PROVE WholeInv'
    BY <2>1, WholeOther DEF Report, bounds
  <2>2. CASE InterrogationDone(r)
    <3>1. \A u \in Tasks : Opened(u) => Opened(u)'
      BY <2>2 DEF InterrogationDone, Persist, TypeOK, Tasks
    <3>2. \A u \in Tasks : At(u, "rename")' => At(u, "rename")
      BY <2>2 DEF InterrogationDone, Persist, TypeOK, Tasks
    <3> QED BY <2>2, <3>1, <3>2, WholeOther, Faulty DEF InterrogationDone
  <2>3. CASE ReadLost(r) BY <2>3, WholeOther, Faulty DEF ReadLost
  <2> QED BY <1>7, <2>1, <2>2, <2>3 DEF Interrogation
<1>8. CASE Restart
  <2>1. \A u \in Tasks : persist'[u].at = "idle" BY <1>8 DEF Restart, Idle
  <2> QED BY <1>8, <2>1 DEF Restart, WholeInv, StoredIsWhole
<1>9. CASE UNCHANGED vars BY <1>9, WholeOther DEF vars, bounds
<1> QED BY <1>1, <1>3, <1>4, <1>5, <1>6, <1>7, <1>8, <1>9 DEF Next

-----------------------------------------------------------------------------
(* Interrogation. *)
LEMMA DetailFrame ==
    ASSUME DetailInv, UNCHANGED <<list, reads>>, restarts' = 0 => restarts = 0, faults' = 0 => faults = 0,
           http.at \in {"add", "send"} => UNCHANGED http
    PROVE  DetailInv'
  BY DEF DetailInv, Announced, Described

(* A change to one device, which leaves what is known of its endpoints.    *)
LEMMA DetailKept ==
    ASSUME TypeOK, DetailInv, NEW n \in Nodes, NEW d \in Entries, Request, UNCHANGED reads,
           list' = [list EXCEPT ![n] = d],
           d.here => list[n].here /\ d.known = list[n].known /\ d.detailed = list[n].detailed
    PROVE  DetailInv'
<1>1. \A m \in Nodes : list'[m].here => list[m].here /\ \A e \in Endpoints : Described(m, e) => Described(m, e)'
  BY ListUpdate DEF TypeOK, Described
<1> QED BY <1>1 DEF DetailInv, Announced, Request

LEMMA DetailStep == TypeOK /\ SaveInv /\ DetailInv /\ [Next]_vars => DetailInv'
<1> SUFFICES ASSUME TypeOK, SaveInv, DetailInv, [Next]_vars PROVE DetailInv'
  OBVIOUS
<1>0. list \in Lists BY DEF TypeOK
<1>1. ASSUME NEW t \in Tasks, Saving(t) PROVE DetailInv'
  <2>1. UNCHANGED <<list, reads, restarts>> /\ (faults' = 0 => faults = 0)
    BY <1>1, Faulty DEF Saving, Snapshot, Open, Write, Commit, Rename, bounds
  <2>2. UNCHANGED http \/ t = "http"
    BY <1>1 DEF Saving, Snapshot, Open, Write, Commit, Rename, Return
  <2>3. persist[t].at # "idle"
    BY <1>1 DEF Saving, Snapshot, Open, Write, Commit, Rename, At
  <2>4. http.at \in {"add", "send"} => UNCHANGED http BY <2>2, <2>3 DEF SaveInv
  <2> QED BY <2>1, <2>4, DetailFrame
<1>2. ASSUME NEW n \in Nodes, Handle(n) PROVE DetailInv'
  <2>0. list[n] \in Entries BY <1>0 DEF Lists
  <2>1. CASE SetDeviceName(n)
    <3> DEFINE d == [list[n] EXCEPT !.name = requests + 1]
    <3>1. d \in Entries /\ d.known = list[n].known /\ d.detailed = list[n].detailed /\ d.here = list[n].here
      BY <2>0 DEF Entries, TypeOK
    <3>2. list' = [list EXCEPT ![n] = d] BY <2>1 DEF SetDeviceName
    <3> QED BY <2>1, <3>1, <3>2, DetailKept DEF SetDeviceName
  <2>2. ASSUME NEW e \in Endpoints, NEW b \in BOOLEAN, SetEndpointIncluded(n, e, b) PROVE DetailInv'
    <3> DEFINE d == [list[n] EXCEPT !.included = IF b THEN @ \cup {e} ELSE @ \ {e}]
    <3>1. d \in Entries /\ d.known = list[n].known /\ d.detailed = list[n].detailed /\ d.here = list[n].here
      BY <2>0 DEF Entries
    <3>2. list' = [list EXCEPT ![n] = d] BY <2>2 DEF SetEndpointIncluded
    <3> QED BY <2>2, <3>1, <3>2, DetailKept DEF SetEndpointIncluded
  <2>3. CASE RemoveDevice(n) BY <2>3, DetailKept, EntryTypes DEF RemoveDevice, Absent
  <2>4. CASE Commission(n) BY <2>4, DetailFrame DEF Commission, Request
  <2>5. CASE ClearDeviceEndpoints(n)
    <3> DEFINE d == [list[n] EXCEPT !.known = {}, !.detailed = {}, !.included = {}]
    <3>1. d \in Entries BY <2>0 DEF Entries
    <3>2. list' = [list EXCEPT ![n] = d] BY <2>5 DEF ClearDeviceEndpoints
    <3>3. \A m \in Nodes \ {n} : list'[m] = list[m] BY <1>0, <3>1, <3>2, ListUpdate
    <3>4. http'.at = "add" /\ http'.node = n /\ UNCHANGED <<reads, restarts, faults>> /\ http.at = "idle"
      BY <2>5 DEF ClearDeviceEndpoints, Request
    <3> QED BY <3>3, <3>4 DEF DetailInv, Announced, Described
  <2> QED BY <1>2, <2>1, <2>2, <2>3, <2>4, <2>5 DEF Handle
<1>3. CASE FactoryReset
  <2>1. \A n \in Nodes : ~list'[n].here BY <1>3 DEF FactoryReset, NoDevices, Absent
  <2> QED BY <2>1 DEF DetailInv
<1>4. CASE AddDevice
  <2> DEFINE n == http.node
             d == IF list[n].here THEN list[n] ELSE NewDevice
  <2>1. n \in Nodes BY <1>4 DEF AddDevice, TypeOK, Handlers
  <2>2. d \in Entries BY <1>0, <2>1, EntryTypes DEF Lists
  <2>3. list' = [list EXCEPT ![n] = d] BY <1>4 DEF AddDevice
  <2>4. \A m \in Nodes \ {n} : list'[m] = list[m] BY <1>0, <2>1, <2>2, <2>3, ListUpdate
  <2>5. http'.at = "send" /\ http'.node = n /\ UNCHANGED <<reads, restarts, faults>>
    BY <1>4 DEF AddDevice, TypeOK, Handlers, bounds
  <2> QED BY <2>4, <2>5 DEF DetailInv, Announced, Described
<1>5. CASE SendRead
  <2>1. CASE faults' # 0 BY <2>1 DEF DetailInv
  <2>2. CASE reads' = reads \cup {[of |-> requests, node |-> http.node, left |-> Reports]} /\ UNCHANGED faults
    <3>1. \A e \in Endpoints : [attr |-> "details", ep |-> e] \in Reports BY DEF Reports
    <3>2. UNCHANGED <<list, restarts>> BY <1>5 DEF SendRead
    <3>3. PICK n : n = http.node OBVIOUS
    <3>4. Announced(n)'
      <4> DEFINE q == [of |-> requests, node |-> n, left |-> Reports]
      <4>1. q \in reads' /\ q.node = n BY <2>2, <3>3
      <4>2. \A e \in Endpoints : [attr |-> "details", ep |-> e] \in q.left BY <3>1
      <4> QED BY <4>1, <4>2 DEF Announced
    <3>5. \A m \in Nodes \ {n} : Announced(m) => Announced(m)'
      BY <2>2, <3>2, <3>3 DEF Announced, Described
    <3> QED BY <2>2, <3>2, <3>4, <3>5 DEF DetailInv
  <2> QED BY <1>5, <2>1, <2>2, Faulty DEF SendRead
<1>6. ASSUME NEW r \in reads, Interrogation(r) PROVE DetailInv'
  <2>0. r.node \in Nodes /\ r.left \subseteq Reports BY DEF TypeOK
  <2>1. ASSUME NEW p \in r.left, Report(r, p) PROVE DetailInv'
    <3> DEFINE n == r.node
               d == Reported(list[n], p)
               q == [r EXCEPT !.left = @ \ {p}]
    <3>1. list[n] \in Entries /\ p \in Reports BY <1>0, <2>0 DEF Lists
    <3>2. d \in Entries BY <3>1, EntryTypes
    <3>3. list'[n] = d /\ \A m \in Nodes \ {n} : list'[m] = list[m]
      BY <1>0, <2>0, <2>1, <3>2, ListUpdate DEF Report
    <3>4. d.here = list[n].here /\ \A e \in Endpoints : Described(n, e) => Described(n, e)'
      BY <3>1, <3>3 DEF Reported, Described, Entries
    <3>5. list[n].here => \A e \in Endpoints : p = [attr |-> "details", ep |-> e] => Described(n, e)'
      BY <3>1, <3>3 DEF Reported, Described, Entries
    <3>6. q.node = n /\ q.left = r.left \ {p} /\ q \in reads' BY <2>1 DEF Report, TypeOK
    <3>7. \A x \in reads : x # r => x \in reads' BY <2>1 DEF Report
    <3>8. UNCHANGED <<http, restarts, faults>> BY <2>1 DEF Report, bounds
    <3>9. ASSUME NEW m \in Nodes, list[m].here, Announced(m) PROVE Announced(m)'
      <4>1. \A e \in Endpoints : Described(m, e) => Described(m, e)' BY <3>3, <3>4 DEF Described
      <4>2. CASE \E x \in reads : x.node = m /\ \A e \in Endpoints :
                    Described(m, e) \/ [attr |-> "details", ep |-> e] \in x.left
        <5>1. PICK x \in reads : x.node = m /\ \A e \in Endpoints :
                    Described(m, e) \/ [attr |-> "details", ep |-> e] \in x.left
          BY <4>2
        <5>2. CASE x = r
          <6>1. m = n /\ q.node = m BY <5>1, <5>2, <3>6
          <6>2. \A e \in Endpoints : Described(m, e)' \/ [attr |-> "details", ep |-> e] \in q.left
            BY <3>5, <3>6, <3>9, <4>1, <5>1, <5>2, <6>1
          <6> QED BY <3>6, <6>1, <6>2 DEF Announced
        <5>3. CASE x # r BY <3>7, <4>1, <5>1, <5>3 DEF Announced
        <5> QED BY <5>2, <5>3
      <4> QED BY <3>8, <3>9, <4>1, <4>2 DEF Announced
    <3> QED BY <3>3, <3>4, <3>8, <3>9 DEF DetailInv
  <2>2. CASE InterrogationDone(r)
    <3>1. CASE faults' # 0 BY <3>1 DEF DetailInv
    <3>2. CASE r.left = {} /\ UNCHANGED faults
      <4>1. UNCHANGED <<list, http, restarts>> /\ reads' = reads \ {r} BY <2>2 DEF InterrogationDone
      <4>2. \A n \in Nodes : Announced(n) => Announced(n)'
        BY <3>2, <4>1 DEF Announced, Described
      <4> QED BY <3>2, <4>1, <4>2 DEF DetailInv
    <3> QED BY <2>2, <3>1, <3>2, Faulty DEF InterrogationDone
  <2>3. CASE ReadLost(r)
    <3>1. faults' # 0 BY <2>3, Faulty DEF ReadLost
    <3> QED BY <3>1 DEF DetailInv
  <2> QED BY <1>6, <2>1, <2>2, <2>3 DEF Interrogation
<1>7. CASE Restart
  <2>1. restarts' # 0 BY <1>7 DEF Restart, TypeOK
  <2> QED BY <2>1 DEF DetailInv
<1>8. CASE UNCHANGED vars BY <1>8, DetailFrame DEF vars, bounds
<1> QED BY <1>1, <1>2, <1>3, <1>4, <1>5, <1>6, <1>7, <1>8 DEF Next

-----------------------------------------------------------------------------
(* Every variable keeps its type. *)
THEOREM StoreTypeCorrect == Spec => []TypeOK
  BY TypeInit, TypeStep, PTL DEF Spec

(* A quiet controller has saved its list, until a call fails or two        *)
(* snapshots race for the file.                                            *)
THEOREM QuietMeansSaved == Spec => []QuietIsSaved
<1>1. TypeOK /\ SaveInv => QuietIsSaved
  BY DEF SaveInv, QuietIsSaved, Quiet, Underway, Current, OnTheWay, At, Tasks, TypeOK
<1> QED BY TypeInit, TypeStep, SaveInit, SaveStep, <1>1, PTL DEF Spec

(* Where a flush that fails is not overlooked, the stored list parses      *)
(* unless a call failed and two snapshots raced.                           *)
THEOREM StoredStaysWhole == ASSUME "flush" \notin Faults PROVE Spec => []StoredIsWhole
<1>1. Init => WholeInv
  BY DEF Init, WholeInv, StoredIsWhole, NoFile, At, Idle
<1>2. WholeInv => StoredIsWhole BY DEF WholeInv
<1>3. "flush" \notin Faults OBVIOUS
<1> QED BY TypeInit, TypeStep, SaveInit, SaveStep, WholeStep, <1>1, <1>2, <1>3, PTL DEF Spec

(* Interrogations that are over leave no device half described, whatever   *)
(* was done to the device while they ran.                                  *)
THEOREM InterrogationsAreWhole == Spec => []InterrogatedIsWhole
<1>1. Init => DetailInv BY DEF Init, DetailInv, NoDevices, Absent
<1>2. TypeOK /\ DetailInv => InterrogatedIsWhole
  <2> SUFFICES ASSUME TypeOK, DetailInv, restarts = 0, faults = 0, NEW n \in Nodes, list[n].here,
                      \A r \in reads : r.node # n,
                      http.at \in {"add", "send"} => http.node # n
               PROVE  list[n].known = Endpoints /\ list[n].detailed = Endpoints
    BY DEF InterrogatedIsWhole
  <2>1. \A e \in Endpoints : Described(n, e) BY DEF DetailInv, Announced
  <2>2. list[n] \in Entries BY DEF TypeOK, Lists
  <2> QED BY <2>1, <2>2 DEF Described, Entries
<1> QED BY TypeInit, TypeStep, SaveInit, SaveStep, DetailStep, <1>1, <1>2, PTL DEF Spec
=============================================================================
