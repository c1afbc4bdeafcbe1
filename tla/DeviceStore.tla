---------------------------- MODULE DeviceStore ----------------------------
(***************************************************************************)
(* firmware/main/managers/device_manager.cpp: the list of devices and its  *)
(* file, with what changes them: the HTTP handlers and the interrogation   *)
(* of a device in matter_controller.cpp.  A device is saved by writing a   *)
(* snapshot of the list to a temporary file, outside the list's mutex, and *)
(* renaming that.  Names and labels are data; endpoint parents are a       *)
(* function of the parts reported and are left out.                        *)
(***************************************************************************)
EXTENDS Naturals

CONSTANTS
    Nodes,          \* node ids
    Endpoints,      \* the endpoints every device has, Root among them
    Root,           \* endpoint 0, whose PartsList names the others
    Faults,         \* which of "open", "write", "flush", "rename", "read" can fail
    MaxRequests,    \* bound: HTTP requests that change something
    MaxRestarts,    \* bound: losses of power
    MaxFaults       \* bound: calls that fail

ASSUME StoreAssumption ==
    /\ 0 \notin Nodes
    /\ Root \in Endpoints
    /\ Faults \subseteq {"open", "write", "flush", "rename", "read"}
    /\ MaxRequests \in Nat
    /\ MaxRestarts \in Nat
    /\ MaxFaults \in Nat

VARIABLES
    list,           \* s_devices
    http,           \* what the HTTP task is doing, and with which node
    persist,        \* per task: where device_manager_persist is, and its snapshot
    reads,          \* esp-matter: interrogations not done, and their reports to come
    file, tmp,      \* LittleFS: DEVICES_PATH and DEVICES_TMP
    overlapped,     \* whether two snapshots have been on their way to the file at once
    requests, restarts, faults      \* used up of the bounds

vars == <<list, http, persist, reads, file, tmp, overlapped, requests, restarts, faults>>
bounds == <<requests, restarts, faults>>

Tasks == {"http", "chip"}
Absent  == [here |-> FALSE, name |-> 0, known |-> {}, detailed |-> {}, included |-> {}]
NewDevice == [Absent EXCEPT !.here = TRUE]
Entries == [here : BOOLEAN, name : Nat, known : SUBSET Endpoints, detailed : SUBSET Endpoints,
            included : SUBSET Endpoints]
Lists   == [Nodes -> Entries]
NoDevices == [n \in Nodes |-> Absent]

(* What a file holds: nothing, a list, or text that does not parse.        *)
Contents == [kind : {"none", "empty", "list"}, list : Lists]
NoFile    == [kind |-> "none", list |-> NoDevices]
EmptyFile == [kind |-> "empty", list |-> NoDevices]
Text(l)   == [kind |-> "list", list |-> l]
Loaded(f) == f.list

Places == {"idle", "snapshot", "open", "write", "commit", "rename"}
Idle == [at |-> "idle", text |-> NoDevices]
Handlers == [at : {"idle", "save"}, node : Nodes \cup {0}] \cup [at : {"add", "send"}, node : Nodes]
Reports == {[attr |-> "PartsList", ep |-> Root]} \cup [attr : {"details"}, ep : Endpoints]

TypeOK ==
    /\ list \in Lists
    /\ http \in Handlers
    /\ persist \in [Tasks -> [at : Places, text : Lists]]
    /\ reads \subseteq [of : Nat, node : Nodes, left : SUBSET Reports]
    /\ file \in Contents
    /\ tmp \in Contents
    /\ overlapped \in BOOLEAN
    /\ requests \in Nat
    /\ restarts \in Nat
    /\ faults \in Nat

Fault(kind) == kind \in Faults /\ faults < MaxFaults /\ faults' = faults + 1

-----------------------------------------------------------------------------
(* device_manager_persist, on either task.                                 *)

At(t, place) == persist[t].at = place
GoTo(t, place) == persist' = [persist EXCEPT ![t].at = place]
Persist(t) == persist' = [persist EXCEPT ![t].at = "snapshot"]
(* Persist is over; the HTTP handler that called it answers. *)
Return(t) == /\ persist' = [persist EXCEPT ![t] = Idle]
             /\ http' = IF t = "http" THEN [at |-> "idle", node |-> 0] ELSE http

OnTheWay(t) == persist[t].at \in {"open", "write", "commit", "rename"}
Opened(t) == persist[t].at \in {"write", "commit"}

Snapshot(t) ==
    /\ At(t, "snapshot")
    /\ persist' = [persist EXCEPT ![t] = [at |-> "open", text |-> list]]
    /\ overlapped' = (overlapped \/ \E u \in Tasks \ {t} : OnTheWay(u))
    /\ UNCHANGED <<list, http, reads, file, tmp, bounds>>

(* fopen creates the file; what it held stays until the new text is synced. *)
Open(t) ==
    /\ At(t, "open")
    /\ \/ /\ GoTo(t, "write")
          /\ tmp' = IF tmp.kind = "none" THEN EmptyFile ELSE tmp
          /\ UNCHANGED <<http, faults>>
       \/ /\ Fault("open")
          /\ Return(t)
          /\ UNCHANGED tmp
    /\ UNCHANGED <<list, reads, file, overlapped, requests, restarts>>

(* Mutant: a failing fputs does not keep the file from being renamed. *)
WriteRegardless(t) ==
    /\ At(t, "write")
    /\ \/ GoTo(t, "commit") /\ UNCHANGED faults
       \/ Fault("write") /\ GoTo(t, "rename")
    /\ UNCHANGED <<list, http, reads, file, tmp, overlapped, requests, restarts>>

Write(t) ==
    /\ At(t, "write")
    /\ \/ GoTo(t, "commit") /\ UNCHANGED <<http, faults>>
       \/ Fault("write") /\ Return(t)
    /\ UNCHANGED <<list, reads, file, tmp, overlapped, requests, restarts>>

(* fflush, fsync and fclose, whose results are ignored.  LittleFS commits  *)
(* a file as a whole or, after a failed write, not at all.                 *)
Commit(t) ==
    /\ At(t, "commit")
    /\ GoTo(t, "rename")
    /\ \/ tmp' = Text(persist[t].text) /\ UNCHANGED faults
       \/ Fault("flush") /\ UNCHANGED tmp
    /\ UNCHANGED <<list, http, reads, file, overlapped, requests, restarts>>

(* rename.  LittleFS refuses a file that is open or does not exist.        *)
Rename(t) ==
    /\ At(t, "rename")
    /\ Return(t)
    /\ \/ /\ tmp.kind # "none" /\ \A u \in Tasks : ~Opened(u)
          /\ file' = tmp /\ tmp' = NoFile
          /\ UNCHANGED faults
       \/ /\ tmp.kind = "none" \/ \E u \in Tasks : Opened(u)
          /\ UNCHANGED <<file, tmp, faults>>
       \/ /\ Fault("rename")
          /\ UNCHANGED <<file, tmp>>
    /\ UNCHANGED <<list, reads, overlapped, requests, restarts>>

-----------------------------------------------------------------------------
(* The HTTP task.  A request about a device or an endpoint that is not in  *)
(* the list is answered 404 and changes nothing.                           *)

Request ==
    /\ http.at = "idle"
    /\ requests < MaxRequests /\ requests' = requests + 1
    /\ UNCHANGED <<file, tmp, overlapped, restarts, faults>>

SaveFor(n) == http' = [at |-> "save", node |-> n] /\ Persist("http")

SetDeviceName(n) ==
    /\ Request
    /\ list[n].here
    /\ list' = [list EXCEPT ![n].name = requests + 1]
    /\ SaveFor(n)
    /\ UNCHANGED reads

SetEndpointIncluded(n, e, included) ==
    /\ Request
    /\ list[n].here /\ e \in list[n].known
    /\ list' = [list EXCEPT ![n].included = IF included THEN @ \cup {e} ELSE @ \ {e}]
    /\ SaveFor(n)
    /\ UNCHANGED reads

RemoveDevice(n) ==
    /\ Request
    /\ list' = [list EXCEPT ![n] = Absent]
    /\ SaveFor(n)
    /\ UNCHANGED reads

(* matter_factory_reset: the controller restarts some time later. *)
FactoryReset ==
    /\ Request
    /\ list' = NoDevices
    /\ SaveFor(0)
    /\ UNCHANGED reads

(* A device that has been commissioned is interrogated. *)
Commission(n) ==
    /\ Request
    /\ ~list[n].here
    /\ http' = [at |-> "add", node |-> n]
    /\ UNCHANGED <<list, persist, reads>>

(* The user interrogates it again: its endpoints are cleared first.        *)
ClearDeviceEndpoints(n) ==
    /\ Request
    /\ list' = [list EXCEPT ![n] = [@ EXCEPT !.known = {}, !.detailed = {}, !.included = {}]]
    /\ http' = [at |-> "add", node |-> n]
    /\ UNCHANGED <<persist, reads>>

AddDevice ==
    /\ http.at = "add"
    /\ http' = [http EXCEPT !.at = "send"]
    /\ list' = [list EXCEPT ![http.node] = IF @.here THEN @ ELSE NewDevice]
    /\ UNCHANGED <<persist, reads, file, tmp, overlapped, bounds>>

(* The read is sent with the stack lock held. *)
SendRead ==
    /\ http.at = "send" /\ http' = [at |-> "idle", node |-> 0]
    /\ persist["chip"].at = "idle"
    /\ \/ /\ reads' = reads \cup {[of |-> requests, node |-> http.node, left |-> Reports]}
          /\ UNCHANGED faults
       \/ Fault("read") /\ UNCHANGED reads
    /\ UNCHANGED <<list, persist, file, tmp, overlapped, requests, restarts>>

-----------------------------------------------------------------------------
(* The Matter task: the reports of an interrogation, in any order.         *)

(* Mutant: the attributes of an endpoint rely on a PartsList that named it. *)
ReportedIfKnown(d, r) ==
    IF ~d.here THEN d
    ELSE IF r.attr = "PartsList" THEN [d EXCEPT !.known = @ \cup (Endpoints \ {Root})]
    ELSE IF r.ep \notin d.known \cup {Root} THEN d
    ELSE [d EXCEPT !.known = @ \cup {r.ep}, !.detailed = @ \cup {r.ep}]

(* A PartsList adds the endpoints it names; any other attribute adds its   *)
(* endpoint and says something about it.  A device that is gone stays so.  *)
Reported(d, r) ==
    IF ~d.here THEN d
    ELSE IF r.attr = "PartsList" THEN [d EXCEPT !.known = @ \cup (Endpoints \ {Root})]
    ELSE [d EXCEPT !.known = @ \cup {r.ep}, !.detailed = @ \cup {r.ep}]

Report(read, r) ==
    /\ persist["chip"].at = "idle"
    /\ r \in read.left
    /\ list' = [list EXCEPT ![read.node] = Reported(@, r)]
    /\ reads' = (reads \ {read}) \cup {[read EXCEPT !.left = @ \ {r}]}
    /\ UNCHANGED <<http, persist, file, tmp, overlapped, bounds>>

(* Mutant: the endpoints are not saved. *)
InterrogationDoneUnsaved(read) ==
    /\ persist["chip"].at = "idle"
    /\ read.left = {}
    /\ reads' = reads \ {read}
    /\ UNCHANGED <<list, http, persist, file, tmp, overlapped, requests, restarts, faults>>

(* on_interrogation_done, also when the device stopped answering. *)
InterrogationDone(read) ==
    /\ persist["chip"].at = "idle"
    /\ \/ read.left = {} /\ UNCHANGED faults
       \/ read.left # {} /\ Fault("read")
    /\ reads' = reads \ {read}
    /\ Persist("chip")
    /\ UNCHANGED <<list, http, file, tmp, overlapped, requests, restarts>>

(* No session could be set up: nothing is called back. *)
ReadLost(read) ==
    /\ persist["chip"].at = "idle"
    /\ Fault("read")
    /\ reads' = reads \ {read}
    /\ UNCHANGED <<list, http, persist, file, tmp, overlapped, requests, restarts>>

-----------------------------------------------------------------------------
(* Power is lost, and load_from_disk runs. *)
Restart ==
    /\ restarts < MaxRestarts /\ restarts' = restarts + 1
    /\ list' = Loaded(file)
    /\ http' = [at |-> "idle", node |-> 0]
    /\ persist' = [t \in Tasks |-> Idle]
    /\ reads' = {}
    /\ UNCHANGED <<file, tmp, overlapped, requests, faults>>

Init ==
    /\ list = NoDevices
    /\ http = [at |-> "idle", node |-> 0]
    /\ persist = [t \in Tasks |-> Idle]
    /\ reads = {}
    /\ file = NoFile
    /\ tmp = NoFile
    /\ overlapped = FALSE
    /\ requests = 0 /\ restarts = 0 /\ faults = 0

Saving(t) == Snapshot(t) \/ Open(t) \/ Write(t) \/ Commit(t) \/ Rename(t)
Handle(n) ==
    \/ SetDeviceName(n)
    \/ \E e \in Endpoints, included \in BOOLEAN : SetEndpointIncluded(n, e, included)
    \/ RemoveDevice(n)
    \/ Commission(n)
    \/ ClearDeviceEndpoints(n)
Interrogation(read) ==
    \/ \E r \in read.left : Report(read, r)
    \/ InterrogationDone(read)
    \/ ReadLost(read)

Next ==
    \/ \E t \in Tasks : Saving(t)
    \/ \E n \in Nodes : Handle(n)
    \/ FactoryReset
    \/ AddDevice
    \/ SendRead
    \/ \E read \in reads : Interrogation(read)
    \/ Restart

Spec == Init /\ [][Next]_vars

-----------------------------------------------------------------------------
Quiet == http.at = "idle" /\ persist["chip"].at = "idle" /\ reads = {}

(* When nobody is changing the list or saving it, a restart would load the *)
(* list as it is: until a call fails or two snapshots race for the file,   *)
(* every change is followed by a save that includes it.                    *)
QuietIsSaved ==
    Quiet /\ ~overlapped /\ faults = 0 => Loaded(file) = list

(* The stored list parses: the rename never installs a file that has only  *)
(* been begun, when a call fails whose result device_manager_persist looks *)
(* at, or two snapshots race for the file.  (Both at once can.)            *)
StoredIsWhole == faults = 0 \/ ~overlapped => file.kind # "empty"

(* A device in the list whose interrogations are over has all of its       *)
(* endpoints with their details, however interrogations of it overlapped   *)
(* and whatever was done to it meanwhile (no power loss, no lost report).  *)
InterrogatedIsWhole ==
    restarts = 0 /\ faults = 0 =>
        \A n \in Nodes :
            /\ list[n].here
            /\ \A r \in reads : r.node # n
            /\ http.at \in {"add", "send"} => http.node # n
            => list[n].known = Endpoints /\ list[n].detailed = Endpoints

(* What task-33 and task-4.1 promise of a name and of the included flag: a *)
(* change that has been answered is saved, whoever else saves the list.    *)
AnsweredIsSaved ==
    Quiet /\ faults = 0 => Loaded(file) = list
=============================================================================
