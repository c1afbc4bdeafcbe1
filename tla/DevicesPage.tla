----------------------------- MODULE DevicesPage -----------------------------
(***************************************************************************)
(* The Devices page (Devices.tsx): the paired devices are renamed, deleted,*)
(* interrogated and opened to another controller.  The firmware's HTTP     *)
(* task answers one request at a time.                                     *)
(***************************************************************************)
EXTENDS Naturals, FiniteSets, FiniteSetsExt, SequencesExt

CONSTANTS
    Names,              \* the names the user gives
    Paired,             \* the devices and their names at first
    Impatient,          \* whether the user edits the next name with a rename under way
    MaxDeviceActs, MaxDeviceFaults      \* bounds: what the user asks, requests that fail

NoName == "none"
NoDevice == "nobody"
Devices == DOMAIN Paired

VARIABLES
    stored,     \* the devices the firmware has, with their names
    listed,     \* the devices on the page
    shown,      \* "away", "loading", "list", "failed"
    dvisit,     \* how often the page was mounted
    editing, draft,     \* the device whose name is edited, and what was typed
    opening,    \* the device whose commissioning window is being opened
    calls,      \* requests under way, oldest first
    code,       \* the device whose code the history of the window page holds
    acts, deviceFaults      \* used up of the bounds

page == <<listed, shown, editing, draft, opening>>
vars == <<stored, page, dvisit, calls, code, acts, deviceFaults>>

TypeOK ==
    /\ DOMAIN stored \subseteq Devices /\ DOMAIN listed \subseteq Devices
    /\ Range(stored) \cup Range(listed) \cup {draft} \subseteq Names \cup {NoName}
    /\ shown \in {"away", "loading", "list", "failed"}
    /\ {editing, opening, code} \subseteq Devices \cup {NoDevice}
    /\ {dvisit, acts, deviceFaults} \subseteq Nat

Call(op, d) == [op |-> op, device |-> d, name |-> NoName, visit |-> dvisit]

Init ==
    /\ stored = Paired /\ listed = << >> /\ shown = "away" /\ dvisit = 0
    /\ editing = NoDevice /\ draft = NoName /\ opening = NoDevice
    /\ calls = << >> /\ code = NoDevice
    /\ acts = 0 /\ deviceFaults = 0

Mount ==
    /\ shown' = "loading" /\ dvisit' = dvisit + 1 /\ listed' = << >>
    /\ editing' = NoDevice /\ draft' = NoName /\ opening' = NoDevice
    /\ calls' = Append(calls, [Call("list", NoDevice) EXCEPT !.visit = dvisit + 1])
    /\ UNCHANGED <<stored, code, acts, deviceFaults>>

Unmount ==
    /\ shown' = "away" /\ editing' = NoDevice /\ draft' = NoName /\ opening' = NoDevice
    /\ listed' = << >> /\ UNCHANGED <<dvisit, acts>>

-----------------------------------------------------------------------------
(* The user.                                                               *)

Act == acts < MaxDeviceActs /\ acts' = acts + 1
Ask(call) == calls' = Append(calls, call)
Keeps(what) == UNCHANGED <<stored, listed, shown, dvisit, code, deviceFaults, what>>
UnderWay(op) == \E i \in DOMAIN calls : calls[i].op = op /\ calls[i].visit = dvisit

StartEdit(d) ==
    /\ d \in DOMAIN listed /\ editing # d
    /\ Impatient \/ ~UnderWay("rename")
    /\ editing' = d /\ draft' = listed[d]
    /\ Keeps(<<opening, calls, acts>>)
Type(name) ==
    /\ editing # NoDevice /\ draft # name /\ (Impatient \/ ~UnderWay("rename"))
    /\ draft' = name
    /\ Keeps(<<editing, opening, calls, acts>>)
CancelEdit ==
    /\ editing # NoDevice
    /\ editing' = NoDevice /\ draft' = NoName
    /\ Keeps(<<opening, calls, acts>>)
SaveName ==
    /\ editing # NoDevice /\ draft # NoName /\ Act
    /\ Ask([Call("rename", editing) EXCEPT !.name = draft])
    /\ Keeps(<<editing, draft, opening>>)
Delete(d) ==
    /\ d \in DOMAIN listed /\ editing # d /\ Act /\ Ask(Call("delete", d))
    /\ Keeps(<<editing, draft, opening>>)
Reinterrogate(d) ==
    /\ d \in DOMAIN listed /\ Act /\ Ask(Call("interrogate", d))
    /\ Keeps(<<editing, draft, opening>>)

OpenWindow(d) ==
    /\ d \in DOMAIN listed /\ opening = NoDevice /\ Act /\ Ask(Call("window", d))
    /\ opening' = d
    /\ Keeps(<<editing, draft>>)

-----------------------------------------------------------------------------
(* Answers: the firmware handles a request, or it fails.                   *)

Here(c) == shown # "away" /\ c.visit = dvisit

ListAnswer(c, ok) ==
    /\ IF Here(c) THEN /\ listed' = IF ok THEN stored ELSE << >>
                       /\ shown' = IF ok THEN "list" ELSE "failed"
       ELSE UNCHANGED <<listed, shown>>
    /\ UNCHANGED <<stored, editing, draft, opening>>

(* handleSaveName: the name is replaced and whatever is edited is left.    *)
RenameAnswer(c, ok) ==
    /\ stored' = IF ok /\ c.device \in DOMAIN stored THEN [stored EXCEPT ![c.device] = c.name] ELSE stored
    /\ IF Here(c) /\ ok
       THEN /\ listed' = IF c.device \in DOMAIN listed THEN [listed EXCEPT ![c.device] = c.name] ELSE listed
            /\ editing' = NoDevice /\ draft' = NoName
       ELSE UNCHANGED <<listed, editing, draft>>
    /\ UNCHANGED <<shown, opening>>

(* Mutant: the page forgets the device whether it was deleted or not. *)
DeleteAnswerAnyway(c, ok) ==
    LET Without(f) == Restrict(f, DOMAIN f \ {c.device}) IN
    /\ stored' = IF ok THEN Without(stored) ELSE stored
    /\ listed' = IF Here(c) THEN Without(listed) ELSE listed
    /\ UNCHANGED <<shown, editing, draft, opening>>

DeleteAnswer(c, ok) ==
    LET Without(f) == Restrict(f, DOMAIN f \ {c.device}) IN
    /\ stored' = IF ok THEN Without(stored) ELSE stored
    /\ listed' = IF Here(c) /\ ok THEN Without(listed) ELSE listed
    /\ UNCHANGED <<shown, editing, draft, opening>>

(* Every answer but a code for an open window, which leaves the page.      *)
Fails(ok) ==
    /\ ok \/ deviceFaults < MaxDeviceFaults
    /\ deviceFaults' = IF ok THEN deviceFaults ELSE deviceFaults + 1
Answer(ok) ==
    LET c == calls[1] IN
    /\ calls # << >> /\ calls' = Tail(calls) /\ Fails(ok)
    /\ \/ c.op = "list" /\ ListAnswer(c, ok)
       \/ c.op = "rename" /\ RenameAnswer(c, ok)
       \/ c.op = "delete" /\ DeleteAnswer(c, ok)
       \/ c.op = "interrogate" /\ UNCHANGED <<stored, page>>
       \/ /\ c.op = "window" /\ ~ok
          /\ opening' = IF Here(c) THEN NoDevice ELSE opening
          /\ UNCHANGED <<stored, listed, shown, editing, draft>>
    /\ UNCHANGED <<dvisit, code, acts>>

(* handleOpenCommissioningWindow: the code goes to the history of the page *)
(* that shows it, whichever page the user is on by then.                   *)
WindowOpened ==
    /\ calls # << >> /\ calls[1].op = "window"
    /\ calls' = Tail(calls) /\ code' = calls[1].device
    /\ UNCHANGED <<stored, deviceFaults>>

Step ==
    \/ \E d \in Devices : StartEdit(d) \/ Delete(d) \/ Reinterrogate(d) \/ OpenWindow(d)
    \/ \E name \in Names : Type(name)
    \/ CancelEdit \/ SaveName
    \/ \E ok \in BOOLEAN : Answer(ok)

-----------------------------------------------------------------------------
(* Properties.                                                             *)

(* With nothing under way the list is what the firmware has, even after    *)
(* requests that failed.                                                   *)
ListIsStored == shown = "list" /\ calls = << >> => listed = stored

(* A visit of the page has one commissioning window opened at a time, and  *)
(* the buttons are off exactly as long.                                    *)
WindowCalls == {i \in DOMAIN calls : calls[i].op = "window" /\ calls[i].visit = dvisit}
OneWindowAtATime ==
    shown = "list" => /\ Cardinality(WindowCalls) <= 1
                      /\ (opening # NoDevice) <=> (WindowCalls # {})

(* What the user types is kept until the user saves or leaves it; the name *)
(* of another device has no part in it.                                    *)
DraftKept ==
    [][\A d \in Devices : editing = d /\ editing' = NoDevice /\ calls # << >> /\ calls' = Tail(calls)
            /\ calls[1].op = "rename" => calls[1].device = d]_vars

=============================================================================
