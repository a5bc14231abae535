----------------------------- MODULE ConfigPage -----------------------------
(***************************************************************************)
(* The Config tab of the terminal client (tui/pages/kernel, with tui.go,   *)
(* cmd.go and route_msg.go): a menu of kernel operations, network fields   *)
(* and the viewer, an editor for a field, and one for a whole section.     *)
(*                                                                         *)
(* The tab shows settings it fetched once.  An edit of a field of a nested *)
(* object (tun) sends the object as fetched with that field changed, and   *)
(* the server replaces the section.  Requests run on their own and are     *)
(* answered in any order; the client gives up after 30 s.                  *)
(*                                                                         *)
(* A section put at the server is one step (Activation has its steps).     *)
(* live is what the kernel runs with when it is up.  The status, polled    *)
(* and pushed, is left out but for what its arrival does (StateStream has  *)
(* the rest); so is the text of the viewer, but for which file it is.      *)
(***************************************************************************)
EXTENDS Naturals, Sequences

CONSTANTS
  NetworkFields,  \* the fields of the menu, in order
  KeyOf,          \* [field -> section it belongs to]
  Vals,           \* bound: values of a field
  Slots           \* bound: requests under way at once

Fields == {NetworkFields[i] : i \in DOMAIN NetworkFields}

ASSUME ConfigAssumption ==
  /\ NetworkFields \in Seq(Fields) /\ "none" \notin Fields
  /\ \A i, j \in DOMAIN NetworkFields :
       NetworkFields[i] = NetworkFields[j] => i = j
  /\ DOMAIN KeyOf = Fields

VARIABLES
  live,       \* server: the settings
  kSelected,
  dialog,     \* "none", "edit", "viewer" or "section" (over the viewer)
  operating,
  network,    \* m.network, or NotLoaded
  mode,       \* of the viewer: "active" or "runtime"
  shown,      \* the file whose text the viewer holds, "none" if not loaded
  fetching,   \* the files that are being fetched
  call,       \* [Slots -> request]
  outdated    \* history: since the newest settings shown were read, a request
              \* failed or somebody else changed something

viewer == <<mode, shown, fetching>>
vars   == <<live, kSelected, dialog, operating, network, viewer, call, outdated>>

Settings  == [Fields -> Vals]
NotLoaded == <<>>
Modes     == {"active", "runtime"}
kernelOps == <<"Start", "Stop", "Restart">>
ConfigMenuLen == Len(kernelOps) + Len(NetworkFields) + 1

\* A request.  data is the value to put or the settings read; field the field
\* edited, none when the section editor wrote the value.  old: settings that
\* are not the newest, or an edit made from such.
Free == [op |-> "none", at |-> "sent", key |-> "none", field |-> "none",
         data |-> NotLoaded, old |-> FALSE]
KernelOp == [Free EXCEPT !.op = "kernel"]
FetchNetworkSettings == [Free EXCEPT !.op = "network"]
PutSection(key, field, data, old) ==
  [Free EXCEPT !.op = "put", !.key = key, !.field = field, !.data = data,
               !.old = old]

Saved == [Free EXCEPT !.op = "put", !.at = "done"]

Keys == {KeyOf[f] : f \in Fields}
Sections(key) ==
  UNION {[F -> Vals] : F \in SUBSET {f \in Fields : KeyOf[f] = key}}

RequestOK(c) ==
  \/ c \in {Free, KernelOp, FetchNetworkSettings, Saved}
  \/ c.op = "network" /\ c.at = "done" /\ c.data \in Settings /\ c.old \in BOOLEAN
  \/ /\ c.op = "put" /\ c.at = "sent" /\ c.old \in BOOLEAN
     /\ c.key \in Keys /\ c.data \in Sections(c.key)
     /\ c.field \in Fields => KeyOf[c.field] = c.key /\ c.field \in DOMAIN c.data

TypeOK ==
  /\ live \in Settings
  /\ kSelected \in 0 .. ConfigMenuLen - 1
  /\ dialog \in {"none", "edit", "viewer", "section"}
  /\ operating \in BOOLEAN
  /\ network \in Settings \cup {NotLoaded}
  /\ mode \in Modes /\ shown \in Modes \cup {"none"} /\ fetching \subseteq Modes
  /\ DOMAIN call = Slots /\ \A k \in Slots : RequestOK(call[k])
  /\ outdated \in BOOLEAN

Init ==
  /\ live \in Settings
  /\ kSelected = 0 /\ dialog = "none" /\ operating = FALSE
  /\ network = NotLoaded
  /\ mode = "active" /\ shown = "none" /\ fetching = {}
  /\ call = [k \in Slots |-> Free]
  /\ outdated = FALSE

Issue(request) ==
  \E k \in Slots : call[k] = Free /\ call' = [call EXCEPT ![k] = request]

\* While an operation runs, drawing the frame takes the label of the selected
\* entry from kernelOps.  Out of range, the program panics and ends.
Drawn == operating => kSelected < Len(kernelOps)

Selected(first, n) == kSelected \in first .. first + n - 1

-----------------------------------------------------------------------------
(* Keys.  The editors and the viewer swallow all of them. *)

InMenu == Drawn /\ dialog = "none"

\* "5" from another tab.
Visit ==
  /\ InMenu /\ network = NotLoaded
  /\ Issue(FetchNetworkSettings)
  /\ UNCHANGED <<live, kSelected, dialog, operating, network, viewer, outdated>>

\* "down" and "up"
Move ==
  /\ InMenu
  /\ \/ kSelected' = (kSelected + 1) % ConfigMenuLen
     \/ kSelected' = (kSelected + ConfigMenuLen - 1) % ConfigMenuLen
  /\ UNCHANGED <<live, dialog, operating, network, viewer, call, outdated>>

\* Mutant of startKernelOp: "enter" on the first field starts one, too.
startKernelOp_OneMore ==
  /\ InMenu /\ Selected(0, Len(kernelOps) + 1)
  /\ operating' = TRUE
  /\ Issue(KernelOp)
  /\ UNCHANGED <<live, kSelected, dialog, network, viewer, outdated>>

\* "enter"
startKernelOp ==
  /\ InMenu /\ Selected(0, Len(kernelOps))
  /\ operating' = TRUE
  /\ Issue(KernelOp)
  /\ UNCHANGED <<live, kSelected, dialog, network, viewer, outdated>>

startEditField ==
  /\ InMenu /\ Selected(Len(kernelOps), Len(NetworkFields))
  /\ dialog' = "edit"
  /\ UNCHANGED <<live, kSelected, operating, network, viewer, call, outdated>>

OpenViewer ==
  /\ InMenu /\ kSelected = ConfigMenuLen - 1
  /\ dialog' = "viewer"
  /\ fetching' = fetching \cup {mode}
  /\ UNCHANGED <<live, kSelected, operating, network, mode, shown, call, outdated>>

\* m.editField: the selection does not move under an editor.
editField == NetworkFields[kSelected - Len(kernelOps) + 1]

\* Mutant of setField: only the field.
setField_Alone(f, v) == [g \in {f} |-> v]

\* The object the field belongs to, as fetched, with the field changed.
setField(f, v) ==
  [g \in {f} \cup {h \in DOMAIN network : KeyOf[h] = KeyOf[f]} |->
     IF g = f THEN v ELSE network[g]]

\* The settings shown may not be the server's.
Doubtful == \/ network = NotLoaded \/ outdated
            \/ \E k \in Slots : call[k].op \in {"network", "put"}

\* "enter" with a value; "esc", or "enter" without one.
SaveField ==
  /\ Drawn /\ dialog = "edit"
  /\ dialog' = "none"
  /\ \/ \E v \in Vals :
          Issue(PutSection(KeyOf[editField], editField, setField(editField, v),
                           Doubtful))
     \/ UNCHANGED call
  /\ UNCHANGED <<live, kSelected, operating, network, viewer, outdated>>

\* "c"
Toggle ==
  /\ Drawn /\ dialog = "viewer"
  /\ mode' \in Modes \ {mode}
  /\ shown' = "none"
  /\ fetching' = fetching \cup {mode'}
  /\ UNCHANGED <<live, kSelected, dialog, operating, network, call, outdated>>

\* "e" and "esc"
LeaveViewer ==
  /\ Drawn /\ dialog = "viewer"
  /\ dialog' \in {"section", "none"}
  /\ UNCHANGED <<live, kSelected, operating, network, viewer, call, outdated>>

\* "enter" with a key and a value; "esc", or "enter" without a key.
SaveSection ==
  /\ Drawn /\ dialog = "section"
  /\ dialog' = "viewer"
  /\ \/ \E key \in Keys : \E value \in Sections(key) :
          Issue(PutSection(key, "none", value, TRUE))
     \/ UNCHANGED call
  /\ UNCHANGED <<live, kSelected, operating, network, viewer, outdated>>

-----------------------------------------------------------------------------
(* The server *)

\* Settings read by now and edits on their way do not know of this step.
Aged == [k \in Slots |->
           IF \/ call[k].op = "network" /\ call[k].at = "done"
              \/ call[k].op = "put" /\ call[k].at = "sent"
             THEN [call[k] EXCEPT !.old = TRUE] ELSE call[k]]

ReadSettings(k) ==
  /\ call[k] = FetchNetworkSettings
  /\ call' = [Aged EXCEPT ![k].at = "done", ![k].data = live]
  /\ UNCHANGED <<live, kSelected, dialog, operating, network, viewer, outdated>>

\* The section becomes the value: what the value leaves out is what the profile
\* says without it.  Another overlay may have the last word on a field, and the
\* supervisor on the ports it injects.
Replace(key, value) ==
  live' \in {s \in Settings : \A f \in Fields :
               IF f \in DOMAIN value THEN s[f] \in {value[f], live[f]}
                                     ELSE KeyOf[f] # key => s[f] = live[f]}

ServePut(k) ==
  /\ call[k].op = "put" /\ call[k].at = "sent"
  /\ Replace(call[k].key, call[k].data)
  /\ call' = [Aged EXCEPT ![k] = Saved]
  /\ UNCHANGED <<kSelected, dialog, operating, network, viewer, outdated>>

\* A request for settings fails while the kernel is down; a put that fails may
\* have been saved, for the kernel to start with later.  The client may also
\* have given up: what the server does later is the next action.
Fail(k) ==
  /\ Drawn
  /\ call[k].op \in {"network", "put"}
  /\ \/ /\ call[k].op = "put" /\ call[k].at = "sent"
        /\ Replace(call[k].key, call[k].data)
     \/ UNCHANGED live
  /\ call' = [Aged EXCEPT ![k] = Free]
  /\ outdated' = TRUE
  /\ UNCHANGED <<kSelected, dialog, operating, network, viewer>>

\* Other clients, another profile activated from this one, a put given up.
OthersChange ==
  /\ live' \in Settings \ {live}
  /\ call' = Aged
  /\ outdated' = TRUE
  /\ UNCHANGED <<kSelected, dialog, operating, network, viewer>>

-----------------------------------------------------------------------------
(* Answers *)

\* NetworkSettingsMsg
SettingsLoaded(k) ==
  /\ Drawn
  /\ call[k].op = "network" /\ call[k].at = "done"
  /\ network' = call[k].data
  /\ outdated' = call[k].old
  /\ call' = [call EXCEPT ![k] = Free]
  /\ UNCHANGED <<live, kSelected, dialog, operating, viewer>>

\* Mutant of SectionEdited: the settings are not fetched again.
SectionEdited_NoFetch(k) ==
  /\ Drawn
  /\ call[k] = Saved
  /\ call' = [call EXCEPT ![k] = Free]
  /\ fetching' = fetching \cup {mode}
  /\ UNCHANGED <<live, kSelected, dialog, operating, network, mode, shown, outdated>>

\* SectionEditMsg
SectionEdited(k) ==
  /\ Drawn
  /\ call[k] = Saved
  /\ call' = [call EXCEPT ![k] = FetchNetworkSettings]
  /\ fetching' = fetching \cup {mode}
  /\ UNCHANGED <<live, kSelected, dialog, operating, network, mode, shown, outdated>>

\* Mutant of OperationEnded: an error leaves the spinner to the next poll.
OperationEnded_KeepsSpinner(k) ==
  /\ Drawn
  /\ call[k].op = "kernel"
  /\ operating' \in {FALSE, operating}
  /\ call' = [call EXCEPT ![k] = Free]
  /\ UNCHANGED <<live, kSelected, dialog, network, viewer, outdated>>

\* StatusLoadedMsg or StatusErrorMsg as the answer to an operation ...
OperationEnded(k) ==
  /\ Drawn
  /\ call[k].op = "kernel"
  /\ operating' = FALSE
  /\ call' = [call EXCEPT ![k] = Free]
  /\ UNCHANGED <<live, kSelected, dialog, network, viewer, outdated>>

\* ... and as the answer to a poll, which comes every second.
StatusPolled ==
  /\ Drawn /\ operating
  /\ operating' = FALSE
  /\ UNCHANGED <<live, kSelected, dialog, network, viewer, call, outdated>>

\* ConfigLoadedMsg, or an error.  Another fetch of the file may be under way.
ConfigLoaded(m) ==
  /\ Drawn /\ m \in fetching
  /\ fetching' \in {fetching, fetching \ {m}}
  /\ shown' \in {shown, IF m = mode THEN m ELSE shown}
  /\ UNCHANGED <<live, kSelected, dialog, operating, network, mode, call, outdated>>

-----------------------------------------------------------------------------
Key == \/ Visit \/ Move \/ startKernelOp \/ startEditField \/ OpenViewer
       \/ SaveField \/ Toggle \/ LeaveViewer \/ SaveSection

Server == OthersChange \/ \E k \in Slots : ReadSettings(k) \/ ServePut(k)

Answer == \/ \E k \in Slots : \/ SettingsLoaded(k) \/ SectionEdited(k)
                              \/ OperationEnded(k) \/ Fail(k)
          \/ StatusPolled \/ \E m \in Modes : ConfigLoaded(m)

Next == Key \/ Server \/ Answer

Spec == Init /\ [][Next]_vars

-----------------------------------------------------------------------------
(* Properties *)

\* Saving one field leaves the others as they are, if the settings on the page
\* were the server's when the user saved and nobody came in between: whatever
\* was sent and answered before, the object written back is not an old one.
EditKeepsTheRest ==
  [][\A k \in Slots :
       /\ call[k].op = "put" /\ call[k].at = "sent"
       /\ call[k].field \in Fields /\ ~call[k].old
       /\ call'[k] = Saved
       => \A f \in Fields \ {call[k].field} : live'[f] = live[f]]_vars

\* Once no request is under way the page shows the settings of the kernel,
\* unless it showed old ones last, a request failed or others interfered.
ShowsTheKernel ==
  (\A k \in Slots : call[k].op \notin {"network", "put"}) /\ ~outdated =>
    network \in {live, NotLoaded}

\* The spinner never outlives the operation it was started for.
BusyHasOperation == operating => \E k \in Slots : call[k] = KernelOp

\* The viewer never shows one file under the title of the other.
ShowsSelectedMode == shown \in {mode, "none"}

\* The parts of the page fit together, in whatever order keys, answers and polls
\* come: spinner and operation, text and title, selection and menu.
PageOK == TypeOK /\ BusyHasOperation /\ ShowsSelectedMode

\* The frame is without a label for the running operation, and the program
\* ends, only when the user moves off the operations while one runs: neither
\* does an operation begin elsewhere, nor does an answer or an editor move the
\* selection (view_frame.go 36-38, ops.go 43-52).
LabelLostOnlyByMoving ==
  [][Drawn /\ ~Drawn' => operating /\ dialog = "none" /\ UNCHANGED call]_vars
=============================================================================
