----------------------------- MODULE Activation -----------------------------
(***************************************************************************)
(* How a configuration gets to the kernel: the control API's handlers that *)
(* write active.yaml and restart the kernel (control/profiles.go,          *)
(* control/config.go, control/control.go), the subscription scheduler      *)
(* (scheduler/scheduler.go) and the supervisor, whose every start rewrites *)
(* active.yaml (injectClashConfig) without the store's mutex.              *)
(*                                                                         *)
(* Store.mu makes each call of the store one step; lifeMu lets one start   *)
(* at a time run; nothing makes a handler, which is a sequence of such     *)
(* calls, atomic.  The steps of a start are the read and the write of      *)
(* active.yaml and the spawn.                                              *)
(*                                                                         *)
(* Abstracted: a configuration is the profile it was composed from and the *)
(* verdict `mihomo -t` gives on it, with a note of how it got to its file  *)
(* (a history, which no guard reads); profiles that can be activated are   *)
(* neither created nor deleted; how a start waits for the kernel is module *)
(* Supervisor's.                                                           *)
(***************************************************************************)
EXTENDS Naturals

CONSTANTS
  Requests,   \* concurrent HTTP handlers and scheduler ticks
  Profiles,   \* ids of profiles that can be activated
  NoProfile,  \* "": no active profile
  Absent,     \* no snapshot yet
  Watchdog,   \* the holder of lifeMu that is not a request
  Nobody,     \* lifeMu is free
  Calls,      \* the calls clients make
  Verdicts    \* the verdicts the contents of profiles may get

ASSUME ActivationAssumption ==
  /\ NoProfile \notin Profiles
  /\ Watchdog \notin Requests /\ Nobody \notin Requests /\ Watchdog # Nobody
  /\ Calls \subseteq {"activate", "save", "scheduled", "rollback", "recover",
                      "restart", "edit"}
  /\ Verdicts \subseteq BOOLEAN

VARIABLES
  content,    \* [Profiles -> verdict on the profile as composed now]
  activeId,   \* state.json
  active,     \* active.yaml
  bak,        \* active.yaml.bak
  running,    \* is there a kernel?
  respawn,    \* is a backoff of the watchdog pending?
  req,        \* [Requests -> the handler's progress]
  life,       \* the start under way: its holder, its step, what it read
  \* history
  copied,     \* active.yaml was copied back, or written back by a start,
              \* since it was last composed
  touched     \* handlers under way since whose last look at the store's
              \* files, or write to them, somebody else has written there

store == <<content, activeId, active, bak>>
ghost == <<copied, touched>>
vars  == <<store, running, respawn, req, life, ghost>>

\* A configuration; `owed`: it is rejected, and composed for an activation,
\* which owes its removal.
Config(p, ok, owed) == [of |-> p, ok |-> ok, owed |-> owed /\ ~ok]
Minimal == Config(NoProfile, TRUE, FALSE)
Configs ==
  {c \in [of : Profiles \cup {NoProfile}, ok : BOOLEAN, owed : BOOLEAN] :
     c.ok => ~c.owed}

\* How far a handler has come, and the start that holds lifeMu.
Progress ==
  [pc : {"idle", "check", "set", "validate", "undo", "restart", "wait"},
   call : Calls \cup {"none"},
   id : Profiles \cup {NoProfile}, prev : Profiles \cup {NoProfile}]
Starting ==
  [holder : Requests \cup {Watchdog, Nobody},
   step : {"none", "read", "write", "spawn"}, read : Configs]

Idle == [pc |-> "idle", call |-> "none", id |-> NoProfile, prev |-> NoProfile]
Free == [holder |-> Nobody, step |-> "none", read |-> Minimal]

TypeOK ==
  /\ content \in [Profiles -> BOOLEAN]
  /\ activeId \in Profiles \cup {NoProfile}
  /\ active \in Configs
  /\ bak \in Configs \cup {Absent}
  /\ running \in BOOLEAN
  /\ respawn \in BOOLEAN
  /\ req \in [Requests -> Progress]
  /\ life \in Starting
  /\ copied \in BOOLEAN
  /\ touched \subseteq Requests

\* The server has started: the boot start left a minimal active.yaml.
Init ==
  /\ content \in [Profiles -> Verdicts]
  /\ activeId = NoProfile
  /\ active = Minimal
  /\ bak = Absent
  /\ running = TRUE
  /\ respawn = FALSE
  /\ req = [r \in Requests |-> Idle]
  /\ life = Free
  /\ copied = FALSE
  /\ touched = {}

-----------------------------------------------------------------------------
(* The calls of the store that concern the active configuration *)

\* safeActivate has composed its profile and is not through with it.
Judging(r) == req[r].pc \in {"validate", "undo"}

\* r is going to write the store's files, relying on what it found or put there.
Relying(r) == Judging(r) \/ (req[r].pc = "set" /\ req[r].call # "activate")

\* r writes: whoever else relies on the files has been interfered with.
Touch(r) == touched' = {s \in Requests \ {r} : Relying(s)}

\* SetActive: snapshot, compose, remember.
SetActive(r, p, owed) ==
  /\ bak' = active
  /\ active' = Config(p, content[p], owed)
  /\ activeId' = p
  /\ copied' = FALSE
  /\ Touch(r)
  /\ UNCHANGED content

\* Mutant of ResetActive: the id is not dropped.
ResetActive_KeepsId(r) ==
  /\ bak' = active
  /\ active' = Minimal
  /\ copied' = FALSE
  /\ Touch(r)
  /\ UNCHANGED <<content, activeId>>

\* ResetActive
ResetActive(r) ==
  /\ bak' = active
  /\ active' = Minimal
  /\ activeId' = NoProfile
  /\ copied' = FALSE
  /\ Touch(r)
  /\ UNCHANGED content

\* Store.Rollback: the snapshot is copied back, state.json stays as it is.
CopyBack(r, owed) ==
  /\ bak # Absent
  /\ active' = Config(bak.of, bak.ok, owed)
  /\ copied' = TRUE
  /\ Touch(r)
  /\ UNCHANGED <<content, activeId, bak>>

-----------------------------------------------------------------------------
(* The handlers *)

Become(r, pc) == req' = [req EXCEPT ![r].pc = pc]
Enter(r, c, pc, p) ==
  req' = [req EXCEPT ![r] = [pc |-> pc, call |-> c, id |-> p, prev |-> activeId]]

Quiescent(r, c) == req[r].pc = "idle" /\ c \in Calls

\* What profiles compose to changes without any activation: PUT profiles/{id},
\* POST refresh (also the first half of refresh-and-activate, whose second half
\* is an Activate), an overlay created, switched or deleted, which for a global
\* one concerns several profiles.  Nothing validates the outcome.
Edit ==
  /\ "edit" \in Calls
  /\ content' \in [Profiles -> Verdicts]
  /\ UNCHANGED <<activeId, active, bak, running, respawn, req, life, ghost>>

\* POST profiles/{id}/activate: safeActivate notes the active profile.
Activate(r) ==
  /\ Quiescent(r, "activate")
  /\ \E p \in Profiles : Enter(r, "activate", "set", p)
  /\ UNCHANGED <<store, running, respawn, life, ghost>>

\* PUT config (and config/section): the content of the active profile.
Save(r) ==
  /\ Quiescent(r, "save")
  /\ activeId # NoProfile
  /\ \E ok \in Verdicts : content' = [content EXCEPT ![activeId] = ok]
  /\ Enter(r, "save", "set", activeId)
  /\ UNCHANGED <<activeId, active, bak, running, respawn, life, ghost>>

\* tickOnce refreshes a subscription.  The scheduler's mutex lets one tick run.
Scheduled(r) ==
  /\ Quiescent(r, "scheduled")
  /\ \A s \in Requests : req[s].call # "scheduled"
  /\ \E p \in Profiles, ok \in Verdicts :
       /\ content' = [content EXCEPT ![p] = ok]
       /\ Enter(r, "scheduled", "check", p)
  /\ UNCHANGED <<activeId, active, bak, running, respawn, life, ghost>>

\* Mutant of CheckActive: the refreshed profile is applied in any case.
CheckActive_Always(r) ==
  /\ req[r].pc = "check"
  /\ Become(r, "set")
  /\ UNCHANGED <<store, running, respawn, life, ghost>>

\* applyActiveRefresh goes on only if the refreshed profile is active.
CheckActive(r) ==
  /\ req[r].pc = "check"
  /\ IF activeId = req[r].id THEN Become(r, "set")
                             ELSE req' = [req EXCEPT ![r] = Idle]
  /\ UNCHANGED <<store, running, respawn, life, ghost>>

\* POST kernel/rollback, refused when there is no snapshot.
Rollback(r) ==
  /\ Quiescent(r, "rollback")
  /\ CopyBack(r, FALSE)
  /\ Enter(r, "rollback", "restart", NoProfile)
  /\ UNCHANGED <<running, respawn, life>>

\* POST kernel/recover
Recover(r) ==
  /\ Quiescent(r, "recover")
  /\ ResetActive(r)
  /\ Enter(r, "recover", "restart", NoProfile)
  /\ UNCHANGED <<running, respawn, life>>

\* POST kernel/restart
Restart(r) ==
  /\ Quiescent(r, "restart")
  /\ Enter(r, "restart", "restart", NoProfile)
  /\ UNCHANGED <<store, running, respawn, life, ghost>>

\* The SetActive of safeActivate, which goes on to validate.
SetChosen(r) ==
  /\ req[r].pc = "set" /\ req[r].call = "activate"
  /\ SetActive(r, req[r].id, TRUE)
  /\ Become(r, "validate")
  /\ UNCHANGED <<running, respawn, life>>

\* The SetActive of a Save or a tick, which goes on to restart the kernel, but
\* for a Save of a section with restart = false.
SetSaved(r) ==
  /\ req[r].pc = "set" /\ req[r].call # "activate"
  /\ SetActive(r, req[r].id, FALSE)
  /\ \/ Become(r, "restart")
     \/ req[r].call = "save" /\ req' = [req EXCEPT ![r] = Idle]
  /\ UNCHANGED <<running, respawn, life>>

\* mihomo -t reads active.yaml, as it is by then.
Validate(r) ==
  /\ req[r].pc = "validate"
  /\ \/ active.ok /\ Become(r, "restart") /\ touched' = touched \ {r}
     \/ ~active.ok /\ Become(r, "undo") /\ UNCHANGED touched
  /\ UNCHANGED <<store, running, respawn, life, copied>>

\* Is there another profile to go back to?
GoesBack(r) == req[r].prev \notin {NoProfile, req[r].id}

\* Mutant of Undo: without another profile to go back to, nothing is done.
Undo_NoCopyBack(r) ==
  /\ req[r].pc = "undo"
  /\ \/ GoesBack(r) /\ SetActive(r, req[r].prev, FALSE)
     \/ ~GoesBack(r) /\ UNCHANGED <<store, ghost>>
  /\ req' = [req EXCEPT ![r] = Idle]
  /\ UNCHANGED <<running, respawn, life>>

\* Invalid: re-activate the profile noted before, or copy the snapshot back.
\* The snapshot is as good as what the activation found, unless another call
\* has written since.
Undo(r) ==
  /\ req[r].pc = "undo"
  /\ \/ GoesBack(r) /\ SetActive(r, req[r].prev, FALSE)
     \/ ~GoesBack(r) /\ CopyBack(r, bak.owed /\ r \notin touched)
  /\ req' = [req EXCEPT ![r] = Idle]
  /\ UNCHANGED <<running, respawn, life>>

-----------------------------------------------------------------------------
(* The supervisor *)

\* Restart got lifeMu: the kernel is stopped, a pending backoff cancelled.
BeginRestart(r) ==
  /\ req[r].pc = "restart"
  /\ life.holder = Nobody
  /\ life' = [holder |-> r, step |-> "read", read |-> Minimal]
  /\ running' = FALSE
  /\ respawn' = FALSE
  /\ Become(r, "wait")
  /\ UNCHANGED <<store, ghost>>

\* The backoff fired and its callback got lifeMu.
BeginRespawn ==
  /\ respawn
  /\ life.holder = Nobody
  /\ life' = [holder |-> Watchdog, step |-> "read", read |-> Minimal]
  /\ respawn' = FALSE
  /\ UNCHANGED <<store, running, req, ghost>>

\* injectClashConfig: read active.yaml ...
InjectRead ==
  /\ life.step = "read"
  /\ life' = [life EXCEPT !.step = "write", !.read = active]
  /\ UNCHANGED <<store, running, respawn, req, ghost>>

\* ... and write it with the managed header.
InjectWrite ==
  /\ life.step = "write"
  /\ IF active = life.read
       THEN UNCHANGED <<active, copied, touched>>
       ELSE /\ active' = Config(life.read.of, life.read.ok, FALSE)
            /\ copied' = TRUE
            /\ touched' = touched \cup {r \in Requests : Relying(r)}
  /\ life' = [life EXCEPT !.step = "spawn"]
  /\ UNCHANGED <<content, activeId, bak, running, respawn, req>>

\* The kernel starts; the call returns.
Spawn ==
  /\ life.step = "spawn"
  /\ running' = TRUE
  /\ life' = Free
  /\ req' = [r \in Requests |-> IF r = life.holder THEN Idle ELSE req[r]]
  /\ UNCHANGED <<store, respawn, ghost>>

\* The kernel dies; watchExit arms the backoff.
Crash ==
  /\ running
  /\ running' = FALSE
  /\ respawn' = TRUE
  /\ UNCHANGED <<store, req, life, ghost>>

-----------------------------------------------------------------------------
Handler(r) ==
  \/ Activate(r) \/ Save(r) \/ Scheduled(r) \/ Rollback(r) \/ Recover(r)
  \/ Restart(r)
  \/ CheckActive(r) \/ SetChosen(r) \/ SetSaved(r) \/ Validate(r) \/ Undo(r)
  \/ BeginRestart(r)

Supervisor == BeginRespawn \/ InjectRead \/ InjectWrite \/ Spawn \/ Crash

Next == Supervisor \/ Edit \/ \E r \in Requests : Handler(r)

Spec == Init /\ [][Next]_vars

-----------------------------------------------------------------------------
(* Properties *)

AtRest == life = Free /\ \A r \in Requests : req[r] = Idle

\* active.yaml is composed from the profile state.json names, with any
\* number of handlers, ticks, starts and crashes interleaved, but for two
\* causes: the snapshot was copied back, which restores the file and not the
\* id, or a start wrote back a file it had read before the last activation.
ActiveMatchesId ==
  active.of # activeId => copied

\* When all calls are through, a rejected configuration is in active.yaml only
\* if it was written by one of these and by nothing since: a Save or a
\* scheduled refresh, which validate nothing; a failed activation that went
\* back to the profile before, which it does not validate, so that the outcome
\* of an edit since, or of an earlier failed activation, comes back; a client's
\* Rollback, or the one of a failed activation whose snapshot another call had
\* replaced; a start that wrote back what it had read earlier.  Never does a
\* configuration that the validator rejected stay because of the order in which
\* activations, edits, recoveries, restarts and crashes came.
GoodAtRest ==
  AtRest /\ ~active.ok => ~active.owed

\* A call that writes state.json without a client having chosen a profile (a
\* Save, a scheduled refresh, a failed activation) finds there the profile it
\* looked at or put there: it undoes nobody's choice, unless another call wrote
\* the store's files while it was between its look and its write.
ChoiceKept ==
  \A r \in Requests \ touched : Relying(r) => activeId = req[r].id

=============================================================================
