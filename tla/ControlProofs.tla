--------------------------- MODULE ControlProofs ---------------------------
(* Proofs about Activation and Gateway: what the handlers of the control    *)
(* server do to the configuration, for any number of handlers and profiles, *)
(* and whom they let in, for any number of tabs, pages and passwords, any   *)
(* life of a session and any number of restarts.                            *)
EXTENDS Activation, Gateway, TLAPS

-----------------------------------------------------------------------------
(***************************************************************************)
(* Activation                                                              *)
(***************************************************************************)

\* A handler that is going to activate a profile has one.
Aimed ==
  \A r \in Requests :
    req[r].pc \in {"check", "set", "validate", "undo"} => req[r].id \in Profiles

\* While a configuration that an activation composed and the validator rejects
\* is in place, an activation is there to take it away; one that nobody has
\* interfered with finds it as it left it, and in the snapshot at worst another
\* activation's, which then is under way as well.
Debt ==
  /\ active.owed => \E s \in Requests : Judging(s)
  /\ \A r \in Requests \ touched :
       Judging(r) /\ bak # Absent /\ bak.owed =>
         active.ok \/ \E s \in Requests \ {r} : Judging(s)
  /\ \A r \in Requests \ touched : req[r].pc = "undo" => ~active.ok

\* The start under way on behalf of a handler is the one it waits for.
Waiting == \A r \in Requests : life.holder = r => req[r].pc = "wait"

IInv == TypeOK /\ Aimed /\ ActiveMatchesId /\ ChoiceKept /\ Debt

\* What Config makes is a configuration; only a rejected one is owed.
LEMMA ConfigTyped ==
  /\ Minimal \in Configs
  /\ Minimal.of = NoProfile /\ Minimal.ok = TRUE /\ Minimal.owed = FALSE
  /\ \A p \in Profiles \cup {NoProfile}, ok, owed \in BOOLEAN :
       /\ Config(p, ok, owed) \in Configs
       /\ Config(p, ok, owed).of = p
       /\ Config(p, ok, owed).ok = ok
       /\ Config(p, ok, owed).owed <=> owed /\ ~ok
  /\ \A c \in Configs :
       /\ c.of \in Profiles \cup {NoProfile}
       /\ c.ok \in BOOLEAN /\ c.owed \in BOOLEAN
       /\ c.owed => ~c.ok
<1>1. ASSUME NEW p \in Profiles \cup {NoProfile},
             NEW ok \in BOOLEAN, NEW owed \in BOOLEAN
      PROVE  /\ Config(p, ok, owed) \in Configs
             /\ Config(p, ok, owed).of = p
             /\ Config(p, ok, owed).ok = ok
             /\ Config(p, ok, owed).owed <=> owed /\ ~ok
  BY DEF Config, Configs
<1>2. ASSUME NEW c \in Configs
      PROVE  /\ c.of \in Profiles \cup {NoProfile}
             /\ c.ok \in BOOLEAN /\ c.owed \in BOOLEAN
             /\ c.owed => ~c.ok
  BY DEF Configs
<1>3. /\ Minimal \in Configs
      /\ Minimal.of = NoProfile /\ Minimal.ok = TRUE /\ Minimal.owed = FALSE
  BY DEF Minimal, Config, Configs
<1> QED
  BY <1>1, <1>2, <1>3

\* Every other handler stays where it is, and is noted as interfered with if
\* it relies on the files.
LEMMA Others ==
  ASSUME TypeOK, NEW r \in Requests, NEW p, req' = [req EXCEPT ![r] = p]
  PROVE  /\ req'[r] = p
         /\ \A s \in Requests \ {r} :
              /\ req'[s] = req[s]
              /\ Judging(s)' <=> Judging(s)
              /\ Relying(s)' <=> Relying(s)
<1>1. req'[r] = p /\ \A s \in Requests \ {r} : req'[s] = req[s]
  BY DEF TypeOK
<1> QED
  BY <1>1 DEF Judging, Relying

\* A handler's progress stays one, and keeps its aim.
LEMMA ProgressTyped ==
  ASSUME TypeOK, Aimed, NEW r \in Requests
  PROVE  /\ \A pc \in {"set", "validate", "undo", "restart", "wait"} :
              Become(r, pc) /\ (req[r].id \in Profiles \/ pc \in {"restart", "wait"})
                => /\ req' \in [Requests -> Progress] /\ Aimed'
                   /\ req'[r].pc = pc /\ req'[r].id = req[r].id
                   /\ req'[r].call = req[r].call
         /\ \A c \in Calls, pc \in {"check", "set", "restart"},
               p \in Profiles \cup {NoProfile} :
              Enter(r, c, pc, p) /\ (p \in Profiles \/ pc = "restart")
                => /\ req' \in [Requests -> Progress] /\ Aimed'
                   /\ req'[r].pc = pc /\ req'[r].id = p /\ req'[r].call = c
         /\ req' = [req EXCEPT ![r] = Idle]
              => /\ req' \in [Requests -> Progress] /\ Aimed'
                 /\ req'[r].pc = "idle"
<1>1. req \in [Requests -> Progress] /\ activeId \in Profiles \cup {NoProfile}
  BY DEF TypeOK
<1>2. ASSUME NEW pc \in {"set", "validate", "undo", "restart", "wait"},
             Become(r, pc), req[r].id \in Profiles \/ pc \in {"restart", "wait"}
      PROVE  /\ req' \in [Requests -> Progress] /\ Aimed'
             /\ req'[r].pc = pc /\ req'[r].id = req[r].id
             /\ req'[r].call = req[r].call
  <2>1. /\ [req[r] EXCEPT !.pc = pc] \in Progress
        /\ [req[r] EXCEPT !.pc = pc].pc = pc
        /\ [req[r] EXCEPT !.pc = pc].id = req[r].id
        /\ [req[r] EXCEPT !.pc = pc].call = req[r].call
    BY <1>1 DEF Progress
  <2> QED
    BY <1>1, <1>2, <2>1 DEF Become, Aimed
<1>3. ASSUME NEW c \in Calls, NEW pc \in {"check", "set", "restart"},
             NEW p \in Profiles \cup {NoProfile}, Enter(r, c, pc, p),
             p \in Profiles \/ pc = "restart"
      PROVE  /\ req' \in [Requests -> Progress] /\ Aimed'
             /\ req'[r].pc = pc /\ req'[r].id = p /\ req'[r].call = c
  <2>1. [pc |-> pc, call |-> c, id |-> p, prev |-> activeId] \in Progress
    BY <1>1 DEF Progress
  <2> QED
    BY <1>1, <1>3, <2>1 DEF Enter, Aimed
<1>4. ASSUME req' = [req EXCEPT ![r] = Idle]
      PROVE  /\ req' \in [Requests -> Progress] /\ Aimed'
             /\ req'[r].pc = "idle"
  <2>1. Idle \in Progress /\ Idle.pc = "idle"
    BY DEF Idle, Progress
  <2> QED
    BY <1>1, <1>4, <2>1 DEF Aimed
<1> QED
  BY <1>2, <1>3, <1>4

\* The calls of the store keep the types, keep file and id together or note
\* that they do not, and only SetActive for an activation composes what is owed.
LEMMA StoreCalls ==
  ASSUME TypeOK, NEW r \in Requests, NEW owed \in BOOLEAN
  PROVE  /\ \A p \in Profiles : SetActive(r, p, owed) =>
              /\ active' \in Configs /\ bak' = active
              /\ bak' \in Configs \cup {Absent}
              /\ active'.of = activeId' /\ activeId' = p
              /\ copied' \in BOOLEAN /\ touched' \subseteq Requests
              /\ active'.owed => owed
         /\ ResetActive(r) =>
              /\ active' \in Configs /\ bak' \in Configs \cup {Absent}
              /\ active'.of = activeId' /\ activeId' = NoProfile
              /\ copied' \in BOOLEAN /\ touched' \subseteq Requests
              /\ ~active'.owed
         /\ CopyBack(r, owed) =>
              /\ active' \in Configs
              /\ copied' = TRUE /\ touched' \subseteq Requests
              /\ active'.owed => owed
<1>1. ASSUME NEW p \in Profiles, SetActive(r, p, owed)
      PROVE  /\ active' \in Configs /\ bak' = active
             /\ bak' \in Configs \cup {Absent}
             /\ active'.of = activeId' /\ activeId' = p
             /\ copied' \in BOOLEAN /\ touched' \subseteq Requests
             /\ active'.owed => owed
  <2>1. content[p] \in BOOLEAN
    BY DEF TypeOK
  <2>2. /\ Config(p, content[p], owed) \in Configs
        /\ Config(p, content[p], owed).of = p
        /\ Config(p, content[p], owed).owed => owed
    BY <2>1, ConfigTyped
  <2>3. active' = Config(p, content[p], owed)
    BY <1>1 DEF SetActive
  <2> QED
    BY <1>1, <2>2, <2>3 DEF SetActive, TypeOK, Touch
<1>2. ASSUME ResetActive(r)
      PROVE  /\ active' \in Configs /\ bak' \in Configs \cup {Absent}
             /\ active'.of = activeId' /\ activeId' = NoProfile
             /\ copied' \in BOOLEAN /\ touched' \subseteq Requests
             /\ ~active'.owed
  BY <1>2, ConfigTyped DEF ResetActive, TypeOK, Touch
<1>3. ASSUME CopyBack(r, owed)
      PROVE  /\ active' \in Configs
             /\ copied' = TRUE /\ touched' \subseteq Requests
             /\ active'.owed => owed
  <2>1. bak \in Configs
    BY <1>3 DEF CopyBack, TypeOK
  <2>2. bak.of \in Profiles \cup {NoProfile} /\ bak.ok \in BOOLEAN
    BY <2>1, ConfigTyped
  <2>3. /\ Config(bak.of, bak.ok, owed) \in Configs
        /\ Config(bak.of, bak.ok, owed).owed => owed
    BY <2>2, ConfigTyped
  <2>4. active' = Config(bak.of, bak.ok, owed)
    BY <1>3 DEF CopyBack
  <2> QED
    BY <1>3, <2>3, <2>4 DEF CopyBack, Touch
<1> QED
  BY <1>1, <1>2, <1>3

-----------------------------------------------------------------------------
\* The boot leaves types, id and file in order, and no handler.
LEMMA InitInv == Init => IInv
<1> SUFFICES ASSUME Init PROVE IInv
  OBVIOUS
<1>1. content \in [Profiles -> BOOLEAN]
  BY ActivationAssumption DEF Init
<1>2. req \in [Requests -> Progress]
  BY DEF Init, Idle, Progress
<1>3. life \in Starting
  BY ConfigTyped DEF Init, Free, Starting
<1>4. TypeOK
  BY <1>1, <1>2, <1>3, ConfigTyped DEF Init, TypeOK
<1>5. \A r \in Requests : req[r].pc = "idle"
  BY DEF Init, Idle
<1>6. Aimed /\ ChoiceKept
  BY <1>5 DEF Aimed, ChoiceKept, Relying, Judging
<1>7. active.of = activeId /\ ~active.owed
  BY ConfigTyped DEF Init
<1>8. Debt
  BY <1>5, <1>7 DEF Debt, Judging
<1> QED
  BY <1>4, <1>6, <1>7, <1>8 DEF IInv, ActiveMatchesId

\* A step that leaves the files alone and takes no handler to or from the
\* steps at which it relies on them keeps what is said about them.
LEMMA Aside ==
  ASSUME IInv, TypeOK', Aimed', UNCHANGED <<activeId, active, bak, copied, touched>>,
         \A s \in Requests :
           \/ req'[s] = req[s]
           \/ req'[s].pc \in {"idle", "check", "restart", "wait"} /\ ~Judging(s)
           \/ req'[s].pc = "set" /\ ~Judging(s)
              /\ (req'[s].call = "activate" \/ req'[s].id = activeId)
  PROVE  IInv'
<1>1. \A s \in Requests : /\ Judging(s)' <=> Judging(s)
                          /\ req'[s].pc = "undo" <=> req[s].pc = "undo"
  BY DEF Judging
<1>2. ASSUME NEW r \in Requests \ touched, Relying(r)'
      PROVE  activeId = req'[r].id
  <2>1. CASE req'[r] = req[r]
    BY <1>2, <2>1 DEF IInv, ChoiceKept, Relying, Judging
  <2>2. CASE req'[r] # req[r]
    BY <1>2, <2>2 DEF Relying, Judging
  <2> QED
    BY <2>1, <2>2
<1>3. ChoiceKept'
  BY <1>2 DEF ChoiceKept
<1>4. Debt'
  BY <1>1 DEF IInv, Debt
<1> QED
  BY <1>3, <1>4 DEF IInv, ActiveMatchesId

\* After a write of the store's files by r nobody else can rely on them.
LEMMA NobodyElse ==
  ASSUME TypeOK, NEW r \in Requests, Touch(r),
         \A s \in Requests \ {r} : req'[s] = req[s]
  PROVE  \A s \in Requests \ touched' : Relying(s)' => s = r
<1>1. \A s \in Requests \ {r} : Relying(s)' <=> Relying(s)
  BY DEF Relying, Judging
<1> QED
  BY <1>1 DEF Touch

\* A write by a handler that is through with the files keeps what is said of
\* them, if it leaves nothing that is owed by nobody.
LEMMA Written ==
  ASSUME TypeOK, TypeOK', Aimed', ActiveMatchesId', NEW r \in Requests, Touch(r),
         \A s \in Requests \ {r} : req'[s] = req[s],
         ~Relying(r)',
         active'.owed => \E s \in Requests \ {r} : Judging(s)
  PROVE  IInv'
<1>1. \A s \in Requests \ touched' : ~Relying(s)'
  BY NobodyElse
<1>2. ChoiceKept'
  BY <1>1 DEF ChoiceKept
<1>3. \A s \in Requests \ {r} : Judging(s) => Judging(s)'
  BY DEF Judging
<1>4. \A s \in Requests \ touched' : ~Judging(s)' /\ req'[s].pc # "undo"
  BY <1>1 DEF Relying, Judging
<1>5. Debt'
  BY <1>3, <1>4 DEF Debt
<1> QED
  BY <1>2, <1>5 DEF IInv

\* The steps of a handler that leave the files alone.
LEMMA StepAside ==
  ASSUME IInv, NEW r \in Requests,
         \/ Activate(r) \/ Save(r) \/ Scheduled(r) \/ CheckActive(r) \/ Restart(r)
         \/ BeginRestart(r)
  PROVE  IInv'
<1> USE DEF store, ghost
<1>0. TypeOK /\ Aimed
  BY DEF IInv
<1>1. CASE Activate(r)
  <2>1. PICK p \in Profiles : Enter(r, "activate", "set", p)
    BY <1>1 DEF Activate
  <2>2. /\ req' \in [Requests -> Progress] /\ Aimed'
        /\ req'[r].pc = "set" /\ req'[r].call = "activate"
    BY <1>0, <1>1, <2>1, ProgressTyped DEF Activate, Quiescent
  <2>3. \A s \in Requests \ {r} : req'[s] = req[s]
    BY <1>0, <2>1, Others DEF Enter
  <2>4. TypeOK'
    BY <1>0, <1>1, <2>2 DEF Activate, TypeOK
  <2>5. ~Judging(r)
    BY <1>1 DEF Activate, Quiescent, Judging
  <2> QED
    BY <1>1, <2>2, <2>3, <2>4, <2>5, Aside DEF Activate
<1>2. CASE Save(r)
  <2>1. PICK ok \in Verdicts : content' = [content EXCEPT ![activeId] = ok]
    BY <1>2 DEF Save
  <2>2. content' \in [Profiles -> BOOLEAN]
    BY <1>0, <2>1, ActivationAssumption DEF TypeOK
  <2>3. activeId \in Profiles
    BY <1>0, <1>2 DEF Save, TypeOK
  <2>4. /\ req' \in [Requests -> Progress] /\ Aimed'
        /\ req'[r].pc = "set" /\ req'[r].id = activeId
    BY <1>0, <1>2, <2>3, ProgressTyped DEF Save, Quiescent
  <2>5. \A s \in Requests \ {r} : req'[s] = req[s]
    BY <1>0, <1>2, Others DEF Save, Enter
  <2>6. TypeOK'
    BY <1>0, <1>2, <2>2, <2>4 DEF Save, TypeOK
  <2>7. ~Judging(r)
    BY <1>2 DEF Save, Quiescent, Judging
  <2> QED
    BY <1>2, <2>4, <2>5, <2>6, <2>7, Aside DEF Save
<1>3. CASE Scheduled(r)
  <2>1. PICK p \in Profiles, ok \in Verdicts :
          /\ content' = [content EXCEPT ![p] = ok]
          /\ Enter(r, "scheduled", "check", p)
    BY <1>3 DEF Scheduled
  <2>2. content' \in [Profiles -> BOOLEAN]
    BY <1>0, <2>1, ActivationAssumption DEF TypeOK
  <2>3. req' \in [Requests -> Progress] /\ Aimed' /\ req'[r].pc = "check"
    BY <1>0, <1>3, <2>1, ProgressTyped DEF Scheduled, Quiescent
  <2>4. \A s \in Requests \ {r} : req'[s] = req[s]
    BY <1>0, <2>1, Others DEF Enter
  <2>5. TypeOK'
    BY <1>0, <1>3, <2>2, <2>3 DEF Scheduled, TypeOK
  <2>6. ~Judging(r)
    BY <1>3 DEF Scheduled, Quiescent, Judging
  <2> QED
    BY <1>3, <2>3, <2>4, <2>5, <2>6, Aside DEF Scheduled
<1>4. CASE CheckActive(r)
  <2>1. ~Judging(r) /\ req[r].id \in Profiles
    BY <1>0, <1>4 DEF CheckActive, Judging, Aimed
  <2>2. CASE activeId = req[r].id
    <3>1. /\ req' \in [Requests -> Progress] /\ Aimed'
          /\ req'[r].pc = "set" /\ req'[r].id = activeId
      BY <1>0, <1>4, <2>1, <2>2, ProgressTyped DEF CheckActive
    <3>2. \A s \in Requests \ {r} : req'[s] = req[s]
      BY <1>0, <1>4, <2>2, Others DEF CheckActive, Become
    <3>3. TypeOK'
      BY <1>0, <1>4, <3>1 DEF CheckActive, TypeOK
    <3> QED
      BY <1>4, <2>1, <3>1, <3>2, <3>3, Aside DEF CheckActive
  <2>3. CASE activeId # req[r].id
    <3>1. req' \in [Requests -> Progress] /\ Aimed' /\ req'[r].pc = "idle"
      BY <1>0, <1>4, <2>3, ProgressTyped DEF CheckActive
    <3>2. \A s \in Requests \ {r} : req'[s] = req[s]
      BY <1>0, <1>4, <2>3, Others DEF CheckActive
    <3>3. TypeOK'
      BY <1>0, <1>4, <3>1 DEF CheckActive, TypeOK
    <3> QED
      BY <1>4, <2>1, <3>1, <3>2, <3>3, Aside DEF CheckActive
  <2> QED
    BY <2>2, <2>3
<1>5. CASE Restart(r)
  <2>1. req' \in [Requests -> Progress] /\ Aimed' /\ req'[r].pc = "restart"
    BY <1>0, <1>5, ProgressTyped DEF Restart, Quiescent
  <2>2. \A s \in Requests \ {r} : req'[s] = req[s]
    BY <1>0, <1>5, Others DEF Restart, Enter
  <2>3. TypeOK'
    BY <1>0, <1>5, <2>1 DEF Restart, TypeOK
  <2>4. ~Judging(r)
    BY <1>5 DEF Restart, Quiescent, Judging
  <2> QED
    BY <1>5, <2>1, <2>2, <2>3, <2>4, Aside DEF Restart
<1>6. CASE BeginRestart(r)
  <2>1. req' \in [Requests -> Progress] /\ Aimed' /\ req'[r].pc = "wait"
    BY <1>0, <1>6, ProgressTyped DEF BeginRestart
  <2>2. \A s \in Requests \ {r} : req'[s] = req[s]
    BY <1>0, <1>6, Others DEF BeginRestart, Become
  <2>3. life' \in Starting
    BY <1>6, ConfigTyped DEF BeginRestart, Starting
  <2>4. TypeOK'
    BY <1>0, <1>6, <2>1, <2>3 DEF BeginRestart, TypeOK
  <2>5. ~Judging(r)
    BY <1>6 DEF BeginRestart, Judging
  <2> QED
    BY <1>6, <2>1, <2>2, <2>4, <2>5, Aside DEF BeginRestart
<1> QED
  BY <1>1, <1>2, <1>3, <1>4, <1>5, <1>6

\* The steps of a handler that write the files and are through with them.
LEMMA StepWrites ==
  ASSUME IInv, NEW r \in Requests, Rollback(r) \/ Recover(r) \/ SetSaved(r)
  PROVE  IInv'
<1>0. TypeOK /\ Aimed
  BY DEF IInv
<1>1. CASE Rollback(r)
  <2>1. req' \in [Requests -> Progress] /\ Aimed' /\ req'[r].pc = "restart"
    BY <1>0, <1>1, ProgressTyped DEF Rollback, Quiescent
  <2>2. \A s \in Requests \ {r} : req'[s] = req[s]
    BY <1>0, <1>1, Others DEF Rollback, Enter
  <2>3. /\ active' \in Configs /\ copied' = TRUE /\ touched' \subseteq Requests
        /\ ~active'.owed
    BY <1>0, <1>1, StoreCalls DEF Rollback
  <2>4. TypeOK' /\ ActiveMatchesId' /\ Touch(r)
    BY <1>0, <1>1, <2>1, <2>3 DEF Rollback, CopyBack, TypeOK, ActiveMatchesId
  <2>5. ~Relying(r)'
    BY <2>1 DEF Relying, Judging
  <2> QED
    BY <1>0, <2>1, <2>2, <2>3, <2>4, <2>5, Written
<1>2. CASE Recover(r)
  <2>1. req' \in [Requests -> Progress] /\ Aimed' /\ req'[r].pc = "restart"
    BY <1>0, <1>2, ProgressTyped DEF Recover, Quiescent
  <2>2. \A s \in Requests \ {r} : req'[s] = req[s]
    BY <1>0, <1>2, Others DEF Recover, Enter
  <2>3. ResetActive(r)
    BY <1>2 DEF Recover
  <2>4. /\ active' \in Configs /\ bak' \in Configs \cup {Absent}
        /\ active'.of = activeId' /\ activeId' = NoProfile
        /\ copied' \in BOOLEAN /\ touched' \subseteq Requests
        /\ ~active'.owed
    BY <1>0, <2>3, StoreCalls
  <2>5. TypeOK' /\ ActiveMatchesId' /\ Touch(r)
    BY <1>0, <1>2, <2>1, <2>3, <2>4
    DEF Recover, ResetActive, TypeOK, ActiveMatchesId
  <2>6. ~Relying(r)'
    BY <2>1 DEF Relying, Judging
  <2> QED
    BY <1>0, <2>1, <2>2, <2>4, <2>5, <2>6, Written
<1>3. CASE SetSaved(r)
  <2>1. req[r].id \in Profiles
    BY <1>0, <1>3 DEF SetSaved, Aimed
  <2>2. Become(r, "restart") \/ req' = [req EXCEPT ![r] = Idle]
    BY <1>3 DEF SetSaved
  <2>3. /\ req' \in [Requests -> Progress] /\ Aimed'
        /\ req'[r].pc \in {"restart", "idle"}
    <3>1. CASE Become(r, "restart")
      BY <1>0, <3>1, ProgressTyped
    <3>2. CASE req' = [req EXCEPT ![r] = Idle]
      BY <1>0, <3>2, ProgressTyped
    <3> QED
      BY <2>2, <3>1, <3>2
  <2>4. \A s \in Requests \ {r} : req'[s] = req[s]
    BY <1>0, <2>2, Others DEF Become
  <2>5. SetActive(r, req[r].id, FALSE)
    BY <1>3 DEF SetSaved
  <2>6. /\ active' \in Configs /\ bak' \in Configs \cup {Absent}
        /\ active'.of = activeId' /\ activeId' = req[r].id
        /\ copied' \in BOOLEAN /\ touched' \subseteq Requests
        /\ ~active'.owed
    BY <1>0, <2>1, <2>5, StoreCalls
  <2>7. TypeOK' /\ ActiveMatchesId' /\ Touch(r)
    BY <1>0, <1>3, <2>1, <2>3, <2>5, <2>6
    DEF SetSaved, SetActive, TypeOK, ActiveMatchesId
  <2>8. ~Relying(r)'
    BY <2>3 DEF Relying, Judging
  <2> QED
    BY <1>0, <2>3, <2>4, <2>6, <2>7, <2>8, Written
<1> QED
  BY <1>1, <1>2, <1>3

\* safeActivate composes: what it owes it is there to take away, and what it
\* finds in the snapshot is what was in place, owed by another if at all.
LEMMA StepSet ==
  ASSUME IInv, NEW r \in Requests, SetChosen(r)
  PROVE  IInv'
<1>0. TypeOK /\ Aimed /\ Debt
  BY DEF IInv
<1>1. req[r].id \in Profiles /\ SetActive(r, req[r].id, TRUE)
  BY <1>0 DEF SetChosen, Aimed
<1>2. /\ req' \in [Requests -> Progress] /\ Aimed'
      /\ req'[r].pc = "validate" /\ req'[r].id = req[r].id
  BY <1>0, <1>1, ProgressTyped DEF SetChosen
<1>3. \A s \in Requests \ {r} : req'[s] = req[s]
  BY <1>0, Others DEF SetChosen, Become
<1>4. /\ active' \in Configs /\ bak' = active /\ bak' \in Configs \cup {Absent}
      /\ active'.of = activeId' /\ activeId' = req[r].id
      /\ copied' \in BOOLEAN /\ touched' \subseteq Requests
  BY <1>0, <1>1, StoreCalls
<1>5. TypeOK' /\ ActiveMatchesId' /\ Touch(r)
  BY <1>0, <1>1, <1>2, <1>4 DEF SetChosen, SetActive, TypeOK, ActiveMatchesId
<1>6. \A s \in Requests \ touched' : Relying(s)' => s = r
  BY <1>0, <1>3, <1>5, NobodyElse
<1>7. ChoiceKept'
  BY <1>2, <1>4, <1>6 DEF ChoiceKept
<1>8. Judging(r)' /\ ~Judging(r) /\ req'[r].pc # "undo"
  BY <1>2 DEF Judging, SetChosen
<1>9. \A s \in Requests \ touched' : Judging(s)' \/ req'[s].pc = "undo" => s = r
  BY <1>6 DEF Relying, Judging
<1>10. \A s \in Requests \ {r} : Judging(s) => Judging(s)'
  BY <1>3 DEF Judging
<1>11. bak'.owed => \E s \in Requests \ {r} : Judging(s)'
  BY <1>0, <1>4, <1>8, <1>10 DEF Debt
<1>12. Debt'
  BY <1>8, <1>9, <1>11 DEF Debt
<1> QED
  BY <1>2, <1>5, <1>7, <1>12 DEF IInv

\* The verdict: a handler that goes on leaves nothing owed behind, since what
\* it has just seen is good.
LEMMA StepValidate ==
  ASSUME IInv, NEW r \in Requests, Validate(r)
  PROVE  IInv'
<1> USE DEF store
<1>0. TypeOK /\ Aimed /\ Debt /\ ChoiceKept /\ ActiveMatchesId
  BY DEF IInv
<1>1. active \in Configs /\ req[r].id \in Profiles /\ Judging(r)
  BY <1>0 DEF Validate, TypeOK, Aimed, Judging
<1>2. active.ok => ~active.owed
  BY <1>1, ConfigTyped
<1>3. CASE active.ok
  <2>1. /\ req' \in [Requests -> Progress] /\ Aimed' /\ req'[r].pc = "restart"
    BY <1>0, <1>3, ProgressTyped DEF Validate
  <2>2. \A s \in Requests \ {r} : req'[s] = req[s]
    BY <1>0, <1>3, Others DEF Validate, Become
  <2>3. touched' = touched \ {r} /\ UNCHANGED <<activeId, active, bak, copied>>
    BY <1>3 DEF Validate
  <2>4. TypeOK' /\ ActiveMatchesId'
    BY <1>0, <2>1, <2>3 DEF Validate, TypeOK, ActiveMatchesId
  <2>5. ~Relying(r)' /\ ~Judging(r)'
    BY <2>1 DEF Relying, Judging
  <2>6. \A s \in Requests \ {r} : /\ Relying(s)' <=> Relying(s)
                                  /\ Judging(s)' <=> Judging(s)
    BY <2>2 DEF Relying, Judging
  <2>7. ChoiceKept'
    BY <1>0, <2>2, <2>3, <2>5, <2>6 DEF ChoiceKept
  <2>8. \A s \in Requests \ touched' : req'[s].pc = "undo" => FALSE
    <3>1. ASSUME NEW s \in Requests \ touched', req'[s].pc = "undo" PROVE FALSE
      <4>1. s # r /\ s \notin touched /\ req[s].pc = "undo"
        BY <2>1, <2>2, <2>3, <3>1
      <4> QED
        BY <1>0, <1>3, <4>1 DEF Debt
    <3> QED
      BY <3>1
  <2>9. Debt'
    BY <1>2, <1>3, <2>3, <2>8 DEF Debt
  <2> QED
    BY <2>1, <2>4, <2>7, <2>9 DEF IInv
<1>4. CASE ~active.ok
  <2>1. /\ req' \in [Requests -> Progress] /\ Aimed'
        /\ req'[r].pc = "undo" /\ req'[r].id = req[r].id
    BY <1>0, <1>1, <1>4, ProgressTyped DEF Validate
  <2>2. \A s \in Requests \ {r} : req'[s] = req[s]
    BY <1>0, <1>4, Others DEF Validate, Become
  <2>3. UNCHANGED <<activeId, active, bak, copied, touched>>
    BY <1>4 DEF Validate
  <2>4. TypeOK' /\ ActiveMatchesId'
    BY <1>0, <2>1, <2>3 DEF Validate, TypeOK, ActiveMatchesId
  <2>5. \A s \in Requests : /\ Relying(s)' <=> Relying(s)
                            /\ Judging(s)' <=> Judging(s)
                            /\ req'[s].id = req[s].id
    BY <1>1, <2>1, <2>2 DEF Relying, Judging
  <2>6. ChoiceKept'
    BY <1>0, <2>3, <2>5 DEF ChoiceKept
  <2>7. Debt'
    BY <1>0, <1>4, <2>3, <2>5 DEF Debt
  <2> QED
    BY <2>1, <2>4, <2>6, <2>7 DEF IInv
<1> QED
  BY <1>3, <1>4

\* A failed activation goes back: what it copies from the snapshot is owed only
\* if another activation owes it.
LEMMA StepUndo ==
  ASSUME IInv, NEW r \in Requests, Undo(r)
  PROVE  IInv'
<1>0. TypeOK /\ Aimed /\ Debt
  BY DEF IInv
<1>1. /\ req' \in [Requests -> Progress] /\ Aimed' /\ req'[r].pc = "idle"
      /\ Judging(r) /\ req[r].pc = "undo"
  BY <1>0, ProgressTyped DEF Undo, Judging
<1>2. \A s \in Requests \ {r} : req'[s] = req[s]
  BY <1>0, Others DEF Undo
<1>3. ~Relying(r)'
  BY <1>1 DEF Relying, Judging
<1>4. CASE GoesBack(r) /\ SetActive(r, req[r].prev, FALSE)
  <2>1. req[r].prev \in Profiles
    BY <1>0, <1>4 DEF GoesBack, TypeOK, Progress
  <2>2. /\ active' \in Configs /\ bak' \in Configs \cup {Absent}
        /\ active'.of = activeId' /\ activeId' = req[r].prev
        /\ copied' \in BOOLEAN /\ touched' \subseteq Requests
        /\ ~active'.owed
    BY <1>0, <1>4, <2>1, StoreCalls
  <2>3. TypeOK' /\ ActiveMatchesId' /\ Touch(r)
    BY <1>0, <1>1, <1>4, <2>1, <2>2 DEF Undo, SetActive, TypeOK, ActiveMatchesId
  <2> QED
    BY <1>0, <1>1, <1>2, <1>3, <2>2, <2>3, Written
<1>5. CASE ~GoesBack(r) /\ CopyBack(r, bak.owed /\ r \notin touched)
  <2> DEFINE owed == bak.owed /\ r \notin touched
  <2>1. bak \in Configs
    BY <1>0, <1>5 DEF CopyBack, TypeOK
  <2>2. bak.owed \in BOOLEAN
    BY <2>1, ConfigTyped
  <2>3. owed \in BOOLEAN
    BY <2>2
  <2>4. CopyBack(r, owed)
    BY <1>5
  <2>5. /\ active' \in Configs /\ copied' = TRUE /\ touched' \subseteq Requests
        /\ active'.owed => owed
    <3> HIDE DEF owed
    <3> QED
      BY <1>0, <2>3, <2>4, StoreCalls
  <2>6. TypeOK' /\ ActiveMatchesId' /\ Touch(r)
    <3>1. UNCHANGED <<content, activeId, bak, running, respawn, life>> /\ Touch(r)
      BY <1>5 DEF Undo, CopyBack
    <3> QED
      BY <1>0, <1>1, <2>5, <3>1 DEF TypeOK, ActiveMatchesId
  <2>7. active'.owed => \E s \in Requests \ {r} : Judging(s)
    <3>1. bak # Absent
      BY <1>5 DEF CopyBack
    <3>2. r \notin touched => ~active.ok
      BY <1>0, <1>1 DEF Debt
    <3> QED
      BY <1>0, <1>1, <2>5, <3>1, <3>2 DEF Debt
  <2> QED
    BY <1>0, <1>1, <1>2, <1>3, <2>5, <2>6, <2>7, Written
<1> QED
  BY <1>4, <1>5 DEF Undo

\* The supervisor's steps and edits: a start that writes back what it had read
\* is noted by everybody who relies on the file.
LEMMA StepOutside ==
  ASSUME IInv, Waiting, Edit \/ Supervisor \/ UNCHANGED vars
  PROVE  IInv'
<1> USE DEF store, ghost
<1>0. TypeOK /\ Aimed /\ Debt /\ ChoiceKept /\ ActiveMatchesId
  BY DEF IInv
<1>1. CASE Edit
  <2>1. content' \in [Profiles -> BOOLEAN]
    BY <1>1, ActivationAssumption DEF Edit
  <2>2. TypeOK' /\ Aimed'
    BY <1>0, <1>1, <2>1 DEF Edit, TypeOK, Aimed
  <2> QED
    BY <1>1, <2>2, Aside DEF Edit
<1>2. CASE BeginRespawn
  <2>1. life' \in Starting
    BY <1>2, ConfigTyped DEF BeginRespawn, Starting
  <2>2. TypeOK' /\ Aimed'
    BY <1>0, <1>2, <2>1 DEF BeginRespawn, TypeOK, Aimed
  <2> QED
    BY <1>2, <2>2, Aside DEF BeginRespawn
<1>3. CASE InjectRead
  <2>1. life' \in Starting
    BY <1>0, <1>3 DEF InjectRead, Starting, TypeOK
  <2>2. TypeOK' /\ Aimed'
    BY <1>0, <1>3, <2>1 DEF InjectRead, TypeOK, Aimed
  <2> QED
    BY <1>3, <2>2, Aside DEF InjectRead
<1>4. CASE InjectWrite
  <2>1. life' \in Starting
    BY <1>0, <1>4 DEF InjectWrite, Starting, TypeOK
  <2>2. req' = req /\ UNCHANGED <<content, activeId, bak, running, respawn>>
    BY <1>4 DEF InjectWrite
  <2>3. CASE active = life.read
    <3>1. UNCHANGED <<active, copied, touched>>
      BY <1>4, <2>3 DEF InjectWrite
    <3>2. TypeOK' /\ Aimed'
      BY <1>0, <2>1, <2>2, <3>1 DEF TypeOK, Aimed
    <3> QED
      BY <2>2, <3>1, <3>2, Aside
  <2>4. CASE active # life.read
    <3>1. life.read \in Configs
      BY <1>0 DEF TypeOK, Starting
    <3>2. life.read.of \in Profiles \cup {NoProfile} /\ life.read.ok \in BOOLEAN
      BY <3>1, ConfigTyped
    <3>3. /\ active' = Config(life.read.of, life.read.ok, FALSE)
          /\ copied' = TRUE
          /\ touched' = touched \cup {r \in Requests : Relying(r)}
      BY <1>4, <2>4 DEF InjectWrite
    <3>4. active' \in Configs /\ ~active'.owed
      BY <3>2, <3>3, ConfigTyped
    <3>5. TypeOK' /\ Aimed' /\ ActiveMatchesId'
      BY <1>0, <2>1, <2>2, <3>3, <3>4 DEF TypeOK, Aimed, ActiveMatchesId
    <3>6. \A r \in Requests \ touched' : ~Relying(r)'
      BY <2>2, <3>3 DEF Relying, Judging
    <3>7. \A r \in Requests \ touched' : ~Judging(r)' /\ req'[r].pc # "undo"
      BY <3>6 DEF Relying, Judging
    <3>8. ChoiceKept'
      BY <3>6 DEF ChoiceKept
    <3>9. Debt'
      BY <3>4, <3>7 DEF Debt
    <3> QED
      BY <3>5, <3>8, <3>9 DEF IInv
  <2> QED
    BY <2>3, <2>4
<1>5. CASE Spawn
  <2>1. life' \in Starting
    BY <1>5, ConfigTyped DEF Spawn, Free, Starting
  <2>2. /\ req' \in [Requests -> Progress] /\ Aimed'
    BY <1>0, <1>5 DEF Spawn, TypeOK, Aimed, Idle, Progress
  <2>3. TypeOK'
    BY <1>0, <1>5, <2>1, <2>2 DEF Spawn, TypeOK
  <2>4. \A s \in Requests : \/ req'[s] = req[s]
                            \/ req'[s].pc = "idle" /\ ~Judging(s)
    BY <1>0, <1>5 DEF Spawn, Waiting, Judging, Idle, TypeOK
  <2> QED
    BY <1>5, <2>2, <2>3, <2>4, Aside DEF Spawn
<1>6. CASE Crash
  <2>1. TypeOK' /\ Aimed'
    BY <1>0, <1>6 DEF Crash, TypeOK, Aimed
  <2> QED
    BY <1>6, <2>1, Aside DEF Crash
<1>7. CASE UNCHANGED vars
  <2>1. TypeOK' /\ Aimed'
    BY <1>0, <1>7 DEF vars, TypeOK, Aimed
  <2> QED
    BY <1>7, <2>1, Aside DEF vars
<1> QED
  BY <1>1, <1>2, <1>3, <1>4, <1>5, <1>6, <1>7 DEF Supervisor

\* Nobody but the start itself ends the wait of the handler it runs for.
LEMMA StepWaiting == TypeOK /\ Waiting /\ [Next]_vars => Waiting'
<1> SUFFICES ASSUME TypeOK, Waiting, [Next]_vars PROVE Waiting'
  OBVIOUS
<1>1. ASSUME NEW r \in Requests, Handler(r) PROVE Waiting'
  <2>1. req[r].pc # "wait" /\ \E p : req' = [req EXCEPT ![r] = p]
    BY <1>1
    DEF Handler, Activate, Save, Scheduled, CheckActive, Rollback, Recover, Restart,
        SetChosen, SetSaved, Validate, Undo, BeginRestart, Quiescent, Become, Enter
  <2>2. \A s \in Requests \ {r} : req'[s] = req[s]
    BY <2>1 DEF TypeOK
  <2>3. CASE BeginRestart(r)
    <3>1. life'.holder = r /\ req'[r].pc = "wait"
      BY <2>3 DEF BeginRestart, Become, TypeOK, Progress
    <3> QED
      BY <2>2, <3>1 DEF Waiting
  <2>4. CASE ~BeginRestart(r)
    <3>1. life' = life
      BY <1>1, <2>4
      DEF Handler, Activate, Save, Scheduled, CheckActive, Rollback, Recover,
          Restart, SetChosen, SetSaved, Validate, Undo
    <3> QED
      BY <2>1, <2>2, <3>1 DEF Waiting
  <2> QED
    BY <2>3, <2>4
<1>2. CASE Spawn
  <2>1. life'.holder = Nobody
    BY <1>2 DEF Spawn, Free
  <2> QED
    BY <2>1, ActivationAssumption DEF Waiting
<1>3. CASE Edit \/ BeginRespawn \/ InjectRead \/ InjectWrite \/ Crash \/ UNCHANGED vars
  <2>1. req' = req
    BY <1>3 DEF Edit, BeginRespawn, InjectRead, InjectWrite, Crash, vars
  <2>2. life'.holder \in {life.holder, Watchdog}
    <3>1. CASE Edit \/ Crash \/ UNCHANGED vars
      BY <3>1 DEF Edit, Crash, vars
    <3>2. CASE BeginRespawn
      BY <3>2 DEF BeginRespawn
    <3>3. CASE InjectRead
      BY <3>3 DEF InjectRead, TypeOK, Starting
    <3>4. CASE InjectWrite
      BY <3>4 DEF InjectWrite, TypeOK, Starting
    <3> QED
      BY <1>3, <3>1, <3>2, <3>3, <3>4
  <2> QED
    BY <2>1, <2>2, ActivationAssumption DEF Waiting
<1> QED
  BY <1>1, <1>2, <1>3 DEF Next, Supervisor

LEMMA StepInv == IInv /\ Waiting /\ [Next]_vars => IInv' /\ Waiting'
<1> SUFFICES ASSUME IInv, Waiting, [Next]_vars PROVE IInv' /\ Waiting'
  OBVIOUS
<1>1. Waiting'
  BY StepWaiting DEF IInv
<1>2. ASSUME NEW r \in Requests, Handler(r) PROVE IInv'
  BY <1>2, StepAside, StepWrites, StepSet, StepValidate, StepUndo DEF Handler
<1>3. ASSUME Edit \/ Supervisor \/ UNCHANGED vars PROVE IInv'
  BY <1>3, StepOutside
<1>4. \/ \E r \in Requests : Handler(r)
      \/ Edit \/ Supervisor \/ UNCHANGED vars
  BY DEF Next
<1>5. IInv'
  BY <1>2, <1>3, <1>4, Zenon
<1> QED
  BY <1>1, <1>5

LEMMA Invariant == Spec => [](IInv /\ Waiting)
<1>1. Init => Waiting
  BY ActivationAssumption DEF Init, Free, Waiting
<1> QED
  BY <1>1, InitInv, StepInv, PTL DEF Spec

-----------------------------------------------------------------------------
\* Every variable keeps its type, whatever the calls.
THEOREM TypeCorrect == Spec => []TypeOK
<1>1. IInv => TypeOK
  BY DEF IInv
<1> QED
  BY <1>1, Invariant, PTL

\* File and id differ only after the snapshot was copied back or a start has
\* written back what it had read, for any number of handlers and any calls.
THEOREM FileMatchesId == Spec => []ActiveMatchesId
<1>1. IInv => ActiveMatchesId
  BY DEF IInv
<1> QED
  BY <1>1, Invariant, PTL

\* No rejected configuration stays that an activation has composed, for any
\* number of handlers and profiles, any calls and any edits.
THEOREM RejectedHasCause == Spec => []GoodAtRest
<1>1. IInv => GoodAtRest
  BY DEF IInv, Debt, GoodAtRest, AtRest, Judging, Idle
<1> QED
  BY <1>1, Invariant, PTL

\* Nobody's choice of a profile is undone by a call that was not interfered
\* with, for any number of handlers and any calls.
THEOREM ChoicesKept == Spec => []ChoiceKept
<1>1. IInv => ChoiceKept
  BY DEF IInv
<1> QED
  BY <1>1, Invariant, PTL

-----------------------------------------------------------------------------
(***************************************************************************)
(* Gateway                                                                 *)
(***************************************************************************)

Sessions == [key : Passwords, iat : Nat]
Places == Pages \cup {NoPage}

\* What an answer may set: nothing, the page to go back to, no session, or a
\* session and no page.
Cookies ==
  {NoCookies} \cup [next : Pages] \cup [session : {NoSession}]
    \cup [session : Sessions, next : {NoPage}]

BrowserRequests ==
  [kind : {"none", "page", "login", "logout"}, path : Places,
   foreign : BOOLEAN,
   session : Sessions \cup {NoSession}, next : Places,
   word : Passwords \cup {NoWord}, answered : BOOLEAN,
   status : {"ok", "redirected", "unauthorized"}, set : Cookies,
   member : BOOLEAN]

\* The module's types, and the shapes that access to fields takes for granted.
Shapes ==
  /\ now \in 0 .. MaxNow /\ starts \in 1 .. MaxStarts /\ up \in BOOLEAN
  /\ ~up => starts < MaxStarts
  /\ password \in Passwords /\ member \in 0 .. now \cup {NotIn}
  /\ jar.session # NoSession => jar.session.iat <= now
  /\ jar \in [session : Sessions \cup {NoSession}, next : Places]
  /\ page \in [Tabs -> {"dashboard", "login", "denied"}]
  /\ from \in [Tabs -> Places]
  /\ sent \in [Tabs -> BrowserRequests]

\* What is set depends on what was asked and answered.
Sets(r) ==
  /\ r.kind = "none" => r = NoRequest
  /\ r.status = "redirected" => r.kind = "page"
  /\ ~r.answered => r.status = "ok" /\ r.set = NoCookies
  /\ ~r.answered /\ r.kind = "page" => r.path \in Pages
  /\ r.answered =>
       CASE r.kind = "page" /\ r.status = "redirected" ->
              r.set \in [next : Pages]
         [] r.kind = "login" /\ r.status = "ok" ->
              /\ r.path \in Pages
              /\ r.set \in [session : Sessions, next : {NoPage}]
              /\ r.set.session.iat <= now
         [] r.kind = "logout" -> r.status = "ok" /\ r.set = [session |-> NoSession]
         [] OTHER -> r.set = NoCookies

\* The cookie of the page to go back to is the one of the tab that was turned
\* away last, and the login of that tab takes it along.
Leading ==
  \A t \in Tabs : from[t] # NoPage =>
    /\ jar.next = from[t]
    /\ sent[t].kind = "login" /\ ~sent[t].answered => sent[t].next = from[t]
    /\ sent[t].kind = "login" /\ sent[t].answered /\ sent[t].status = "ok"
         => sent[t].path = from[t]

\* Whoever is in has the cookie of that login, and no logout is on its way.
Inside ==
  member # NotIn =>
    /\ jar.session = [key |-> password, iat |-> member]
    /\ member <= now
    /\ \A t \in Tabs : sent[t].kind # "logout"

\* Time passes only between requests, and a server that goes down takes its
\* unanswered requests along: what was good when it was sent still is.
Carrying ==
  \A t \in Tabs : ~sent[t].answered =>
    /\ sent[t].member => /\ sent[t].kind = "page"
                        /\ validCookie(sent[t].session)
    /\ ~up => sent[t].kind = "none"

GInv ==
  /\ Shapes
  /\ \A t \in Tabs : Sets(sent[t])
  /\ Leading /\ Inside /\ Carrying

-----------------------------------------------------------------------------
(* What an answer's cookies make of the jar *)

LEMMA Merged ==
  ASSUME jar \in [session : Sessions \cup {NoSession}, next : Places],
         NEW s \in Cookies
  PROVE  /\ s = NoCookies => JarWith(s) = jar
         /\ s \in [next : Pages] =>
              JarWith(s) = [session |-> jar.session, next |-> s.next]
         /\ s \in [session : {NoSession}] =>
              JarWith(s) = [session |-> NoSession, next |-> jar.next]
         /\ s \in [session : Sessions, next : {NoPage}] =>
              JarWith(s) = [session |-> s.session, next |-> NoPage]
<1> USE DEF JarWith
<1>1. ASSUME s = NoCookies PROVE JarWith(s) = jar
  BY <1>1 DEF NoCookies
<1>2. ASSUME s \in [next : Pages]
      PROVE  JarWith(s) = [session |-> jar.session, next |-> s.next]
  BY <1>2
<1>3. ASSUME s \in [session : {NoSession}]
      PROVE  JarWith(s) = [session |-> NoSession, next |-> jar.next]
  BY <1>3
<1>4. ASSUME s \in [session : Sessions, next : {NoPage}]
      PROVE  JarWith(s) = [session |-> s.session, next |-> NoPage]
  BY <1>4
<1> QED
  BY <1>1, <1>2, <1>3, <1>4

-----------------------------------------------------------------------------
(* What is asked, and what is answered *)

LEMMA NobodyAsks ==
  /\ NoRequest \in BrowserRequests /\ Sets(NoRequest)
  /\ NoRequest.kind = "none" /\ NoRequest.status = "ok" /\ NoRequest.set = NoCookies
  /\ ~NoRequest.answered /\ ~NoRequest.member
<1>1. NoRequest \in BrowserRequests
  BY DEF NoRequest, BrowserRequests, Cookies, Places
<1>2. Sets(NoRequest)
  BY DEF NoRequest, Sets
<1> QED
  BY <1>1, <1>2 DEF NoRequest

LEMMA Asked ==
  ASSUME NEW p \in Pages, NEW link, NEW since, NEW c,
         c \in [session : Sessions \cup {NoSession}, next : Places]
  PROVE  LET r == Get("page", p, link, c, since)
         IN /\ r \in BrowserRequests /\ Sets(r)
            /\ r.kind = "page" /\ ~r.answered
            /\ r.member => IsIn(since) /\ r.session = c.session
<1> DEFINE r == Get("page", p, link, c, since)
           cookie == IF link \in OtherSite THEN NoSession ELSE c.session
<1>1. PICK m \in BOOLEAN : m = (IsIn(since) /\ link \notin OtherSite)
  OBVIOUS
<1>2. PICK f \in BOOLEAN : f = (link \in OtherOrigin)
  <2>1. (link \in OtherOrigin) \in BOOLEAN
    OBVIOUS
  <2> QED
    BY <2>1
<1>3. cookie \in Sessions \cup {NoSession} /\ (m => IsIn(since) /\ cookie = c.session)
  BY <1>1
<1>4. r = [NoRequest EXCEPT !.kind = "page", !.path = p, !.foreign = f,
                            !.session = cookie, !.member = m]
  BY <1>1, <1>2 DEF Get
<1> HIDE DEF cookie, r
<1>5. /\ r \in BrowserRequests
      /\ r.kind = "page" /\ r.session = cookie /\ r.path = p
      /\ r.status = "ok" /\ r.set = NoCookies
  BY <1>3, <1>4, NobodyAsks DEF BrowserRequests, Places
<1>6. r.answered = NoRequest.answered /\ r.member = m
  BY <1>4, NobodyAsks DEF BrowserRequests
<1>7. ~r.answered
  BY <1>6, NobodyAsks
<1>8. Sets(r)
  BY <1>5, <1>7 DEF Sets
<1>9. r.member => IsIn(since) /\ r.session = c.session
  BY <1>3, <1>5, <1>6
<1> QED
  BY <1>5, <1>7, <1>8, <1>9 DEF r

LEMMA HandledTyped ==
  ASSUME Shapes, NEW w \in Passwords \cup {NoWord}
  PROVE  LET r == [NoRequest EXCEPT !.kind = "login", !.next = jar.next, !.word = w]
         IN /\ r \in BrowserRequests /\ Sets(r)
            /\ r.kind = "login" /\ ~r.answered /\ ~r.member /\ r.next = jar.next
<1> DEFINE r == [NoRequest EXCEPT !.kind = "login", !.next = jar.next, !.word = w]
<1>1. /\ r \in BrowserRequests
      /\ r.kind = "login" /\ r.next = jar.next
      /\ r.status = "ok" /\ r.set = NoCookies
  BY NobodyAsks DEF BrowserRequests, Shapes
<1>2. r.answered = NoRequest.answered /\ r.member = NoRequest.member
  BY NobodyAsks DEF BrowserRequests
<1>3. ~r.answered /\ ~r.member
  BY <1>2, NobodyAsks
<1>4. Sets(r)
  BY <1>1, <1>3 DEF Sets
<1> QED
  BY <1>1, <1>3, <1>4

LEMMA LeavingRequest ==
  LET r == [NoRequest EXCEPT !.kind = "logout"]
  IN /\ r \in BrowserRequests /\ Sets(r)
     /\ r.kind = "logout" /\ ~r.answered /\ ~r.member
<1> DEFINE r == [NoRequest EXCEPT !.kind = "logout"]
<1>1. /\ r \in BrowserRequests
      /\ r.kind = "logout" /\ r.status = "ok" /\ r.set = NoCookies
  BY NobodyAsks DEF BrowserRequests
<1>2. r.answered = NoRequest.answered /\ r.member = NoRequest.member
  BY NobodyAsks DEF BrowserRequests
<1>3. ~r.answered /\ ~r.member
  BY <1>2, NobodyAsks
<1>4. Sets(r)
  BY <1>1, <1>3 DEF Sets
<1> QED
  BY <1>1, <1>3, <1>4

LEMMA Answered ==
  ASSUME NEW r \in BrowserRequests
  PROVE  LET h == AnswerTo(r)
         IN /\ h \in BrowserRequests /\ h.answered /\ h.kind = r.kind
            /\ h.status = r.status /\ h.set = r.set
            /\ r.kind = "login" => h.path = r.path
<1> DEFINE p == IF r.kind = "login" THEN r.path ELSE NoPage
           h == AnswerTo(r)
<1>1. p \in Places /\ (r.kind = "login" => p = r.path)
  BY DEF BrowserRequests, Places
<1>2. h = [NoRequest EXCEPT !.kind = r.kind, !.answered = TRUE, !.status = r.status,
                            !.path = p, !.set = r.set]
  BY DEF AnswerTo
<1> HIDE DEF p, h
<1>3. h \in BrowserRequests /\ h.answered
  BY <1>1, <1>2, NobodyAsks DEF BrowserRequests
<1>4. h.kind = r.kind /\ h.status = r.status /\ h.set = r.set /\ h.path = p
  BY <1>2, NobodyAsks DEF BrowserRequests
<1> QED
  BY <1>1, <1>3, <1>4 DEF h

LEMMA Handled ==
  ASSUME Shapes, NEW r \in BrowserRequests, Sets(r), r.kind # "none", ~r.answered
  PROVE  LET h == AnswerTo(handle(r))
         IN /\ h \in BrowserRequests /\ Sets(h)
            /\ h.answered /\ h.kind = r.kind
            /\ r.kind = "page" /\ validCookie(r.session) => h.status = "ok"
            /\ h.kind = "login" /\ h.status = "ok" => h.path = nextPath(r)
<1> DEFINE a == handle(r)
           h == AnswerTo(a)
<1>1. r.set = NoCookies /\ r.status = "ok"
  BY DEF Sets
<1>2. CASE r.kind = "page"
  <2>1. r.path \in Pages
    BY <1>2 DEF Sets
  <2>2. CASE isAuthenticated(r)
    <3>1. a = r
      BY <1>2, <2>2 DEF handle
    <3> HIDE DEF a
    <3>2. /\ h \in BrowserRequests /\ h.answered /\ h.kind = "page"
          /\ h.status = "ok" /\ h.set = NoCookies
      BY <1>1, <1>2, <3>1, Answered
    <3>3. Sets(h)
      BY <3>2 DEF Sets
    <3> HIDE DEF h
    <3> QED
      BY <1>2, <3>2, <3>3 DEF h, a
  <2>3. CASE ~isAuthenticated(r) /\ isSameOrigin(r)
    <3> DEFINE s == [next |-> r.path]
    <3>1. a = [r EXCEPT !.status = "redirected", !.set = s]
      BY <1>2, <2>3 DEF handle, turnAway
    <3>2. s \in Cookies /\ s \in [next : Pages]
      BY <2>1 DEF Cookies
    <3> HIDE DEF s, a
    <3>3. a \in BrowserRequests /\ a.kind = "page" /\ a.status = "redirected" /\ a.set = s
      BY <1>2, <3>1, <3>2 DEF BrowserRequests
    <3>4. /\ h \in BrowserRequests /\ h.answered /\ h.kind = "page"
          /\ h.status = "redirected" /\ h.set = s
      BY <3>3, Answered
    <3>5. Sets(h)
      BY <3>2, <3>4 DEF Sets
    <3> HIDE DEF h
    <3> QED
      BY <1>2, <2>3, <3>4, <3>5 DEF h, a, isAuthenticated
  <2>4. CASE ~isAuthenticated(r) /\ ~isSameOrigin(r)
    <3>1. a = [r EXCEPT !.status = "unauthorized"]
      BY <1>2, <2>4 DEF handle, turnAway
    <3> HIDE DEF a
    <3>2. /\ a \in BrowserRequests /\ a.kind = "page"
          /\ a.status = "unauthorized" /\ a.set = NoCookies
      BY <1>1, <1>2, <3>1 DEF BrowserRequests
    <3>3. /\ h \in BrowserRequests /\ h.answered /\ h.kind = "page"
          /\ h.status = "unauthorized" /\ h.set = NoCookies
      BY <3>2, Answered
    <3>4. Sets(h)
      BY <3>3 DEF Sets
    <3> HIDE DEF h
    <3> QED
      BY <1>2, <2>4, <3>3, <3>4 DEF h, a, isAuthenticated
  <2> QED
    BY <2>2, <2>3, <2>4
<1>3. CASE r.kind = "login"
  <2>1. CASE r.word # password
    <3>1. a = [r EXCEPT !.status = "unauthorized"]
      BY <1>3, <2>1 DEF handle, handleLogin
    <3> HIDE DEF a
    <3>2. /\ a \in BrowserRequests /\ a.kind = "login"
          /\ a.status = "unauthorized" /\ a.set = NoCookies
      BY <1>1, <1>3, <3>1 DEF BrowserRequests
    <3>3. /\ h \in BrowserRequests /\ h.answered /\ h.kind = "login"
          /\ h.status = "unauthorized" /\ h.set = NoCookies
      BY <3>2, Answered
    <3>4. Sets(h)
      BY <3>3 DEF Sets
    <3> HIDE DEF h
    <3> QED
      BY <1>3, <3>3, <3>4 DEF h, a
  <2>2. CASE r.word = password
    <3> DEFINE s == [session |-> issueCookie, next |-> NoPage]
    <3>1. a = [r EXCEPT !.path = nextPath(r), !.set = s]
      BY <1>3, <2>2 DEF handle, handleLogin
    <3>2. /\ s \in [session : Sessions, next : {NoPage}]
          /\ s.session.iat <= now
      BY DEF issueCookie, signingKey, Sessions, Shapes
    <3>3. nextPath(r) \in Pages
      BY GatewayAssumption DEF nextPath, BrowserRequests, Places
    <3>4. s \in Cookies /\ nextPath(r) \in Places
      BY <3>2, <3>3 DEF Cookies, Places
    <3> HIDE DEF s, a
    <3>5. /\ a \in BrowserRequests /\ a.kind = "login"
          /\ a.status = "ok" /\ a.set = s /\ a.path = nextPath(r)
      BY <1>1, <1>3, <3>1, <3>4 DEF BrowserRequests
    <3>6. /\ h \in BrowserRequests /\ h.answered /\ h.kind = "login"
          /\ h.status = "ok" /\ h.set = s /\ h.path = nextPath(r)
      BY <3>5, Answered
    <3>7. Sets(h)
      BY <3>2, <3>3, <3>6 DEF Sets
    <3> HIDE DEF h
    <3> QED
      BY <1>3, <3>6, <3>7 DEF h, a
  <2> QED
    BY <2>1, <2>2
<1>4. CASE r.kind = "logout"
  <2>1. a = [r EXCEPT !.set = [session |-> NoSession]]
    BY <1>4 DEF handle, handleLogout
  <2>2. [session |-> NoSession] \in Cookies
    BY DEF Cookies
  <2> HIDE DEF a
  <2>3. /\ a \in BrowserRequests /\ a.kind = "logout"
        /\ a.status = "ok" /\ a.set = [session |-> NoSession]
    BY <1>1, <1>4, <2>1, <2>2 DEF BrowserRequests
  <2>4. /\ h \in BrowserRequests /\ h.answered /\ h.kind = "logout"
        /\ h.status = "ok" /\ h.set = [session |-> NoSession]
    BY <2>3, Answered
  <2>5. Sets(h)
    BY <2>4 DEF Sets
  <2> HIDE DEF h
  <2> QED
    BY <1>4, <2>4, <2>5 DEF h, a
<1> QED
  BY <1>2, <1>3, <1>4 DEF BrowserRequests

-----------------------------------------------------------------------------
(* The steps *)

LEMMA GatewayInitInv == GatewayInit => GInv
<1> SUFFICES ASSUME GatewayInit PROVE GInv
  OBVIOUS
<1>1. Shapes
  BY NobodyAsks, GatewayAssumption DEF GatewayInit, Shapes, Places, NotIn
<1>2. \A t \in Tabs : sent[t] = NoRequest /\ from[t] = NoPage
  BY DEF GatewayInit
<1>3. member = NotIn
  BY DEF GatewayInit
<1> QED
  BY <1>1, <1>2, <1>3, NobodyAsks DEF GInv, Leading, Inside, Carrying

\* One request is sent, or answered, and the browser has not changed.
LEMMA Exchange ==
  ASSUME GInv, NEW t \in Tabs, NEW r \in BrowserRequests, Sets(r),
         UNCHANGED <<now, server, jar, page, from>>,
         sent' = [sent EXCEPT ![t] = r],
         member' = member \/ member' = NotIn,
         r.kind = "logout" => member' = NotIn,
         r.kind = "login" /\ from[t] # NoPage =>
           /\ ~r.answered => r.next = from[t]
           /\ r.answered /\ r.status = "ok" => r.path = from[t],
         ~r.answered => /\ r.member => r.kind = "page" /\ validCookie(r.session)
                        /\ ~up => r.kind = "none"
  PROVE  GInv'
<1> USE DEF GInv
<1>1. /\ sent' \in [Tabs -> BrowserRequests] /\ sent'[t] = r
      /\ \A u \in Tabs \ {t} : sent'[u] = sent[u]
  BY DEF Shapes
<1>2. Shapes'
  BY <1>1 DEF Shapes, server
<1>3. ASSUME NEW u \in Tabs PROVE Sets(sent[u])'
  <2>1. Sets(sent'[u])
    BY <1>1
  <2>2. now' = now
    OBVIOUS
  <2> QED
    BY <2>1, <2>2 DEF Sets
<1>4. Leading'
  BY <1>1 DEF Leading
<1>5. Inside'
  BY <1>1 DEF Inside, server
<1>6. Carrying'
  BY <1>1 DEF Carrying, validCookie, signingKey, server
<1> QED
  BY <1>2, <1>3, <1>4, <1>5, <1>6

\* Who is in has a good cookie.
LEMMA InsideCookie ==
  ASSUME GInv, IsIn(member)
  PROVE  validCookie(jar.session)
<1>1. jar.session = [key |-> password, iat |-> member] /\ member \in Nat
  BY DEF IsIn, GInv, Inside, Shapes, NotIn
<1>2. [key |-> password, iat |-> member] \in [key : Passwords, iat : Nat]
  BY <1>1 DEF GInv, Shapes
<1>3. jar.session # NoSession
  BY <1>1, <1>2, GatewayAssumption
<1> QED
  BY <1>1, <1>3 DEF IsIn, validCookie, signingKey

LEMMA NavigateStep ==
  ASSUME GInv, NEW t \in Tabs, NEW p \in Pages, NEW link \in Links,
         Navigate(t, p, link)
  PROVE  GInv'
<1> DEFINE r == Get("page", p, link, jar, member)
<1>1. jar \in [session : Sessions \cup {NoSession}, next : Places]
  BY DEF GInv, Shapes
<1>2. /\ r \in BrowserRequests /\ Sets(r)
      /\ r.kind = "page" /\ ~r.answered
      /\ r.member => IsIn(member) /\ r.session = jar.session
  BY <1>1, Asked
<1>3. r.member => validCookie(r.session)
  BY <1>2, InsideCookie
<1>4. up /\ sent' = [sent EXCEPT ![t] = r] /\ member' = member
      /\ UNCHANGED <<now, server, jar, page, from>>
  BY DEF Navigate, Send
<1> HIDE DEF r
<1> QED
  BY <1>2, <1>3, <1>4, Exchange

LEMMA SubmitStep ==
  ASSUME GInv, NEW t \in Tabs, NEW typed \in Passwords, NEW whole \in BOOLEAN,
         Submit(t, typed, whole)
  PROVE  GInv'
<1> DEFINE w == extractJSONStringField(typed, whole)
           r == [NoRequest EXCEPT !.kind = "login", !.next = jar.next, !.word = w]
<1>1. w \in Passwords \cup {NoWord}
  BY DEF extractJSONStringField
<1>2. /\ r \in BrowserRequests /\ Sets(r)
      /\ r.kind = "login" /\ ~r.answered /\ ~r.member /\ r.next = jar.next
  BY <1>1, HandledTyped DEF GInv
<1>3. up /\ sent' = [sent EXCEPT ![t] = r] /\ member' = member
      /\ UNCHANGED <<now, server, jar, page, from>>
  BY DEF Submit, Send
<1>4. from[t] # NoPage => r.next = from[t]
  BY <1>2 DEF GInv, Leading
<1> HIDE DEF r
<1> QED
  BY <1>2, <1>3, <1>4, Exchange

LEMMA LogoutStep ==
  ASSUME GInv, NEW t \in Tabs, Logout(t)
  PROVE  GInv'
<1> DEFINE r == [NoRequest EXCEPT !.kind = "logout"]
<1>1. /\ r \in BrowserRequests /\ Sets(r)
      /\ r.kind = "logout" /\ ~r.answered /\ ~r.member
  BY LeavingRequest
<1>2. up /\ sent' = [sent EXCEPT ![t] = r] /\ member' = NotIn
      /\ UNCHANGED <<now, server, jar, page, from>>
  BY DEF Logout, Send
<1> HIDE DEF r
<1> QED
  BY <1>1, <1>2, Exchange

LEMMA AnswerStep ==
  ASSUME GInv, NEW t \in Tabs, Answer(t)
  PROVE  GInv'
<1> DEFINE r == sent[t]
           h == AnswerTo(handle(r))
<1>1. /\ r \in BrowserRequests /\ Sets(r) /\ r.kind # "none" /\ ~r.answered
      /\ Shapes
  BY DEF GInv, Shapes, Answer
<1>2. /\ h \in BrowserRequests /\ Sets(h)
      /\ h.answered /\ h.kind = r.kind
      /\ h.kind = "login" /\ h.status = "ok" => h.path = nextPath(r)
  BY <1>1, Handled
<1>3. sent' = [sent EXCEPT ![t] = h] /\ member' = member
      /\ UNCHANGED <<now, server, jar, page, from>>
  BY DEF Answer
<1>4. h.kind = "logout" => member' = NotIn
  BY <1>2, <1>3 DEF GInv, Inside
<1>5. h.kind = "login" /\ from[t] # NoPage =>
        /\ ~h.answered => h.next = from[t]
        /\ h.answered /\ h.status = "ok" => h.path = from[t]
  <2> HIDE DEF h
  <2>1. r.kind = "login" /\ from[t] # NoPage => nextPath(r) = from[t]
    BY <1>1 DEF GInv, Leading, nextPath
  <2> QED
    BY <1>2, <2>1
<1> HIDE DEF h
<1> QED
  BY <1>2, <1>3, <1>4, <1>5, Exchange

LEMMA FetchStep ==
  ASSUME GInv, Fetch
  PROVE  GInv'
<1> DEFINE r == Get("asset", Favicon, "own", jar, member)
<1>1. r.kind = "asset" /\ r.set = NoCookies
  BY DEF Get, NoRequest
<1>2. handle(r).set = NoCookies
  <2>1. handle(r) = r \/ handle(r) = [r EXCEPT !.status = "unauthorized"]
    BY <1>1 DEF handle, turnAway
  <2>2. [r EXCEPT !.status = "unauthorized"].set = r.set
    BY DEF Get, NoRequest
  <2> QED
    BY <1>1, <2>1, <2>2
<1>3. NoCookies \in Cookies
  BY DEF Cookies
<1>4. jar' = jar
  BY <1>2, <1>3, Merged DEF Fetch, GInv, Shapes
<1>5. UNCHANGED gatewayVars
  BY <1>4 DEF Fetch, gatewayVars
<1> QED
  BY <1>5 DEF gatewayVars, server, GInv, Shapes, Sets, Leading, Inside, Carrying,
              validCookie, signingKey

LEMMA StopStep ==
  ASSUME GInv, Stop
  PROVE  GInv'
<1> USE DEF GInv
<1>1. /\ UNCHANGED <<now, password, starts, jar, page, from, member>>
      /\ up' = FALSE /\ starts < MaxStarts
      /\ sent' = [t \in Tabs |-> IF sent[t].answered THEN sent[t] ELSE NoRequest]
  BY DEF Stop
<1>2. ASSUME NEW t \in Tabs
      PROVE  /\ sent'[t] \in BrowserRequests /\ Sets(sent'[t])
             /\ (sent'[t] = sent[t] /\ sent[t].answered) \/ sent'[t] = NoRequest
  BY <1>1, NobodyAsks DEF Shapes
<1>3. Shapes'
  <2>1. sent' \in [Tabs -> BrowserRequests]
    BY <1>1, <1>2
  <2> QED
    BY <1>1, <2>1 DEF Shapes
<1>4. ASSUME NEW t \in Tabs PROVE Sets(sent[t])'
  BY <1>1, <1>2 DEF Sets
<1>5. Leading'
  BY <1>1, <1>2, NobodyAsks DEF Leading
<1>6. Inside'
  BY <1>1, <1>2, NobodyAsks DEF Inside
<1>7. Carrying'
  BY <1>1, <1>2, NobodyAsks DEF Carrying
<1> QED
  BY <1>3, <1>4, <1>5, <1>6, <1>7

LEMMA StartStep ==
  ASSUME GInv, NEW token \in Passwords, Start(token)
  PROVE  GInv'
<1> USE DEF GInv
<1>1. /\ ~up /\ up' = TRUE /\ password' = token /\ starts' = starts + 1
      /\ member' = IF token = password THEN member ELSE NotIn
      /\ UNCHANGED <<now, jar, page, sent, from>>
  BY DEF Start
<1>2. Shapes'
  BY <1>1, GatewayAssumption DEF Shapes
<1>3. \A t \in Tabs : Sets(sent[t])'
  BY <1>1 DEF Sets
<1>4. Leading'
  BY <1>1 DEF Leading
<1>5. Inside'
  BY <1>1 DEF Inside
<1>6. Carrying'
  <2>1. ASSUME NEW t \in Tabs, ~sent[t].answered PROVE ~sent[t].member
    BY <1>1, <2>1, NobodyAsks DEF Carrying, Sets
  <2> QED
    BY <1>1, <2>1 DEF Carrying
<1> QED
  BY <1>2, <1>3, <1>4, <1>5, <1>6

LEMMA TickStep ==
  ASSUME GInv, Tick
  PROVE  GInv'
<1> USE DEF GInv
<1>1. /\ now < MaxNow /\ now' = now + 1
      /\ \A t \in Tabs : sent[t] = NoRequest
      /\ jar' = [jar EXCEPT !.next = NoPage]
      /\ from' = [t \in Tabs |-> NoPage]
      /\ UNCHANGED <<server, page, sent, member>>
  BY DEF Tick
<1>2. jar'.session = jar.session
  BY <1>1 DEF Shapes
<1>3. Shapes'
  BY <1>1, <1>2, GatewayAssumption DEF Shapes, server, Places, Sessions
<1>4. \A t \in Tabs : Sets(sent[t])'
  BY <1>1, NobodyAsks DEF Sets
<1>5. Leading'
  BY <1>1 DEF Leading
<1>6. Inside'
  BY <1>1, <1>2 DEF Inside, server, Shapes
<1>7. Carrying'
  BY <1>1, NobodyAsks DEF Carrying
<1> QED
  BY <1>3, <1>4, <1>5, <1>6, <1>7

LEMMA DeliverStep ==
  ASSUME GInv, NEW t \in Tabs, Deliver(t)
  PROVE  GInv'
<1> USE DEF GInv
<1> DEFINE r == sent[t]
<1>1. /\ r \in BrowserRequests /\ Sets(r) /\ r.answered /\ r.set \in Cookies
      /\ jar' = JarWith(r.set) /\ UNCHANGED <<now, server>>
  BY DEF Deliver, Shapes, BrowserRequests
<1>2. jar \in [session : Sessions \cup {NoSession}, next : Places]
  BY DEF Shapes
<1>3. r.kind # "none"
  BY <1>1, NobodyAsks DEF Sets
\* What the answers have in common, given what becomes of the request.
<1>4. ASSUME NEW n \in BrowserRequests, Sets(n), sent' = [sent EXCEPT ![t] = n],
             n.kind \in {"none", "page"},
             ~n.answered => /\ n.member => n.kind = "page" /\ validCookie(n.session)
                            /\ ~up => n.kind = "none"
      PROVE  /\ sent' \in [Tabs -> BrowserRequests] /\ sent'[t] = n
             /\ \A u \in Tabs \ {t} : sent'[u] = sent[u]
             /\ \A u \in Tabs : Sets(sent[u])'
             /\ Carrying'
  <2>1. /\ sent' \in [Tabs -> BrowserRequests] /\ sent'[t] = n
        /\ \A u \in Tabs \ {t} : sent'[u] = sent[u]
    BY <1>4 DEF Shapes
  <2>2. ASSUME NEW u \in Tabs PROVE Sets(sent[u])'
    <3>1. Sets(sent'[u]) /\ now' = now
      BY <1>1, <1>4, <2>1
    <3> QED
      BY <3>1 DEF Sets
  <2>3. Carrying'
    BY <1>1, <1>4, <2>1 DEF Carrying, validCookie, signingKey, server
  <2> QED
    BY <2>1, <2>2, <2>3
<1>5. CASE r.status = "redirected"
  <2>1. r.kind = "page" /\ r.set \in [next : Pages] /\ r.set.next \in Pages
    BY <1>1, <1>3, <1>5 DEF Sets, BrowserRequests
  <2>2. jar' = [session |-> jar.session, next |-> r.set.next]
    BY <1>1, <1>2, <2>1, Merged
  <2>3. /\ page' = [page EXCEPT ![t] = "login"]
        /\ from' = [u \in Tabs |-> IF u = t THEN r.set.next ELSE NoPage]
        /\ sent' = [sent EXCEPT ![t] = NoRequest]
        /\ member' = member
    BY <1>5 DEF Deliver, Turned
  <2>4. /\ sent' \in [Tabs -> BrowserRequests] /\ sent'[t] = NoRequest
        /\ \A u \in Tabs \ {t} : sent'[u] = sent[u]
        /\ \A u \in Tabs : Sets(sent[u])'
        /\ Carrying'
    BY <1>4, <2>3, NobodyAsks
  <2>5. Shapes'
    BY <1>1, <2>1, <2>2, <2>3, <2>4 DEF Shapes, server, Places
  <2>6. Leading'
    BY <2>2, <2>3, <2>4, NobodyAsks DEF Leading, Shapes
  <2>7. Inside'
    BY <1>1, <2>2, <2>3, <2>4, NobodyAsks DEF Inside, server
  <2> QED
    BY <2>4, <2>5, <2>6, <2>7
<1>6. CASE r.kind = "login" /\ r.status = "ok"
  <2> DEFINE s == r.set.session
             lasting == s.key = password /\ \A u \in Tabs : sent[u].kind # "logout"
             n == IF up THEN Get("page", r.path, "own", jar', member') ELSE NoRequest
  <2>1. /\ r.path \in Pages
        /\ r.set \in [session : Sessions, next : {NoPage}]
        /\ s \in Sessions /\ s.iat <= now
    BY <1>1, <1>6 DEF Sets
  <2>2. jar' = [session |-> s, next |-> NoPage]
    BY <1>1, <1>2, <2>1, Merged
  <2>3. /\ member' = IF lasting THEN s.iat ELSE NotIn
        /\ sent' = [sent EXCEPT ![t] = n]
        /\ from' = [u \in Tabs |-> NoPage]
        /\ page' = page
    BY <1>6 DEF Deliver, LoggedIn
  <2>4. jar' \in [session : Sessions \cup {NoSession}, next : Places]
    BY <2>1, <2>2 DEF Places
  <2>5. ASSUME IsIn(member') PROVE validCookie(jar'.session)
    <3>1. s.key = password /\ member' = s.iat
      BY <2>3, <2>5 DEF IsIn
    <3>2. s # NoSession
      BY <2>1, GatewayAssumption DEF Sessions
    <3> QED
      BY <2>2, <2>5, <3>1, <3>2 DEF IsIn, validCookie, signingKey
  <2>6. /\ n \in BrowserRequests /\ Sets(n) /\ n.kind \in {"none", "page"}
        /\ ~n.answered => /\ n.member => n.kind = "page" /\ validCookie(n.session)
                          /\ ~up => n.kind = "none"
    <3>1. CASE up
      <4> DEFINE g == Get("page", r.path, "own", jar', member')
      <4>1. /\ g \in BrowserRequests /\ Sets(g)
            /\ g.kind = "page" /\ ~g.answered
            /\ g.member => IsIn(member') /\ g.session = jar'.session
        BY <2>1, <2>4, Asked
      <4>2. n = g
        BY <3>1
      <4> HIDE DEF g, n
      <4> QED
        BY <2>5, <3>1, <4>1, <4>2
    <3>2. CASE ~up
      BY <3>2, NobodyAsks
    <3> QED
      BY <3>1, <3>2
  <2> HIDE DEF n
  <2>7. /\ sent' \in [Tabs -> BrowserRequests] /\ sent'[t] = n
        /\ \A u \in Tabs \ {t} : sent'[u] = sent[u]
        /\ \A u \in Tabs : Sets(sent[u])'
        /\ Carrying'
    BY <1>4, <2>3, <2>6
  <2>8. Shapes'
    <3>1. member' \in 0 .. now \cup {NotIn}
      BY <2>1, <2>3 DEF Sessions, Shapes
    <3> QED
      BY <1>1, <2>1, <2>2, <2>3, <2>4, <2>7, <3>1 DEF Shapes, server, Places
  <2>9. Leading'
    BY <2>3 DEF Leading
  <2>10. Inside'
    <3>1. CASE lasting
      <4>1. jar'.session = [key |-> password, iat |-> member']
        BY <2>1, <2>2, <2>3, <3>1 DEF Sessions
      <4>2. \A u \in Tabs : sent'[u].kind # "logout"
        BY <2>6, <2>7, <3>1
      <4> QED
        BY <1>1, <2>1, <2>3, <3>1, <4>1, <4>2 DEF Inside, server
    <3>2. CASE ~lasting
      BY <2>3, <3>2 DEF Inside
    <3> QED
      BY <3>1, <3>2
  <2> QED
    BY <2>7, <2>8, <2>9, <2>10
<1>7. CASE r.status # "redirected" /\ ~(r.kind = "login" /\ r.status = "ok")
  <2>1. /\ page' = IF r.kind = "page" THEN [page EXCEPT ![t] = Shown(r)] ELSE page
        /\ sent' = [sent EXCEPT ![t] = NoRequest]
        /\ UNCHANGED <<from, member>>
    BY <1>7 DEF Deliver, Other
  <2>2. /\ sent' \in [Tabs -> BrowserRequests] /\ sent'[t] = NoRequest
        /\ \A u \in Tabs \ {t} : sent'[u] = sent[u]
        /\ \A u \in Tabs : Sets(sent[u])'
        /\ Carrying'
    BY <1>4, <2>1, NobodyAsks
  <2>3. CASE r.kind = "logout"
    <3>1. r.set = [session |-> NoSession]
      BY <1>1, <2>3 DEF Sets
    <3>2. jar' = [session |-> NoSession, next |-> jar.next]
      BY <1>1, <1>2, <3>1, Merged
    <3>3. member = NotIn
      BY <2>3 DEF Inside
    <3>4. Shapes'
      BY <1>1, <2>1, <2>2, <2>3, <3>2 DEF Shapes, server
    <3>5. Leading'
      BY <2>1, <2>2, <3>2, NobodyAsks DEF Leading
    <3>6. Inside'
      BY <2>1, <3>3 DEF Inside
    <3> QED
      BY <2>2, <3>4, <3>5, <3>6
  <2>4. CASE r.kind # "logout"
    <3>1. r.set = NoCookies
      BY <1>1, <1>3, <1>7, <2>4 DEF Sets
    <3>2. jar' = jar
      BY <1>1, <1>2, <3>1, Merged
    <3>3. Shown(r) \in {"dashboard", "login", "denied"}
      BY DEF Shown
    <3>4. Shapes'
      BY <1>1, <2>1, <2>2, <3>2, <3>3 DEF Shapes, server
    <3>5. Leading'
      BY <2>1, <2>2, <3>2, NobodyAsks DEF Leading
    <3>6. Inside'
      BY <1>1, <2>1, <2>2, <3>2, NobodyAsks DEF Inside, server
    <3> QED
      BY <2>2, <3>4, <3>5, <3>6
  <2> QED
    BY <2>3, <2>4
<1> QED
  BY <1>5, <1>6, <1>7

LEMMA GatewayStepInv == GInv /\ [GatewayNext]_gatewayVars => GInv'
<1> SUFFICES ASSUME GInv, [GatewayNext]_gatewayVars PROVE GInv'
  OBVIOUS
<1>1. ASSUME UNCHANGED gatewayVars PROVE GInv'
  BY <1>1 DEF gatewayVars, server, GInv, Shapes, Sets, Leading, Inside, Carrying,
              validCookie, signingKey
<1>2. ASSUME NEW t \in Tabs, NEW p \in Pages, NEW link \in Links,
             Navigate(t, p, link)
      PROVE  GInv'
  BY <1>2, NavigateStep
<1>3. ASSUME NEW t \in Tabs, NEW typed \in Passwords, NEW whole \in BOOLEAN,
             Submit(t, typed, whole)
      PROVE  GInv'
  BY <1>3, SubmitStep
<1>4. ASSUME NEW t \in Tabs, Logout(t) \/ Answer(t) \/ Deliver(t) PROVE GInv'
  BY <1>4, LogoutStep, AnswerStep, DeliverStep
<1>5. ASSUME Fetch \/ Stop \/ Tick PROVE GInv'
  BY <1>5, FetchStep, StopStep, TickStep
<1>6. ASSUME NEW token \in Passwords, Start(token) PROVE GInv'
  BY <1>6, StartStep
<1> QED
  BY <1>1, <1>2, <1>3, <1>4, <1>5, <1>6 DEF GatewayNext

LEMMA GatewayInvariance == GatewaySpec => []GInv
  BY GatewayInitInv, GatewayStepInv, PTL DEF GatewaySpec

-----------------------------------------------------------------------------
\* Jar, tabs and requests keep their types: only a navigation is ever redirected,
\* no cookie is from the future (auth.go 145-163, 340-364).
THEOREM GatewayTypes == GatewaySpec => []GatewayTypeOK
<1>1. GInv => GatewayTypeOK
  <2> SUFFICES ASSUME GInv PROVE GatewayTypeOK
    OBVIOUS
  <2>1. jar.session \in [key : Passwords, iat : 0 .. now] \cup {NoSession}
    <3>1. CASE jar.session \in Sessions
      <4>1. jar.session.key \in Passwords /\ jar.session.iat \in 0 .. now
        BY <3>1, GatewayAssumption DEF GInv, Shapes, Sessions
      <4> QED
        BY <3>1, <4>1 DEF Sessions
    <3> QED
      BY <3>1 DEF GInv, Shapes
  <2>2. ASSUME NEW t \in Tabs
        PROVE  /\ page[t] \in {"dashboard", "login", "denied"}
               /\ from[t] \in Pages \cup {NoPage}
               /\ sent[t].kind \in {"none", "page", "login", "logout"}
               /\ sent[t].status \in {"ok", "redirected", "unauthorized"}
               /\ sent[t].status = "redirected" => sent[t].kind = "page"
    BY DEF GInv, Shapes, BrowserRequests, Sets, Places
  <2> QED
    BY <2>1, <2>2 DEF GInv, Shapes, GatewayTypeOK, NotIn, Places
<1> QED
  BY <1>1, GatewayInvariance, PTL

\* A login leads back to where the tab came from, for any number of tabs and pages.
THEOREM LedBack == GatewaySpec => []LoginLeadsBack
<1>1. GInv => LoginLeadsBack
  BY DEF GInv, Leading, LoginLeadsBack
<1> QED
  BY <1>1, GatewayInvariance, PTL

\* Only the answer to a request changes it while it is under way; a stop drops it.
LEMMA OnlyAnswered ==
  ASSUME GInv, [GatewayNext]_gatewayVars, NEW t \in Tabs,
         sent[t].member, ~sent[t].answered
  PROVE  sent'[t] = sent[t] \/ sent'[t] = NoRequest \/ Answer(t)
<1>1. sent \in [Tabs -> BrowserRequests] /\ sent[t] # NoRequest
  BY NobodyAsks DEF GInv, Shapes
<1>2. ASSUME NEW u \in Tabs, NEW r, Send(u, r) PROVE sent'[t] = sent[t]
  BY <1>1, <1>2 DEF Send
<1>3. ASSUME NEW u \in Tabs, NEW p \in Pages, NEW link \in Links, Navigate(u, p, link)
      PROVE  sent'[t] = sent[t]
  BY <1>2, <1>3 DEF Navigate
<1>4. ASSUME NEW u \in Tabs, NEW typed \in Passwords, NEW whole \in BOOLEAN,
             Submit(u, typed, whole)
      PROVE  sent'[t] = sent[t]
  BY <1>2, <1>4 DEF Submit
<1>5. ASSUME NEW u \in Tabs, Logout(u) PROVE sent'[t] = sent[t]
  BY <1>2, <1>5 DEF Logout
<1>6. ASSUME NEW u \in Tabs, Answer(u), u # t PROVE sent'[t] = sent[t]
  BY <1>1, <1>6 DEF Answer
<1>7. ASSUME NEW u \in Tabs, Deliver(u) PROVE sent'[t] = sent[t]
  <2>1. u # t
    BY <1>7 DEF Deliver
  <2>2. PICK n : sent' = [sent EXCEPT ![u] = n]
    BY <1>7 DEF Deliver, Turned, LoggedIn, Other
  <2> QED
    BY <1>1, <2>1, <2>2
<1>8. ASSUME Stop PROVE sent'[t] = NoRequest
  BY <1>8 DEF Stop
<1>9. ASSUME Fetch \/ Tick \/ UNCHANGED gatewayVars
      PROVE  sent' = sent
  BY <1>9 DEF Fetch, Tick, gatewayVars
<1>10. ASSUME NEW token \in Passwords, Start(token) PROVE sent' = sent
  BY <1>10 DEF Start
<1> QED
  BY <1>3, <1>4, <1>5, <1>6, <1>7, <1>8, <1>9, <1>10 DEF GatewayNext

\* Nobody who is in is asked again before the session's time is over, for any
\* length of a session, any number of restarts and wherever other requests come
\* from; only a request that a link on another site makes is no member's, and
\* may be refused (auth.go 13-15, 41, 145-168, 259).
THEOREM StayedIn == GatewaySpec => StaysIn
<1>1. ASSUME GInv, [GatewayNext]_gatewayVars, NEW t \in Tabs,
             sent[t].member, ~sent[t].answered
      PROVE  sent'[t].status = "ok"
  <2>1. /\ Shapes /\ sent[t] \in BrowserRequests /\ Sets(sent[t])
        /\ sent[t].kind = "page" /\ validCookie(sent[t].session)
    BY <1>1 DEF GInv, Shapes, Carrying
  <2>2. CASE sent'[t] = sent[t] \/ sent'[t] = NoRequest
    BY <1>1, <2>1, <2>2, NobodyAsks DEF Sets
  <2>3. CASE Answer(t)
    <3> DEFINE h == AnswerTo(handle(sent[t]))
    <3>1. h.status = "ok"
      BY <1>1, <2>1, Handled
    <3>2. sent \in [Tabs -> BrowserRequests] /\ sent' = [sent EXCEPT ![t] = h]
      BY <1>1, <2>3 DEF Answer, GInv, Shapes
    <3> HIDE DEF h
    <3> QED
      BY <3>1, <3>2
  <2> QED
    BY <1>1, <2>2, <2>3, OnlyAnswered
<1>2. GInv /\ [GatewayNext]_gatewayVars =>
        [\A t \in Tabs :
           /\ sent[t].member /\ ~sent[t].answered
           /\ sent'[t].status \in {"redirected", "unauthorized"}
           => ~IsIn(member)]_gatewayVars
  BY <1>1
<1> QED
  BY <1>2, GatewayInvariance, PTL DEF GatewaySpec, StaysIn
=============================================================================
