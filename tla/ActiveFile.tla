----------------------------- MODULE ActiveFile -----------------------------
(***************************************************************************)
(* What the kernel reads: the lines of active.yaml, which the store writes *)
(* and every start of the kernel edits (injectClashConfig), and whether    *)
(* the kernel that read them answers the supervisor.                       *)
(*                                                                         *)
(* A line is a top-level key with its value, or the marker "---".  The     *)
(* kernel reads the first document of the file, and none with a key twice. *)
(* The steps of a start are the read, the truncating write, the spawn and  *)
(* the poll; the store may replace the file between any two of them.       *)
(*                                                                         *)
(* A kernel has a process group of its own and outlives a server that does *)
(* not dispose of it, and a late callback of the watchdog starts one over  *)
(* another (module Server).  Such a kernel keeps the controller's address: *)
(* it answers in the place of the next one, which goes on without.         *)
(* Left out: blank lines, the order of keys, what lies below a top-level   *)
(* key; a kernel binds the address when it reads the file, or never.       *)
(***************************************************************************)
EXTENDS Naturals, SequencesExt, Filtering

CONSTANTS
  Compositions,      \* files the store composes: sequences of lines
  Address,    \* opts.ExternalController
  Secrets,    \* values of CLASH_SECRET
  Ports,      \* values of MIXED_PORT that are not zero
  None,       \* not set
  Down,       \* no kernel
  MaxBoots,   \* bound: starts of the server
  MaxSpawns,  \* bound: kernels
  MaxComposes \* bound: activations

ASSUME ActiveFileAssumption ==
  /\ None \notin Secrets /\ None \notin Ports /\ None \notin Nat
  /\ MaxBoots \in Nat \ {0} /\ MaxSpawns \in Nat /\ MaxComposes \in Nat
  /\ \A t \in Compositions : t \in Seq(ToSet(t))

VARIABLES
  opts,      \* the supervisor's: [secret, mixedPort]
  boots, spawns, composes,
  up,        \* the server runs
  file,      \* active.yaml
  start,     \* the start under way: [step, read]
  kernel,    \* s.child: the file it read, is it alive, alone (had nobody the
             \* address before it), and history; or Down
  orphans,   \* the secret of a kernel that listens and is not s.child: {} or one
  status,    \* supervisor: "down", "starting" or "running"
  text,      \* history: what the store composed last
  kept,      \* history: the file still is that text, injected with one MIXED_PORT
  calm       \* history: nothing has been composed since the start's read

fileVars ==
  <<opts, boots, spawns, composes, up, file, start, kernel, orphans, status, text,
    kept, calm>>

Line(key, value) == [key |-> key, quoted |-> FALSE, value |-> value]
Quoted(key, value) == [Line(key, value) EXCEPT !.quoted = TRUE]
Marker == Line("---", None)

ListenerPorts == {"port", "socks-port", "redir-port", "tproxy-port"}

\* The kernel's view of a file: its first document, as a function.
Document(f) ==
  LET cuts == {i \in 2 .. Len(f) : f[i] = Marker}
      end == IF cuts = {} THEN Len(f)
             ELSE (CHOOSE i \in cuts : \A j \in cuts : i <= j) - 1
  IN Filter(SubSeq(f, 1, end), ToSet(f) \ {Marker})

Loads(f) ==
  LET d == Document(f) IN \A i, j \in DOMAIN d : d[i].key = d[j].key => i = j

Meaning(f) ==
  LET d == Document(f)
  IN [k \in {d[i].key : i \in DOMAIN d} |->
        d[CHOOSE i \in DOMAIN d : d[i].key = k].value]

Value(f, key) == IF key \in DOMAIN Meaning(f) THEN Meaning(f)[key] ELSE None

-----------------------------------------------------------------------------
(* injectClashConfig *)

hasMixed == opts.mixedPort # None

\* Mutant: the secret of the last start stays.
shouldStripTopLevelKey_NotSecret(l) ==
  /\ ~l.quoted
  /\ \/ l.key = "external-controller"
     \/ l.key = "mixed-port" /\ hasMixed
     \/ l.key \in ListenerPorts /\ hasMixed /\ l.value = opts.mixedPort

\* The lines the supervisor owns, found by their plain key.
shouldStripTopLevelKey(l) ==
  /\ ~l.quoted
  /\ \/ l.key \in {"external-controller", "secret"}
     \/ l.key = "mixed-port" /\ hasMixed
     \/ l.key \in ListenerPorts /\ hasMixed /\ l.value = opts.mixedPort

header ==
  <<Line("external-controller", Address), Line("secret", opts.secret)>>
    \o (IF hasMixed THEN <<Line("mixed-port", opts.mixedPort)>> ELSE <<>>)

Inject(f) ==
  header \o Filter(f, {l \in ToSet(f) : ~shouldStripTopLevelKey(l)})

-----------------------------------------------------------------------------
\* CLASH_SECRET, or a random secret, one for each run of the server.
EffectiveSecret(env, boot) == IF env = None THEN boot ELSE env

Boot(boot) ==
  \E env \in Secrets \cup {None}, port \in Ports \cup {None} :
    opts' = [secret |-> EffectiveSecret(env, boot), mixedPort |-> port]

FileInit ==
  /\ \E env \in Secrets \cup {None}, port \in Ports \cup {None} :
       opts = [secret |-> EffectiveSecret(env, 1), mixedPort |-> port]
  /\ boots = 1 /\ spawns = 0 /\ composes = 0
  /\ up = TRUE
  /\ file = <<>> /\ text = <<>>
  /\ start = [step |-> "none", read |-> <<>>]
  /\ kernel = Down /\ orphans = {} /\ status = "down"
  /\ kept = TRUE /\ calm = TRUE

\* SetActive: the file is replaced as a whole, by a rename.
Compose ==
  /\ up /\ composes < MaxComposes
  /\ \E t \in Compositions : file' = t /\ text' = t
  /\ composes' = composes + 1
  /\ kept' = TRUE /\ calm' = FALSE
  /\ UNCHANGED <<opts, boots, spawns, up, start, kernel, orphans, status>>

\* doStart: by a user, the boot, a restart or the watchdog; by a late callback of
\* the watchdog also over a kernel that is running.
BeginStart ==
  /\ up /\ start.step = "none" /\ status \in {"down", "running"} /\ spawns < MaxSpawns
  /\ status' = "starting"
  /\ start' = [step |-> "read", read |-> <<>>]
  /\ UNCHANGED <<opts, boots, spawns, composes, up, file, kernel, orphans, text,
                 kept, calm>>

ReadFile ==
  /\ start.step = "read"
  /\ start' = [step |-> "write", read |-> file]
  /\ calm' = TRUE
  /\ UNCHANGED <<opts, boots, spawns, composes, up, file, kernel, orphans, status,
                 text, kept>>

WriteFile ==
  /\ start.step = "write"
  /\ file' = Inject(start.read)
  /\ start' = [step |-> "spawn", read |-> <<>>]
  /\ kept' = (kept /\ calm)
  /\ UNCHANGED <<opts, boots, spawns, composes, up, kernel, orphans, status, text,
                 calm>>

\* It has the managed address: it reads that in its file, and nobody was there.
Listens(k) ==
  /\ k # Down /\ k.alive /\ k.alone
  /\ Loads(k.file) /\ Value(k.file, "external-controller") = Address

\* The secret of whoever listens at the managed address, if somebody does.
Listening ==
  IF Listens(kernel) THEN {Value(kernel.file, "secret")} ELSE orphans

\* exec.Cmd.Start; the kernel reads the file.  One that was tracked no longer is.
Spawn ==
  /\ start.step = "spawn"
  /\ spawns' = spawns + 1
  /\ kernel' = [nr |-> spawns + 1, file |-> file, alive |-> TRUE,
                alone |-> Listening = {}, text |-> text, calm |-> calm /\ kept]
  /\ orphans' = Listening
  /\ start' = [step |-> "poll", read |-> <<>>]
  /\ UNCHANGED <<opts, boots, composes, up, file, status, text, kept, calm>>

\* Does whoever listens take a request with this secret?
Accepts(secret) == \E asked \in Listening : asked \in {None, secret}

\* Mutant: any answer will do.
pollReady_AnyAnswer == Listening # {}

\* pollReady: /version answers 200.
pollReady == Accepts(opts.secret)

Ready ==
  /\ start.step = "poll" /\ status = "starting" /\ pollReady
  /\ status' = "running"
  /\ start' = [start EXCEPT !.step = "none"]
  /\ UNCHANGED <<opts, boots, spawns, composes, up, file, kernel, orphans, text, kept,
                 calm>>

\* The deadline passed, or a kernel exited: the new one is killed.
NotReady ==
  /\ start.step = "poll"
  /\ status' = "down" /\ kernel' = Down
  /\ start' = [start EXCEPT !.step = "none"]
  /\ UNCHANGED <<opts, boots, spawns, composes, up, file, orphans, text, kept, calm>>

Exit ==
  /\ \/ /\ kernel # Down /\ kernel.alive
        /\ kernel' = [kernel EXCEPT !.alive = FALSE] /\ UNCHANGED orphans
     \/ orphans # {} /\ orphans' = {} /\ UNCHANGED kernel
  /\ UNCHANGED <<opts, boots, spawns, composes, up, file, start, status, text, kept,
                 calm>>

\* watchExit, of the kernel that is tracked.
WatchExit ==
  /\ kernel # Down /\ ~kernel.alive
  /\ kernel' = Down /\ status' = "down"
  /\ UNCHANGED <<opts, boots, spawns, composes, up, file, start, orphans, text, kept,
                 calm>>

\* doStop
StopKernel ==
  /\ up /\ status = "running" /\ start.step = "none"
  /\ status' = "down" /\ kernel' = Down
  /\ UNCHANGED <<opts, boots, spawns, composes, up, file, start, orphans, text, kept,
                 calm>>

\* The server goes down: with its kernel if it gets to Dispose, alone if it
\* crashes, is killed or cannot listen (log.Fatalf); then a write may have been
\* cut short.
ServerDown ==
  /\ up
  /\ up' = FALSE /\ kernel' = Down /\ status' = "down"
  /\ start' = [step |-> "none", read |-> <<>>]
  /\ orphans' \in {orphans, Listening}
  /\ \/ UNCHANGED <<file, kept>>
     \/ start.step = "write" /\ file' = <<>> /\ kept' = FALSE
  /\ UNCHANGED <<opts, boots, spawns, composes, text, calm>>

ServerUp ==
  /\ ~up /\ boots < MaxBoots
  /\ up' = TRUE /\ boots' = boots + 1
  /\ Boot(boots + 1)
  /\ kept' = (kept /\ opts'.mixedPort = opts.mixedPort)
  /\ UNCHANGED <<spawns, composes, file, start, kernel, orphans, status, text, calm>>

FileNext ==
  \/ Compose \/ BeginStart \/ ReadFile \/ WriteFile \/ Spawn \/ Ready \/ NotReady
  \/ Exit \/ WatchExit \/ StopKernel \/ ServerDown \/ ServerUp

-----------------------------------------------------------------------------
(* What is expected of the file *)

Owned ==
  {"external-controller", "secret"} \cup (IF hasMixed THEN {"mixed-port"} ELSE {})

\* A text that the line editor takes for something else than the kernel does.
Awkward(t) ==
  \E i \in DOMAIN t :
    t[i] = Marker \/ (t[i].quoted /\ t[i].key \in Owned \cup ListenerPorts)

\* The managed values, and the composed ones that do not get in their way.
Expected(t) ==
  LET keys == {k \in DOMAIN Meaning(t) \ Owned :
                 ~(hasMixed /\ k \in ListenerPorts /\ Meaning(t)[k] = opts.mixedPort)}
  IN [k \in Owned \cup keys |->
        CASE k = "external-controller" -> Address
          [] k = "secret" -> opts.secret
          [] k = "mixed-port" /\ hasMixed -> opts.mixedPort
          [] OTHER -> Meaning(t)[k]]

\* The kernel reads the composed configuration with the managed keys, however
\* often it was restarted and the server with it, unless an activation came
\* between the start's read and its spawn, MIXED_PORT changed or a crash cut the
\* write short since it was composed, or the text is one that lines cannot edit,
\* or that no kernel loads (supervisor.go 581-618, 623-659).
KernelReadsConfig ==
  kernel # Down /\ kernel.calm /\ ~Awkward(kernel.text) /\ Loads(kernel.text)
    => Loads(kernel.file) /\ Meaning(kernel.file) = Expected(kernel.text)
=============================================================================
