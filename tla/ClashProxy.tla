----------------------------- MODULE ClashProxy -----------------------------
(***************************************************************************)
(* The way to the kernel through the server: the gate of /api/clash/       *)
(* (server/auth), the proxy (server/clashproxy) and the kernel that the    *)
(* supervisor started from active.yaml (ActiveFile).                       *)
(*                                                                         *)
(* A panel of another origin has the secret its user read in the server's  *)
(* log; the dashboard has a session.  The proxy looks at the supervisor's  *)
(* state, then dials whoever listens; the kernel may be another one by     *)
(* then.  WebSockets take the same way.                                    *)
(***************************************************************************)
EXTENDS ActiveFile

CONSTANTS Panel, Dashboard

VARIABLES
  noted,  \* the secret the panel has
  calls    \* [Panel, Dashboard -> call under way]

proxyVars == <<fileVars, noted, calls>>

\* A call: word, the secret it bears; nr, the kernel that was running then.
Idle == [at |-> "idle", word |-> None, nr |-> 0, answer |-> "ok"]

ProxyInit ==
  /\ FileInit
  /\ noted = None
  /\ calls = [c \in {Panel, Dashboard} |-> Idle]

ReadLog ==
  /\ up /\ noted # opts.secret
  /\ noted' = opts.secret
  /\ UNCHANGED <<fileVars, calls>>

Send(c) ==
  /\ up /\ calls[c] = Idle
  /\ c = Panel => noted # None
  /\ calls' = [calls EXCEPT ![c].at = "sent",
                          ![c].word = IF c = Panel THEN noted ELSE None]
  /\ UNCHANGED <<fileVars, noted>>

Answered(c, answer) == [calls[c] EXCEPT !.at = "answered", !.answer = answer]

\* auth.Config.ClashSecret: the supervisor's secret.
ClashSecret == opts.secret

validClashSecret(word) == ClashSecret # None /\ word = ClashSecret

\* The gate, then the look at the state: 401, 503, or on with the managed secret.
Check(c) ==
  /\ up /\ calls[c].at = "sent"
  /\ calls' = [calls EXCEPT ![c] =
       IF c = Panel /\ ~validClashSecret(calls[c].word)
         THEN Answered(c, "unauthorized")
       ELSE IF status # "running" THEN Answered(c, "unavailable")
       ELSE [@ EXCEPT !.at = "checked", !.word = opts.secret,
                      !.nr = IF kernel = Down THEN 0 ELSE kernel.nr]]
  /\ UNCHANGED <<fileVars, noted>>

\* ReverseProxy dials: 502 if nobody listens, else what the kernel says.
Forward(c) ==
  /\ up /\ calls[c].at = "checked"
  /\ calls' = [calls EXCEPT ![c] =
       Answered(c, IF Listening = {} THEN "badGateway"
                   ELSE IF Accepts(calls[c].word) THEN "ok" ELSE "refused")]
  /\ UNCHANGED <<fileVars, noted>>

Return(c) ==
  /\ calls[c].at = "answered" \/ (~up /\ calls[c].at # "idle")
  /\ calls' = [calls EXCEPT ![c] = Idle]
  /\ UNCHANGED <<fileVars, noted>>

\* The calls of a server that has gone fail before the next one is up.
ProxyNext ==
  \/ FileNext /\ (up' /\ ~up => \A c \in DOMAIN calls : calls[c] = Idle)
       /\ UNCHANGED <<noted, calls>>
  \/ ReadLog
  \/ \E c \in DOMAIN calls : Send(c) \/ Check(c) \/ Forward(c) \/ Return(c)

ProxySpec == ProxyInit /\ [][ProxyNext]_proxyVars

-----------------------------------------------------------------------------
(* Properties *)

\* Types.
ProxyTypeOK ==
  /\ opts.secret \in Secrets \cup 1 .. MaxBoots
  /\ opts.mixedPort \in Ports \cup {None}
  /\ start.step \in {"none", "read", "write", "spawn", "poll"}
  /\ status = "running" => start.step = "none"
  /\ kernel # Down => kernel.nr = spawns
  /\ noted \in Secrets \cup {None} \cup 1 .. boots
  /\ \A c \in DOMAIN calls :
       calls[c].at \in {"idle", "sent", "checked", "answered"} /\ calls[c].nr <= spawns

\* A call that found the kernel running is answered, if that kernel still is the
\* one and lives: what the supervisor polled, the proxy reaches, though the file
\* may have been replaced under it (supervisor.go 519-547, clashproxy.go 62-76).
\* The exception: a kernel started while another one, which the supervisor does
\* not track, had the address.  That one answered the poll in its place and goes
\* on answering; once it is gone nobody does, and the call gets 502.
RunningKernelAnswers ==
  [][\A c \in DOMAIN calls :
       /\ calls[c].at = "checked" /\ calls'[c].at = "answered"
       /\ kernel # Down /\ kernel.alive /\ kernel.nr = calls[c].nr
       => calls'[c].answer = IF kernel.alone \/ orphans # {} THEN "ok"
                                                            ELSE "badGateway"]_proxyVars

\* The secret in the server's log opens the gate, and no call with another one
\* goes through: one value for the log, auth and the proxy (server.go 61-69).
SecretOpens ==
  [][\A c \in DOMAIN calls :
       c = Panel /\ calls[c].at = "sent" /\ calls'[c].at \in {"checked", "answered"}
       => (calls'[c].answer = "unauthorized" <=> calls[c].word # opts.secret)]_proxyVars
=============================================================================
