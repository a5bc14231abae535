------------------------------ MODULE MCFiles ------------------------------
(* What becomes of the server's files, for TLC: the profiles that a restore *)
(* creates, the configuration that a merge makes of them, active.yaml as    *)
(* the kernel reads it and the proxy finds it, and the geo data.  They meet *)
(* in the store's composing, which is a step of its own in each of them:    *)
(* a behaviour is about one of the four.                                    *)
EXTENDS Restore, Merge, ClashProxy, GeoAssets

CONSTANTS p1, p2, secret0

VARIABLE topic  \* which of the four a behaviour is about

\* Documents: a scalar, an array, and a mapping made of the documents of its keys.
Scalar(x)  == [p \in {<<>>} |-> [kind |-> "scalar", items |-> <<x>>]]
Arr(items) == OnlyArray(<<>>, items)
Map(f) ==
  [p \in {<<>>} \cup UNION {{<<k>> \o q : q \in DOMAIN f[k]} : k \in DOMAIN f} |->
     IF p = <<>> THEN [kind |-> "map", items |-> <<>>] ELSE f[Head(p)][Tail(p)]]

MCNoJob == [base |-> Map(<<>>), overlays |-> <<>>]
MCKeys == {Target, Prepend, Append_, VisualPatchKey, "tun", "stack"}
MCItems == {"r1", "r2", "r3", "r4", "r5", "r6", "s1", "s2", "s3", "text"}

\* Stands for a key that is not there.
Missing == Scalar("text")

\* Registries of up to three profiles, in the order of their ids.  An overlay is
\* global, or scoped to a profile of any kind that is, or was, before it; a local
\* profile may be scoped, though it makes no difference to it.
MCMetas(id) ==
  {Entry(id, type, NoId, FALSE, TRUE) : type \in {"local", "remote", "script"}}
    \cup {Entry(id, "local", base, FALSE, TRUE) : base \in 1 .. id - 1}
    \cup {Entry(id, "merge", base, managed, enabled) :
            base \in {NoId, Gone} \cup 1 .. id - 1,
            managed \in BOOLEAN, enabled \in BOOLEAN}

MCRegistries ==
  {r \in UNION {{<<>>}, {<<a>> : a \in MCMetas(1)}, MCMetas(1) \X MCMetas(2),
                MCMetas(1) \X MCMetas(2) \X MCMetas(3)} :
     /\ \A i \in DOMAIN r : r[i].managed => r[i].base # NoId
     /\ \A i, j \in DOMAIN r :
          r[i].managed /\ r[j].managed /\ r[i].base = r[j].base => i = j}

\* The mappings with one of the values given for each key, or without the key.
MCMaps(values) ==
  LET all == UNION {values[k] : k \in DOMAIN values} \cup {Missing}
  IN {Map([k \in {j \in DOMAIN f : f[j] # Missing} |-> f[k]]) :
        f \in {g \in [DOMAIN values -> all] :
                 \A k \in DOMAIN values : g[k] \in values[k] \cup {Missing}}}

MCSmall(a) == Map([stack |-> Scalar(a)])
MCNested(a, b) == MCMaps([stack |-> {Scalar(a)}] @@ (Target :> {Arr(<<b>>)}))

MCBases ==
  MCMaps((Target :> {Arr(<<"r1">>), MCSmall("s1")})
           @@ [tun |-> {Scalar("s1")} \cup MCNested("s1", "r1")])

MCOverlays ==
  MCMaps((Target :> {Arr(<<"r2">>), MCSmall("s2")})
           @@ (Prepend :> {Arr(<<"r3">>), Scalar("s2")})
           @@ (Append_ :> {Arr(<<"r4">>)})
           @@ (VisualPatchKey :> {Scalar("s2")})
           @@ [tun |-> {Scalar("s2"), Map(Prepend :> Arr(<<"r3">>))}
                         \cup MCNested("s2", "r2")])

\* A few overlays to be merged two in a row.
MCFew ==
  MCMaps((Target :> {Arr(<<"r5">>)}) @@ (Append_ :> {Arr(<<"r6">>)}))
    \cup MCNested("s3", "r5") \cup {Scalar("text")}

MCJobs ==
  {MCNoJob} \cup [base : MCBases \cup {Scalar("text")},
                  overlays : {<<o>> : o \in MCOverlays} \cup MCFew \X MCFew]

\* Listener ports with and without the managed value, managed keys in the text,
\* and the two kinds of text that cannot be edited by lines.
MCCompositions ==
  {<<Line("rules", "r1"), Line("secret", secret0), Line("port", p1)>>,
   <<Line("external-controller", Address), Line("secret", secret0),
     Line("socks-port", p2)>>,
   <<Line("mixed-port", p2), Line("rules", "r2")>>,
   <<Marker, Line("rules", "r3")>>,
   <<Quoted("secret", secret0)>>}

MCGeoFiles == <<"geoip.dat", "geosite.dat">>

MCInit ==
  /\ topic \in {"restore", "merge", "proxy", "geo"}
  /\ RestoreInit /\ (topic # "restore" => index = <<>>)
  /\ MergeInit /\ (topic # "merge" => overlays = <<>>)
  /\ ProxyInit /\ (topic # "proxy" => opts = [secret |-> 1, mixedPort |-> None])
  /\ GeoInit

MCNext ==
  /\ \/ topic = "restore" /\ RestoreNext /\ UNCHANGED <<mergeVars, proxyVars, geoVars>>
     \/ topic = "merge" /\ MergeNext /\ UNCHANGED <<restoreVars, proxyVars, geoVars>>
     \/ topic = "proxy" /\ ProxyNext /\ UNCHANGED <<restoreVars, mergeVars, geoVars>>
     \/ topic = "geo" /\ GeoNext /\ UNCHANGED <<restoreVars, mergeVars, proxyVars>>
  /\ UNCHANGED topic

MCSpec ==
  MCInit /\ [][MCNext]_<<topic, restoreVars, mergeVars, proxyVars, geoVars>>
=============================================================================
