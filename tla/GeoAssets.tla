------------------------------ MODULE GeoAssets ------------------------------
(***************************************************************************)
(* The update of the geo data files (server/kernel: FetchGeoAssets,        *)
(* downloadTo, atomicWrite), asked for by any number of requests at once.  *)
(*                                                                         *)
(* Each file is downloaded into <name>.download.tmp, which is renamed when *)
(* it is complete.  The name is the same for every update: one that opens  *)
(* the file another is writing empties it, and both go on writing to it,   *)
(* even after a rename has published it.  A file is two blocks long here,  *)
(* and a descriptor refers to what has the temporary name, to what has the *)
(* final one, or to neither.                                               *)
(***************************************************************************)
EXTENDS Naturals, FiniteSets

CONSTANTS
  Updates,    \* requests
  GeoFiles,   \* geoFileOrder: a sequence of names
  NoFile,
  MaxCrashes  \* bound

ASSUME GeoAssumption ==
  /\ MaxCrashes \in Nat
  /\ 1 \in DOMAIN GeoFiles /\ DOMAIN GeoFiles \subseteq Nat
  /\ \A written \in SUBSET {1, 2} : NoFile # written

VARIABLES
  dst, tmp, \* [names -> blocks written]: the file, and the temporary one or NoFile
  update,   \* [Updates -> [nr: position in GeoFiles, 0: none; fd; pos]]
  crashes,
  shared    \* history: names whose temporary file two updates had open

geoVars == <<dst, tmp, update, crashes, shared>>

Blocks == {1, 2}
Names == {GeoFiles[i] : i \in DOMAIN GeoFiles}
NotUpdating == [nr |-> 0, fd |-> "none", pos |-> 0]
Name(u) == GeoFiles[update[u].nr]
Running(u) == update[u].nr # 0

\* The files of an earlier update are there, whole.
GeoInit ==
  /\ dst = [n \in Names |-> Blocks]
  /\ tmp = [n \in Names |-> NoFile]
  /\ update = [u \in Updates |-> NotUpdating]
  /\ crashes = 0
  /\ shared = {}

BeginUpdate(u) ==
  /\ ~Running(u)
  /\ update' = [update EXCEPT ![u].nr = 1]
  /\ UNCHANGED <<dst, tmp, crashes, shared>>

\* What descriptors of the file refer to after the temporary name has gone.
Moved(u, to) ==
  [v \in Updates |->
     IF ~Running(v) \/ Name(v) # Name(u) THEN update[v]
     ELSE IF update[v].fd = "tmp" THEN [update[v] EXCEPT !.fd = to]
     ELSE IF update[v].fd = "dst" /\ to = "dst" THEN [update[v] EXCEPT !.fd = "gone"]
     ELSE update[v]]

\* The first error ends an update: no connection, or an answer that is not 2xx.
DownloadFails(u) ==
  /\ Running(u) /\ update[u].fd = "none"
  /\ update' = [update EXCEPT ![u] = NotUpdating]
  /\ UNCHANGED <<dst, tmp, crashes, shared>>

\* Mutant of Open: the file itself is written.
Open_InPlace(u) ==
  /\ Running(u) /\ update[u].fd = "none"
  /\ dst' = [dst EXCEPT ![Name(u)] = {}]
  /\ update' = [update EXCEPT ![u].fd = "dst"]
  /\ UNCHANGED <<tmp, crashes, shared>>

\* os.OpenFile with O_CREATE and O_TRUNC.
Open(u) ==
  /\ Running(u) /\ update[u].fd = "none"
  /\ tmp' = [tmp EXCEPT ![Name(u)] = {}]
  /\ update' = [update EXCEPT ![u].fd = "tmp"]
  /\ shared' = shared \cup
       {Name(v) : v \in {w \in Updates \ {u} :
                           Running(w) /\ Name(w) = Name(u) /\ update[w].fd = "tmp"}}
  /\ UNCHANGED <<dst, crashes>>

\* io.Copy goes on at its own offset.
CopyBlock(u) ==
  /\ update[u].fd # "none" /\ update[u].pos < Cardinality(Blocks)
  /\ LET block == {update[u].pos + 1}
     IN /\ tmp' = IF update[u].fd = "tmp"
                    THEN [tmp EXCEPT ![Name(u)] = @ \cup block] ELSE tmp
        /\ dst' = IF update[u].fd = "dst"
                    THEN [dst EXCEPT ![Name(u)] = @ \cup block] ELSE dst
  /\ update' = [update EXCEPT ![u].pos = @ + 1]
  /\ UNCHANGED <<crashes, shared>>

\* The body breaks off: the temporary file is removed, by its name.
CopyFails(u) ==
  /\ update[u].fd # "none" /\ update[u].pos < Cardinality(Blocks)
  /\ tmp' = [tmp EXCEPT ![Name(u)] = NoFile]
  /\ update' = [Moved(u, "gone") EXCEPT ![u] = NotUpdating]
  /\ UNCHANGED <<dst, crashes, shared>>

\* os.Rename fails if another update has renamed or removed the file.
RenameFails(u) ==
  /\ update[u].pos = Cardinality(Blocks) /\ tmp[Name(u)] = NoFile
  /\ update' = [update EXCEPT ![u] = NotUpdating]
  /\ UNCHANGED <<dst, tmp, crashes, shared>>

\* The file is published; then the next one, if there is one.
Rename(u) ==
  /\ update[u].pos = Cardinality(Blocks) /\ tmp[Name(u)] # NoFile
  /\ dst' = [dst EXCEPT ![Name(u)] = tmp[Name(u)]]
  /\ tmp' = [tmp EXCEPT ![Name(u)] = NoFile]
  /\ update' = [Moved(u, "dst") EXCEPT ![u] =
       IF update[u].nr + 1 \in DOMAIN GeoFiles
         THEN [NotUpdating EXCEPT !.nr = update[u].nr + 1]
         ELSE NotUpdating]
  /\ UNCHANGED <<crashes, shared>>

\* The server goes down; the temporary files stay.
GeoCrash ==
  /\ crashes < MaxCrashes
  /\ crashes' = crashes + 1
  /\ update' = [u \in Updates |-> NotUpdating]
  /\ UNCHANGED <<dst, tmp, shared>>

GeoNext ==
  \/ \E u \in Updates :
       \/ BeginUpdate(u) \/ DownloadFails(u) \/ Open(u)
       \/ CopyBlock(u) \/ CopyFails(u) \/ RenameFails(u) \/ Rename(u)
  \/ GeoCrash

GeoSpec == GeoInit /\ [][GeoNext]_geoVars

\* A crash or a broken download never leaves half a file where the kernel reads
\* it; only two updates that wrote the same temporary file can (kernel.go
\* 182-202).
GeoWholeUnlessShared == \A n \in Names : dst[n] # Blocks => n \in shared
=============================================================================
