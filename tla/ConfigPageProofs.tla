-------------------------- MODULE ConfigPageProofs --------------------------
(* Proofs about ConfigPage, for any menu of fields, any values and any      *)
(* number of requests under way.                                            *)
EXTENDS ConfigPage, SequenceTheorems, TLAPS

Values == Settings \cup {NotLoaded} \cup UNION {Sections(key) : key \in Keys}
Shape  == [op : {"none", "kernel", "network", "put"}, at : {"sent", "done"},
           key : Keys \cup {"none"}, field : Fields \cup {"none"},
           data : Values, old : BOOLEAN]

Requests == {c \in Shape : RequestOK(c)}

(***************************************************************************)
(* The inductive invariant, in named parts.                                *)
(***************************************************************************)

\* The field under the editor is one of the menu.
Types ==
  /\ TypeOK /\ call \in [Slots -> Requests]
  /\ dialog = "edit" => Selected(Len(kernelOps), Len(NetworkFields))

\* A request that carries settings: read at the server, or on their way to it.
Reads(c) == c.op = "network" /\ c.at = "done"
Puts(c)  == c.op = "put" /\ c.at = "sent"

\* The settings read are the server's; the section written back differs from
\* the server's in the field edited only.
Current(c) ==
  ~c.old =>
    /\ Reads(c) => c.data = live
    /\ Puts(c) =>
         /\ c.field \in Fields
         /\ DOMAIN c.data = {f \in Fields : KeyOf[f] = c.key}
         /\ \A f \in DOMAIN c.data \ {c.field} : c.data[f] = live[f]

IInv == /\ Types /\ BusyHasOperation /\ ShowsSelectedMode
        /\ \A k \in Slots : Current(call[k])
        /\ ShowsTheKernel

-----------------------------------------------------------------------------
(* The menu, and requests *)

LEMMA Menu ==
  /\ Len(NetworkFields) \in Nat /\ Len(kernelOps) = 3
  /\ ConfigMenuLen = 4 + Len(NetworkFields)
<1>1. Len(NetworkFields) \in Nat
  BY ConfigAssumption, LenProperties
<1>2. Len(kernelOps) = 3
  BY DEF kernelOps
<1> QED
  BY <1>1, <1>2 DEF ConfigMenuLen

LEMMA Edited ==
  ASSUME Types, dialog = "edit"
  PROVE  editField \in Fields
<1>1. kSelected - Len(kernelOps) + 1 \in 1 .. Len(NetworkFields)
  BY Menu DEF Types, TypeOK, Selected
<1> QED
  BY <1>1, ConfigAssumption, LenProperties DEF editField, Fields

LEMMA Whole ==
  ASSUME NEW key \in Keys, NEW F \in SUBSET {f \in Fields : KeyOf[f] = key},
         NEW data \in [F -> Vals]
  PROVE  data \in Sections(key) /\ data \in Values
BY DEF Sections, Values

LEMMA Sent ==
  /\ Free \in Requests /\ KernelOp \in Requests
  /\ FetchNetworkSettings \in Requests /\ Saved \in Requests
  /\ Free.op = "none" /\ KernelOp.op = "kernel"
  /\ FetchNetworkSettings.op = "network" /\ FetchNetworkSettings.at = "sent"
  /\ Saved.op = "put" /\ Saved.at = "done"
  /\ ~Free.old /\ ~KernelOp.old /\ ~FetchNetworkSettings.old /\ ~Saved.old
<1>1. Free \in Shape /\ Free.op = "none" /\ Free.at = "sent" /\ ~Free.old
  BY DEF Free, Shape, Values
<1>2. /\ KernelOp \in Shape /\ KernelOp.op = "kernel"
      /\ FetchNetworkSettings \in Shape /\ FetchNetworkSettings.op = "network"
      /\ FetchNetworkSettings.at = "sent"
      /\ Saved \in Shape /\ Saved.op = "put" /\ Saved.at = "done"
  BY <1>1 DEF KernelOp, FetchNetworkSettings, Saved, Shape
<1>3. ~KernelOp.old /\ ~FetchNetworkSettings.old /\ ~Saved.old
  BY <1>1 DEF KernelOp, FetchNetworkSettings, Saved, Shape
<1> QED
  BY <1>1, <1>2, <1>3 DEF Requests, RequestOK

LEMMA Issued ==
  ASSUME Types, NEW r \in Requests, Issue(r)
  PROVE  /\ call' \in [Slots -> Requests]
         /\ \E k \in Slots : /\ call[k] = Free /\ call'[k] = r
                             /\ \A j \in Slots \ {k} : call'[j] = call[j]
BY DEF Issue, Types

\* A step of the server makes settings under way old, whatever it is.
LEMMA Ages ==
  ASSUME call \in [Slots -> Requests]
  PROVE  /\ Aged \in [Slots -> Requests]
         /\ \A k \in Slots : /\ Aged[k].op = call[k].op /\ Aged[k].at = call[k].at
                             /\ Reads(Aged[k]) \/ Puts(Aged[k]) => Aged[k].old
                             /\ call[k] = KernelOp => Aged[k] = KernelOp
<1> SUFFICES ASSUME NEW k \in Slots
             PROVE  /\ Aged[k] \in Requests
                    /\ Aged[k].op = call[k].op /\ Aged[k].at = call[k].at
                    /\ Reads(Aged[k]) \/ Puts(Aged[k]) => Aged[k].old
                    /\ call[k] = KernelOp => Aged[k] = KernelOp
  BY DEF Aged
<1> DEFINE c == call[k]
<1>1. c \in Requests
  OBVIOUS
<1>2. CASE Reads(c) \/ Puts(c)
  <2>1. Aged[k] = [c EXCEPT !.old = TRUE]
    BY <1>2 DEF Aged, Reads, Puts
  <2>2. /\ Aged[k] \in Shape /\ Aged[k].op = c.op /\ Aged[k].at = c.at
        /\ Aged[k].key = c.key /\ Aged[k].field = c.field
        /\ Aged[k].data = c.data /\ Aged[k].old
    BY <1>1, <2>1 DEF Requests, Shape
  <2>3. c # KernelOp
    BY <1>2, Sent DEF Reads, Puts
  <2>4. c \notin {Free, KernelOp, FetchNetworkSettings, Saved}
    BY <1>2, Sent DEF Reads, Puts
  <2>5. RequestOK(Aged[k])
    <3>1. CASE Reads(c)
      BY <1>1, <2>2, <2>4, <3>1 DEF Requests, RequestOK, Reads
    <3>2. CASE Puts(c)
      BY <1>1, <2>2, <2>4, <3>2 DEF Requests, RequestOK, Puts
    <3> QED
      BY <1>2, <3>1, <3>2
  <2> QED
    BY <2>2, <2>3, <2>5 DEF Requests
<1>3. CASE ~(Reads(c) \/ Puts(c))
  <2>1. Aged[k] = c
    BY <1>3 DEF Aged, Reads, Puts
  <2> QED
    BY <1>1, <1>3, <2>1
<1> QED
  BY <1>2, <1>3

-----------------------------------------------------------------------------
(* The initial state *)

LEMMA InitInv == Init => IInv
<1> SUFFICES ASSUME Init PROVE IInv
  OBVIOUS
<1>1. call \in [Slots -> Requests] /\ \A k \in Slots : call[k] = Free
  BY Sent DEF Init
<1>2. Types
  <2>1. kSelected \in 0 .. ConfigMenuLen - 1
    BY Menu DEF Init
  <2>2. DOMAIN call = Slots /\ \A k \in Slots : RequestOK(call[k])
    BY <1>1 DEF Requests
  <2> QED
    BY <1>1, <2>1, <2>2 DEF Init, Types, TypeOK, Modes
<1>3. \A k \in Slots : Current(call[k])
  BY <1>1, Sent DEF Current, Reads, Puts
<1>4. BusyHasOperation /\ ShowsSelectedMode /\ ShowsTheKernel
  BY DEF Init, BusyHasOperation, ShowsSelectedMode, ShowsTheKernel
<1> QED
  BY <1>2, <1>3, <1>4 DEF IInv

-----------------------------------------------------------------------------
(* Keys *)

\* What leaves the server, the page's settings and the requests alone, but for
\* the begin of one.
LEMMA KeyKeeps ==
  ASSUME IInv, UNCHANGED <<live, network, outdated>>,
         \/ UNCHANGED call
         \/ \E r \in Requests : Issue(r) /\ Current(r)
                                /\ (r = KernelOp \/ r.op \in {"network", "put"})
  PROVE  /\ call' \in [Slots -> Requests]
         /\ (\A k \in Slots : Current(call[k]))' /\ ShowsTheKernel'
         /\ (\E k \in Slots : call[k] = KernelOp) => \E k \in Slots : call'[k] = KernelOp
<1> USE DEF IInv
<1>1. CASE UNCHANGED call
  BY <1>1 DEF Types, Current, ShowsTheKernel
<1>2. ASSUME NEW r \in Requests, Issue(r), Current(r)
      PROVE  /\ call' \in [Slots -> Requests]
             /\ (\A k \in Slots : Current(call[k]))'
             /\ r = KernelOp \/ r.op \in {"network", "put"} => ShowsTheKernel'
             /\ (\E k \in Slots : call[k] = KernelOp) => \E k \in Slots : call'[k] = KernelOp
  <2>1. PICK k \in Slots : /\ call[k] = Free /\ call'[k] = r
                           /\ \A j \in Slots \ {k} : call'[j] = call[j]
    BY <1>2, Issued
  <2>2. call' \in [Slots -> Requests]
    BY <1>2, Issued
  <2>3. (\A j \in Slots : Current(call[j]))'
    BY <1>2, <2>1 DEF Current
  <2>4. Free.op = "none" /\ KernelOp.op = "kernel"
    BY Sent
  <2>5. ASSUME r = KernelOp \/ r.op \in {"network", "put"} PROVE ShowsTheKernel'
    BY <2>1, <2>4, <2>5 DEF ShowsTheKernel
  <2>6. (\E j \in Slots : call[j] = KernelOp) => \E j \in Slots : call'[j] = KernelOp
    BY <2>1, <2>4
  <2> QED
    BY <2>2, <2>3, <2>5, <2>6
<1> QED
  BY <1>1, <1>2

\* The object sent is the one on the page with the field changed.
LEMMA Written ==
  ASSUME IInv, dialog = "edit", NEW v \in Vals, NEW old \in BOOLEAN,
         old = Doubtful
  PROVE  LET r == PutSection(KeyOf[editField], editField,
                             setField(editField, v), old)
         IN r \in Requests /\ r.op = "put" /\ Current(r)
<1> DEFINE f == editField
           d == setField(f, v)
           r == PutSection(KeyOf[f], f, d, old)
           G == {h \in DOMAIN network : KeyOf[h] = KeyOf[f]}
<1>1. f \in Fields /\ KeyOf[f] \in Keys
  BY Edited DEF IInv, Keys
<1>2. network = NotLoaded \/ network \in [Fields -> Vals]
  BY DEF IInv, Types, TypeOK, Settings
<1>3. network = NotLoaded => DOMAIN network = {}
  BY DEF NotLoaded
<1>4. /\ {f} \cup G \in SUBSET {h \in Fields : KeyOf[h] = KeyOf[f]}
      /\ d \in [{f} \cup G -> Vals]
  BY <1>1, <1>2, <1>3 DEF setField
<1>5. d \in Sections(KeyOf[f]) /\ d \in Values /\ f \in DOMAIN d
  BY <1>1, <1>4, Whole
<1> HIDE DEF f, d
<1>6. r = [Free EXCEPT !.op = "put", !.key = KeyOf[f], !.field = f, !.data = d,
                       !.old = old]
  BY DEF PutSection
<1>7. Free \in Shape /\ Free.at = "sent"
  BY Sent DEF Requests, Free
<1>8. /\ r \in Shape /\ r.op = "put" /\ r.at = "sent" /\ r.key = KeyOf[f]
      /\ r.field = f /\ r.data = d
  BY <1>1, <1>5, <1>6, <1>7 DEF Shape
<1>9. r.old = old
  BY <1>6, <1>7 DEF Shape
<1> HIDE DEF r
<1>10. r \in Requests
  <2>1. r.old \in BOOLEAN
    BY <1>9
  <2>2. /\ r.key \in Keys /\ r.data \in Sections(r.key)
        /\ KeyOf[r.field] = r.key /\ r.field \in DOMAIN r.data
    BY <1>1, <1>5, <1>8
  <2> QED
    BY <1>8, <2>1, <2>2 DEF Requests, RequestOK
<1>11. Current(r)
  <2> SUFFICES ASSUME ~old
               PROVE  /\ f \in Fields
                      /\ DOMAIN d = {h \in Fields : KeyOf[h] = KeyOf[f]}
                      /\ \A h \in DOMAIN d \ {f} : d[h] = live[h]
    BY <1>8, <1>9 DEF Current, Reads
  <2>1. network = live /\ network \in [Fields -> Vals]
    BY <1>2 DEF Doubtful, IInv, ShowsTheKernel
  <2> QED
    BY <1>1, <2>1 DEF d, setField
<1> QED
  BY <1>8, <1>10, <1>11 DEF r, d, f

LEMMA KeyStep ==
  ASSUME IInv, Key
  PROVE  IInv'
<1>0. /\ TypeOK /\ ShowsSelectedMode
      /\ dialog = "edit" => Selected(Len(kernelOps), Len(NetworkFields))
  BY DEF IInv, Types
<1>1. ASSUME /\ UNCHANGED <<live, network, outdated>>
             /\ \/ UNCHANGED call
                \/ \E r \in Requests : Issue(r) /\ Current(r)
                                       /\ (r = KernelOp \/ r.op \in {"network", "put"})
             /\ operating' \in BOOLEAN
             /\ operating' => operating \/ \E k \in Slots : call'[k] = KernelOp
             /\ kSelected' \in 0 .. ConfigMenuLen - 1
             /\ dialog' \in {"none", "edit", "viewer", "section"}
             /\ dialog' = "edit" => Selected(Len(kernelOps), Len(NetworkFields))'
             /\ mode' \in Modes /\ fetching' \subseteq Modes
             /\ shown' = "none" \/ UNCHANGED <<mode, shown>>
      PROVE  IInv'
  <2>1. /\ call' \in [Slots -> Requests]
        /\ (\A k \in Slots : Current(call[k]))' /\ ShowsTheKernel'
        /\ (\E k \in Slots : call[k] = KernelOp) => \E k \in Slots : call'[k] = KernelOp
    BY <1>1, KeyKeeps
  <2>2. DOMAIN call' = Slots /\ \A k \in Slots : RequestOK(call'[k])
    BY <2>1 DEF Requests
  <2>3. Types'
    BY <1>0, <1>1, <2>1, <2>2 DEF Types, TypeOK
  <2>4. BusyHasOperation'
    BY <1>1, <2>1 DEF IInv, BusyHasOperation
  <2>5. ShowsSelectedMode'
    BY <1>0, <1>1 DEF ShowsSelectedMode
  <2> QED
    BY <2>1, <2>3, <2>4, <2>5 DEF IInv
<1>2. \A c \in {KernelOp, FetchNetworkSettings} : c \in Requests /\ Current(c)
  BY Sent DEF Current, Reads, Puts
<1>3. CASE Visit
  <2>1. \E r \in Requests : Issue(r) /\ Current(r)
                            /\ (r = KernelOp \/ r.op \in {"network", "put"})
    BY <1>2, <1>3, Sent DEF Visit
  <2> QED
    BY <1>0, <1>1, <1>3, <2>1 DEF Visit, InMenu, viewer, TypeOK
<1>4. CASE Move
  <2>1. kSelected' \in 0 .. ConfigMenuLen - 1
    BY <1>0, <1>4, Menu DEF Move, TypeOK
  <2> QED
    BY <1>0, <1>1, <1>4, <2>1 DEF Move, InMenu, viewer, TypeOK
<1>5. CASE startKernelOp
  <2>1. \E r \in Requests : Issue(r) /\ Current(r)
                            /\ (r = KernelOp \/ r.op \in {"network", "put"})
    BY <1>2, <1>5, Sent DEF startKernelOp
  <2>2. \E k \in Slots : call'[k] = KernelOp
    BY <1>5, Sent, Issued DEF startKernelOp, IInv
  <2> QED
    BY <1>0, <1>1, <1>5, <2>1, <2>2 DEF startKernelOp, InMenu, viewer, TypeOK
<1>6. CASE startEditField
  BY <1>0, <1>1, <1>6 DEF startEditField, viewer, Selected, TypeOK
<1>7. CASE OpenViewer
  BY <1>0, <1>1, <1>7 DEF OpenViewer, TypeOK
<1>8. CASE SaveField
  <2>1. CASE UNCHANGED call
    BY <1>0, <1>1, <1>8, <2>1 DEF SaveField, viewer, TypeOK
  <2>2. ASSUME NEW v \in Vals,
               Issue(PutSection(KeyOf[editField], editField,
                                setField(editField, v), Doubtful))
        PROVE  IInv'
    <3>1. PICK old \in BOOLEAN : old = Doubtful
      BY DEF Doubtful
    <3> DEFINE r == PutSection(KeyOf[editField], editField,
                               setField(editField, v), old)
    <3>2. r \in Requests /\ r.op = "put" /\ Current(r)
      BY <1>8, <3>1, Written DEF SaveField
    <3>3. Issue(r)
      BY <2>2, <3>1
    <3> HIDE DEF r
    <3>4. \E c \in Requests : Issue(c) /\ Current(c)
                              /\ (c = KernelOp \/ c.op \in {"network", "put"})
      BY <3>2, <3>3
    <3> QED
      BY <1>0, <1>1, <1>8, <3>4 DEF SaveField, viewer, TypeOK
  <2> QED
    BY <1>8, <2>1, <2>2 DEF SaveField
<1>9. CASE Toggle
  BY <1>0, <1>1, <1>9 DEF Toggle, TypeOK
<1>10. CASE LeaveViewer
  BY <1>0, <1>1, <1>10 DEF LeaveViewer, viewer, TypeOK
<1>11. CASE SaveSection
  <2>1. CASE UNCHANGED call
    BY <1>0, <1>1, <1>11, <2>1 DEF SaveSection, viewer, TypeOK
  <2>2. ASSUME NEW key \in Keys, NEW value \in Sections(key),
               Issue(PutSection(key, "none", value, TRUE))
        PROVE  IInv'
    <3> DEFINE r == PutSection(key, "none", value, TRUE)
    <3>1. Free \in Shape /\ Free.at = "sent"
      BY Sent DEF Requests, Free
    <3>2. r = [Free EXCEPT !.op = "put", !.key = key, !.field = "none",
                           !.data = value, !.old = TRUE]
      BY DEF PutSection
    <3>3. /\ r \in Shape /\ r.op = "put" /\ r.at = "sent" /\ r.key = key
          /\ r.field = "none" /\ r.data = value /\ r.old = TRUE
      <4>1. value \in Values
        BY <2>2 DEF Values
      <4> QED
        BY <3>1, <3>2, <4>1 DEF Shape
    <3>4. r \in Requests /\ Current(r)
      BY <3>3, ConfigAssumption DEF Requests, RequestOK, Current
    <3> HIDE DEF r
    <3>5. \E c \in Requests : Issue(c) /\ Current(c)
                              /\ (c = KernelOp \/ c.op \in {"network", "put"})
      BY <2>2, <3>3, <3>4 DEF r
    <3> QED
      BY <1>0, <1>1, <1>11, <3>5 DEF SaveSection, viewer, TypeOK
  <2> QED
    BY <1>11, <2>1, <2>2 DEF SaveSection
<1> QED
  BY <1>3, <1>4, <1>5, <1>6, <1>7, <1>8, <1>9, <1>10, <1>11 DEF Key

-----------------------------------------------------------------------------
(* The server *)

\* A step at the server or a failure: the requests that carry settings are old.
LEMMA ServerKeeps ==
  ASSUME IInv, live' \in Settings, call' \in [Slots -> Requests],
         \A k \in Slots : Current(call[k])',
         \A k \in Slots : call[k] = KernelOp => call'[k] = KernelOp,
         UNCHANGED <<kSelected, dialog, operating, network, viewer>>,
         \/ outdated' = TRUE
         \/ outdated' = outdated
            /\ \E k \in Slots : call'[k].op \in {"network", "put"}
  PROVE  IInv'
<1>1. DOMAIN call' = Slots /\ \A k \in Slots : RequestOK(call'[k])
  BY DEF Requests
<1>2. outdated' \in BOOLEAN
  BY DEF IInv, Types, TypeOK
<1>3. Types'
  BY <1>1, <1>2 DEF IInv, Types, TypeOK, viewer, Selected
<1>4. BusyHasOperation' /\ ShowsSelectedMode'
  BY DEF IInv, BusyHasOperation, ShowsSelectedMode, viewer
<1>5. ShowsTheKernel'
  BY DEF ShowsTheKernel
<1> QED
  BY <1>3, <1>4, <1>5 DEF IInv

LEMMA ReadStep ==
  ASSUME IInv, NEW k \in Slots, ReadSettings(k)
  PROVE  IInv'
<1> DEFINE c == call'[k]
<1>1. call \in [Slots -> Requests] /\ live \in Settings
  BY DEF IInv, Types, TypeOK
<1>2. Aged[k] = FetchNetworkSettings /\ Aged \in [Slots -> Requests]
  BY <1>1, Ages, Sent DEF ReadSettings, Aged
<1>3. call' = [Aged EXCEPT ![k] = [FetchNetworkSettings EXCEPT !.at = "done",
                                                            !.data = live]]
  BY <1>2 DEF ReadSettings
<1>4. /\ c = [FetchNetworkSettings EXCEPT !.at = "done", !.data = live]
      /\ \A j \in Slots \ {k} : call'[j] = Aged[j]
  BY <1>2, <1>3
<1>5. c \in Shape /\ c.op = "network" /\ c.at = "done" /\ c.data = live
  BY <1>1, <1>4, Sent DEF Requests, Shape, Values
<1>6. c.old \in BOOLEAN
  BY <1>5 DEF Shape
<1>7. c \in Requests
  BY <1>1, <1>5, <1>6 DEF Requests, RequestOK
<1>8. call' \in [Slots -> Requests]
  BY <1>2, <1>3, <1>4, <1>7
<1>9. live' = live
  BY DEF ReadSettings
<1>10. \A j \in Slots : Current(call[j])'
  BY <1>1, <1>4, <1>5, <1>9, Ages DEF Current, Puts
<1>11. \A j \in Slots : call[j] = KernelOp => call'[j] = KernelOp
  BY <1>1, <1>4, Ages, Sent DEF ReadSettings
<1> QED
  BY <1>1, <1>5, <1>8, <1>9, <1>10, <1>11, ServerKeeps DEF ReadSettings

LEMMA PutStep ==
  ASSUME IInv, NEW k \in Slots, ServePut(k)
  PROVE  IInv'
<1>1. call \in [Slots -> Requests]
  BY DEF IInv, Types
<1>2. Aged \in [Slots -> Requests]
  BY <1>1, Ages
<1>3. /\ call' \in [Slots -> Requests] /\ call'[k] = Saved
      /\ \A j \in Slots \ {k} : call'[j] = Aged[j]
  BY <1>2, Sent DEF ServePut
<1>4. \A j \in Slots : Current(call[j])'
  BY <1>1, <1>3, Ages, Sent DEF Current, Reads, Puts
<1>5. \A j \in Slots : call[j] = KernelOp => call'[j] = KernelOp
  BY <1>1, <1>3, Ages, Sent DEF ServePut
<1>6. live' \in Settings
  BY DEF ServePut, Replace
<1> QED
  BY <1>3, <1>4, <1>5, <1>6, Sent, ServerKeeps DEF ServePut

LEMMA FailStep ==
  ASSUME IInv, NEW k \in Slots, Fail(k)
  PROVE  IInv'
<1>1. call \in [Slots -> Requests] /\ live \in Settings
  BY DEF IInv, Types, TypeOK
<1>2. Aged \in [Slots -> Requests]
  BY <1>1, Ages
<1>3. /\ call' \in [Slots -> Requests] /\ call'[k] = Free
      /\ \A j \in Slots \ {k} : call'[j] = Aged[j]
  BY <1>2, Sent DEF Fail
<1>4. \A j \in Slots : Current(call[j])'
  BY <1>1, <1>3, Ages, Sent DEF Current, Reads, Puts
<1>5. \A j \in Slots : call[j] = KernelOp => call'[j] = KernelOp
  BY <1>1, <1>3, Ages, Sent DEF Fail
<1>6. live' \in Settings
  BY <1>1 DEF Fail, Replace
<1> QED
  BY <1>3, <1>4, <1>5, <1>6, ServerKeeps DEF Fail

LEMMA OthersStep ==
  ASSUME IInv, OthersChange
  PROVE  IInv'
<1>1. call \in [Slots -> Requests]
  BY DEF IInv, Types
<1>2. /\ call' \in [Slots -> Requests]
      /\ \A j \in Slots : Current(call[j])'
      /\ \A j \in Slots : call[j] = KernelOp => call'[j] = KernelOp
  BY <1>1, Ages DEF OthersChange, Current
<1> QED
  BY <1>2, ServerKeeps DEF OthersChange

-----------------------------------------------------------------------------
(* Answers *)

LEMMA LoadedStep ==
  ASSUME IInv, NEW k \in Slots, SettingsLoaded(k)
  PROVE  IInv'
<1> DEFINE c == call[k]
<1>1. /\ call \in [Slots -> Requests] /\ c \in Requests
      /\ Reads(c) /\ RequestOK(c) /\ Current(c)
  BY DEF SettingsLoaded, IInv, Types, Requests, Reads
<1>2. /\ call' \in [Slots -> Requests] /\ call'[k] = Free
      /\ \A j \in Slots \ {k} : call'[j] = call[j]
  BY <1>1, Sent DEF SettingsLoaded
<1>3. c.data \in Settings
  BY <1>1, Sent DEF RequestOK, Reads
<1>4. c.old \in BOOLEAN
  BY <1>1 DEF Requests, Shape
<1>5. /\ network' = c.data /\ outdated' = c.old
      /\ UNCHANGED <<live, kSelected, dialog, operating, viewer>>
  BY DEF SettingsLoaded
<1>6. Types'
  <2>1. DOMAIN call' = Slots /\ \A j \in Slots : RequestOK(call'[j])
    BY <1>2 DEF Requests
  <2>2. outdated' \in BOOLEAN
    BY <1>4, <1>5
  <2> QED
    BY <1>2, <1>3, <1>5, <2>1, <2>2 DEF IInv, Types, TypeOK, viewer, Selected
<1>7. BusyHasOperation' /\ ShowsSelectedMode'
  BY <1>1, <1>2, <1>5, Sent DEF IInv, BusyHasOperation, ShowsSelectedMode, viewer, Reads
<1>8. \A j \in Slots : Current(call[j])'
  BY <1>2, <1>5, Sent DEF IInv, Current, Reads, Puts
<1>9. ShowsTheKernel'
  BY <1>1, <1>5 DEF ShowsTheKernel, Current
<1> QED
  BY <1>6, <1>7, <1>8, <1>9 DEF IInv

LEMMA EditedStep ==
  ASSUME IInv, NEW k \in Slots, SectionEdited(k)
  PROVE  IInv'
<1>1. call \in [Slots -> Requests]
  BY DEF IInv, Types
<1>2. /\ call' \in [Slots -> Requests] /\ call'[k] = FetchNetworkSettings
      /\ \A j \in Slots \ {k} : call'[j] = call[j]
  BY <1>1, Sent DEF SectionEdited
<1>3. /\ UNCHANGED <<live, kSelected, dialog, operating, network, mode, shown, outdated>>
      /\ fetching' = fetching \cup {mode} /\ call[k] = Saved
  BY DEF SectionEdited
<1>4. Types'
  <2>1. DOMAIN call' = Slots /\ \A j \in Slots : RequestOK(call'[j])
    BY <1>2 DEF Requests
  <2> QED
    BY <1>2, <1>3, <2>1 DEF IInv, Types, TypeOK, Selected
<1>5. BusyHasOperation' /\ ShowsSelectedMode'
  BY <1>2, <1>3, Sent DEF IInv, BusyHasOperation, ShowsSelectedMode
<1>6. \A j \in Slots : Current(call[j])'
  BY <1>2, <1>3, Sent DEF IInv, Current, Reads, Puts
<1>7. ShowsTheKernel'
  BY <1>2, Sent DEF ShowsTheKernel
<1> QED
  BY <1>4, <1>5, <1>6, <1>7 DEF IInv

\* The page is told that the kernel does nothing, or of a file's text.
LEMMA ToldStep ==
  ASSUME IInv, \/ \E k \in Slots : OperationEnded(k)
               \/ StatusPolled
               \/ \E m \in Modes : ConfigLoaded(m)
               \/ UNCHANGED vars
  PROVE  IInv'
<1>1. CASE \E k \in Slots : OperationEnded(k)
  <2>1. PICK k \in Slots : OperationEnded(k)
    BY <1>1
  <2>2. /\ call' \in [Slots -> Requests] /\ call'[k] = Free
        /\ \A j \in Slots \ {k} : call'[j] = call[j]
    BY <2>1, Sent DEF IInv, Types, OperationEnded
  <2>3. /\ UNCHANGED <<live, kSelected, dialog, network, viewer, outdated>>
        /\ operating' = FALSE /\ call[k].op = "kernel"
    BY <2>1 DEF OperationEnded
  <2>4. DOMAIN call' = Slots /\ \A j \in Slots : RequestOK(call'[j])
    BY <2>2 DEF Requests
  <2>5. Types'
    BY <2>2, <2>3, <2>4 DEF IInv, Types, TypeOK, viewer, Selected
  <2>6. BusyHasOperation' /\ ShowsSelectedMode'
    BY <2>3 DEF IInv, BusyHasOperation, ShowsSelectedMode, viewer
  <2>7. \A j \in Slots : Current(call[j])'
    BY <2>2, <2>3, Sent DEF IInv, Current, Reads, Puts
  <2>8. ShowsTheKernel'
    BY <2>2, <2>3 DEF IInv, ShowsTheKernel
  <2> QED
    BY <2>5, <2>6, <2>7, <2>8 DEF IInv
<1>2. ASSUME UNCHANGED <<live, kSelected, dialog, network, mode, call, outdated>>,
             operating' \in BOOLEAN, operating' => operating,
             fetching' \subseteq fetching, shown' \in {shown, mode}
      PROVE  IInv'
  <2>1. Types'
    BY <1>2 DEF IInv, Types, TypeOK, Selected
  <2>2. BusyHasOperation' /\ ShowsSelectedMode'
    BY <1>2 DEF IInv, BusyHasOperation, ShowsSelectedMode
  <2>3. ShowsTheKernel' /\ \A j \in Slots : Current(call[j])'
    BY <1>2 DEF IInv, ShowsTheKernel, Current
  <2> QED
    BY <2>1, <2>2, <2>3 DEF IInv
<1>3. CASE StatusPolled
  BY <1>2, <1>3 DEF StatusPolled, viewer
<1>4. operating \in BOOLEAN
  BY DEF IInv, Types, TypeOK
<1>5. CASE \E m \in Modes : ConfigLoaded(m)
  BY <1>2, <1>4, <1>5 DEF ConfigLoaded
<1>6. CASE UNCHANGED vars
  BY <1>2, <1>4, <1>6 DEF vars, viewer
<1> QED
  BY <1>1, <1>3, <1>5, <1>6

-----------------------------------------------------------------------------

LEMMA StepInv == IInv /\ [Next]_vars => IInv'
<1> SUFFICES ASSUME IInv, [Next]_vars PROVE IInv'
  OBVIOUS
<1>1. CASE Key
  BY <1>1, KeyStep
<1>2. CASE Server
  BY <1>2, ReadStep, PutStep, OthersStep DEF Server
<1>3. CASE Answer
  BY <1>3, LoadedStep, EditedStep, FailStep, ToldStep DEF Answer
<1>4. CASE UNCHANGED vars
  BY <1>4, ToldStep
<1> QED
  BY <1>1, <1>2, <1>3, <1>4 DEF Next

LEMMA Invariance == Spec => []IInv
BY InitInv, StepInv, PTL DEF Spec

-----------------------------------------------------------------------------

\* Every variable of the tab keeps its type, the spinner never outlives the
\* kernel operation it was started for, and the viewer never has one file's text
\* under the other's title, for any menu and any number of requests under way.
THEOREM PartsFit == Spec => []PageOK
BY Invariance, PTL DEF IInv, Types, PageOK

\* Once every request is answered the menu shows what the kernel runs with
\* (NetworkSettingsMsg and SectionEditMsg of route_msg.go), however many requests
\* were under way at once and in whatever order they were answered.
THEOREM AnswersShowTheKernel == Spec => []ShowsTheKernel
BY Invariance, PTL DEF IInv

\* The object that an edit writes back (setField of net.go) has the field changed
\* and all others as the server has them, if they were on the page and nobody
\* came in between: for any fields, values and requests under way.
THEOREM EditsOneField == Spec => EditKeepsTheRest
<1> DEFINE Kept ==
      \A k \in Slots :
        /\ call[k].op = "put" /\ call[k].at = "sent"
        /\ call[k].field \in Fields /\ ~call[k].old
        /\ call'[k] = Saved
        => \A f \in Fields \ {call[k].field} : live'[f] = live[f]
<1>1. IInv /\ [Next]_vars => [Kept]_vars
  <2> SUFFICES ASSUME IInv, Next, NEW k \in Slots,
                      Puts(call[k]), ~call[k].old, call'[k] = Saved,
                      NEW f \in Fields \ {call[k].field}
               PROVE  live'[f] = live[f]
    BY DEF Puts
  <2> DEFINE c == call[k]
  <2>1. /\ call \in [Slots -> Requests]
        /\ DOMAIN c.data = {g \in Fields : KeyOf[g] = c.key}
        /\ \A g \in DOMAIN c.data \ {c.field} : c.data[g] = live[g]
    BY DEF IInv, Types, Current
  <2>2. c \in Requests /\ Aged[k] \in Requests
    BY <2>1, Ages
  <2>3. c # Saved /\ c # Free /\ c # FetchNetworkSettings /\ c # KernelOp
    BY Sent DEF Puts
  <2>4. Aged[k] # Saved
    BY <2>1, Ages, Sent DEF Puts
  <2>5. ASSUME Replace(c.key, c.data) PROVE live'[f] = live[f]
    BY <2>1, <2>5 DEF Replace
  <2>6. ASSUME NEW j \in Slots, ServePut(j) PROVE live'[f] = live[f]
    <3>1. j = k
      BY <2>1, <2>4, <2>6, Ages DEF ServePut
    <3> QED
      BY <2>5, <2>6, <3>1 DEF ServePut
  <2>7. ASSUME NEW j \in Slots, ReadSettings(j) \/ Fail(j) PROVE FALSE
    <3>1. Aged \in [Slots -> Requests] /\ j # k => call'[k] = Aged[k]
      BY <2>1, <2>7, Ages DEF ReadSettings, Fail
    <3>2. j = k
      BY <2>1, <2>4, <3>1, Ages
    <3> QED
      BY <2>1, <2>3, <2>7, <3>2, Ages, Sent DEF ReadSettings, Fail
  <2>8. ~OthersChange
    BY <2>4 DEF OthersChange
  <2>9. ASSUME NEW j \in Slots,
               SettingsLoaded(j) \/ SectionEdited(j) \/ OperationEnded(j)
        PROVE  FALSE
    BY <2>1, <2>3, <2>9, Sent DEF SettingsLoaded, SectionEdited, OperationEnded, Puts
  <2>10. ASSUME NEW r, Issue(r) PROVE FALSE
    BY <2>1, <2>3, <2>10, Sent DEF Issue
  <2>11. ~UNCHANGED call
    BY <2>3
  <2>12. ~Key
    BY <2>10, <2>11 DEF Key, Visit, Move, startKernelOp, startEditField, OpenViewer,
                       SaveField, Toggle, LeaveViewer, SaveSection
  <2>13. ~StatusPolled /\ ~ \E m \in Modes : ConfigLoaded(m)
    BY <2>11 DEF StatusPolled, ConfigLoaded
  <2> QED
    BY <2>6, <2>7, <2>8, <2>9, <2>12, <2>13 DEF Next, Server, Answer
<1> QED
  BY <1>1, Invariance, PTL DEF Spec, EditKeepsTheRest

\* The frame is left without a label for the running operation, which ends the
\* program (view_frame.go), only by the keys that move the selection, for any menu.
THEOREM OnlyMovingLosesTheLabel == Spec => LabelLostOnlyByMoving
<1> DEFINE Lost == Drawn /\ ~Drawn' => operating /\ dialog = "none" /\ UNCHANGED call
<1>1. IInv /\ [Next]_vars => [Lost]_vars
  <2> SUFFICES ASSUME IInv, Next, Drawn, ~Drawn'
               PROVE  operating /\ dialog = "none" /\ UNCHANGED call
    OBVIOUS
  <2>1. operating' /\ ~(kSelected' < Len(kernelOps))
    BY DEF Drawn
  <2>2. ~UNCHANGED <<operating, kSelected>>
    BY <2>1 DEF Drawn
  <2>3. Len(kernelOps) = 3 /\ kSelected \in Nat
    BY Menu DEF IInv, Types, TypeOK
  <2>4. ~startKernelOp
    BY <2>1, <2>3 DEF startKernelOp, Selected
  <2>5. Move
    BY <2>1, <2>2, <2>4
       DEF Next, Key, Server, Answer, Visit, startEditField, OpenViewer, SaveField,
           Toggle, LeaveViewer, SaveSection, ReadSettings, ServePut, Fail,
           OthersChange, SettingsLoaded, SectionEdited, OperationEnded,
           StatusPolled, ConfigLoaded
  <2> QED
    BY <2>1, <2>5 DEF Move, InMenu
<1> QED
  BY <1>1, Invariance, PTL DEF Spec, LabelLostOnlyByMoving
=============================================================================
