-------------------------- MODULE EvidenceVaultProofs ---------------------------
(* The vault keeps its promises for any subjects, contents, formats, stores of *)
(* any size and any number of processes, failures, crashes and keys.           *)
EXTENDS EvidenceVault, FiniteSetTheorems, WellFoundedInduction, TLAPS

-----------------------------------------------------------------------------
(* The inductive invariant                                                   *)

CleanUp == {"expire", "expireExports", "dropExpired", "orphans", "reschedule"}
\* The steps each operation takes.
Path == [
  put |-> CleanUp \cup {"register", "tighten", "live", "schedule", "report"},
  status |-> CleanUp \cup {"live", "report"},
  export |-> CleanUp \cup {"live", "write", "rename", "index", "schedule", "report"},
  purge |-> {"purgeExports", "dropPurged", "reschedule", "purgeRecords", "schedule", "report"},
  rotate |-> {"reseal"},
  cleanup |-> CleanUp \cup {"report"}]

OnPath == tx = NoTx \/ (tx.kind \in Kinds /\ tx.pc \in Path[tx.kind])
Counted == IsFiniteSet(Live(evidence)) /\ IsFiniteSet(Live(index))

\* A record that is tightened to or exported has not gone since it was read.
HasRecord == tx.pc \in {"tighten", "write", "rename", "index"} => evidence[Ref] # None
\* An entry goes after its file.
FileFirst == tx.pc \in {"dropExpired", "dropPurged"} => disk[tx.unlinked] = "none"
TornMeanwhile == tx.pc = "tighten" => Ref \in torn
ExportEntered == (tx.kind = "export" /\ tx.pc \in {"schedule", "report"}) => index[tx.export] # None
\* No transaction stores anything of a subject reported purged.
NotPurged == tx.kind \in {"put", "export"} => SubjectOf(Ref) \notin purged
PurgeSoFar ==
  tx.kind = "purge" =>
    /\ tx.pc \notin {"purgeExports", "dropPurged"} =>
         \A x \in Live(index) : SubjectOf(RefOf(x)) # SubjectOf(Ref)
    /\ tx.pc \in {"schedule", "report"} => \A r \in Live(evidence) : SubjectOf(r) # SubjectOf(Ref)
\* Once the rotation is reported, or no previous key is left, one key seals all.
OneKey == (keys.rotated \/ ~keys.previous) => \A s \in Stores : keys.sealed[s] = keys.active

Sound == TypeOK /\ Counted /\ OnPath /\ HasRecord
KeyRing == [active : Nat, previous : BOOLEAN, rotated : BOOLEAN, sealed : [Stores -> Nat]]
SealedByRing == keys \in KeyRing /\ OneKey /\ EveryStoreOpens
Retained == TornMeanwhile /\ ExportWithinRetention
Tracked == ExportEntered /\ FileFirst /\ ReportedExportTracked
Purged == NotPurged /\ PurgeSoFar /\ PurgeIsComplete
VaultInv == Sound /\ SealedByRing /\ Retained /\ Tracked /\ Purged

-----------------------------------------------------------------------------
(* Numbers and records                                                       *)

LEMMA LessIsWellFounded == IsWellFoundedOn({ss \in Nat \X Nat : ss[1] < ss[2]}, Nat)
  BY NatLessThanWellFounded DEF OpToRel

\* Min finds the least of any naturals.
LEMMA MinLeast ==
  ASSUME NEW S, S \subseteq Nat, S # {}
  PROVE  Min(S) \in S /\ \A y \in S : Min(S) <= y
<1> DEFINE R == {ss \in Nat \X Nat : ss[1] < ss[2]}
<1>1. PICK x \in S : \A y \in S : ~ (<<y, x>> \in R)
  <2> HIDE DEF R
  <2>1. IsWellFoundedOn(R, Nat) BY LessIsWellFounded DEF R
  <2> QED BY <2>1, WFMin
<1>2. ASSUME NEW y \in S PROVE x <= y
  <2>1. x \in Nat /\ y \in Nat OBVIOUS
  <2>2. <<y, x>> \in Nat \X Nat /\ <<y, x>>[1] = y /\ <<y, x>>[2] = x
    BY <2>1
  <2>3. ~ (<<y, x>>[1] < <<y, x>>[2])
    BY <1>1, <2>2
  <2> QED BY <2>1, <2>2, <2>3
<1> QED BY <1>2 DEF Min

LEMMA MinPair ==
  ASSUME NEW a \in Int, NEW b \in Int
  PROVE  Min({a, b}) = IF a <= b THEN a ELSE b
<1>1. \E x \in {a, b} : \A y \in {a, b} : x <= y OBVIOUS
<1>2. Min({a, b}) \in {a, b} /\ \A y \in {a, b} : Min({a, b}) <= y
  BY <1>1 DEF Min
<1> QED BY <1>2

LEMMA MaxPair ==
  ASSUME NEW a \in Int, NEW b \in Int
  PROVE  Max({a, b}) = IF a <= b THEN b ELSE a
<1>1. \E x \in {a, b} : \A y \in {a, b} : x >= y OBVIOUS
<1>2. Max({a, b}) \in {a, b} /\ \A y \in {a, b} : Max({a, b}) >= y
  BY <1>1 DEF Max
<1> QED BY <1>2

LEMMA NoneIsNoRecord == None \notin Record /\ None.expires = Never
  BY DEF None, Record, Never

LEMMA Idle ==
  /\ NoTx \in Tx /\ NoTx.kind = "none" /\ NoTx.pc = "idle" /\ ~NoTx.failing
  /\ NoTx.export \in Exports /\ NoTx.retention \in Retentions /\ NoTx.unlinked \in Exports
<1>1. Exports # {}
  <2>1. PICK s \in Subjects, c \in Contents, f \in Formats : TRUE
    BY VaultAssumption
  <2>2. <<<<s, c>>, f>> \in Exports
    BY <2>1 DEF Exports, Refs
  <2> QED BY <2>2
<1>2. Retentions # {}
  BY VaultAssumption
<1>3. (CHOOSE x \in Exports : TRUE) \in Exports /\ (CHOOSE d \in Retentions : TRUE) \in Retentions
  BY <1>1, <1>2
<1> QED BY <1>3 DEF NoTx, Tx, Steps

\* A full store makes room: the new record stays, others stay or go.
LEMMA RoomMade ==
  ASSUME NEW D, NEW f \in [D -> Record \cup {None}], IsFiniteSet(Live(f)),
         NEW k \in D, f[k] # None, NEW max \in Nat, NEW g \in MakesRoom(f, k, max)
  PROVE  /\ g \in [D -> Record \cup {None}]
         /\ g[k] = f[k] /\ \A j \in D : g[j] \in {f[j], None}
         /\ IsFiniteSet(Live(g)) /\ Cardinality({j \in D : g[j] # None}) <= max
<1>1. PICK d \in SUBSET (Live(f) \ {k}) :
        /\ Cardinality(Live(f) \ d) = Min({Cardinality(Live(f)), max})
        /\ g = [j \in DOMAIN f |-> IF j \in d THEN None ELSE f[j]]
  BY DEF MakesRoom
<1>2. g \in [D -> Record \cup {None}] /\ g[k] = f[k] /\ \A j \in D : g[j] \in {f[j], None}
  BY <1>1
<1>3. Live(g) = Live(f) \ d /\ {j \in D : g[j] # None} = Live(f) \ d
  BY <1>1 DEF Live
<1>4. IsFiniteSet(Live(g))
  BY <1>3, FS_Subset
<1>5. Cardinality(Live(f)) \in Nat
  BY FS_CardinalityType
<1>6. Min({Cardinality(Live(f)), max}) <= max
  BY <1>5, MinPair
<1> QED BY <1>1, <1>2, <1>3, <1>4, <1>6

\* Removing a record, or replacing one, keeps a store within its bound.
LEMMA Fewer ==
  ASSUME NEW D, NEW f \in [D -> Record \cup {None}], IsFiniteSet(Live(f)), NEW max \in Nat,
         Cardinality({j \in D : f[j] # None}) <= max,
         NEW g \in [D -> Record \cup {None}], \A j \in D : g[j] # None => f[j] # None
  PROVE  IsFiniteSet(Live(g)) /\ Cardinality({j \in D : g[j] # None}) <= max
<1>1. Live(f) = {j \in D : f[j] # None} /\ Live(g) = {j \in D : g[j] # None}
  BY DEF Live
<1>2. Live(g) \in SUBSET Live(f)
  BY <1>1
<1>3. IsFiniteSet(Live(g)) /\ Cardinality(Live(g)) <= Cardinality(Live(f))
  BY <1>2, FS_Subset
<1>4. Cardinality(Live(g)) \in Nat /\ Cardinality(Live(f)) \in Nat
  BY <1>3, FS_CardinalityType
<1> QED BY <1>1, <1>3, <1>4

LEMMA NextCleanupTyped ==
  ASSUME TypeOK
  PROVE  NextCleanup \in Nat \cup {Never}
<1>1. Expiries \subseteq Nat
  BY DEF TypeOK, Expiries, Live, Record, None
<1>2. CASE Expiries = {}
  BY <1>2 DEF NextCleanup
<1>3. CASE Expiries # {}
  <2>1. Min(Expiries) \in Nat
    BY <1>1, <1>3, MinLeast
  <2>2. now \in Nat /\ now + MaxDelay \in Nat
    BY ClockAssumption, VaultAssumption DEF TypeOK, ClockTypeOK
  <2>3. Max({now, Min(Expiries)}) \in Nat
    BY <2>1, <2>2, MaxPair
  <2>4. Min({now + MaxDelay, Max({now, Min(Expiries)})}) \in Nat
    <3> DEFINE m == Max({now, Min(Expiries)})
    <3> HIDE DEF m
    <3>1. m \in Nat BY <2>3 DEF m
    <3>2. Min({now + MaxDelay, m}) = IF now + MaxDelay <= m THEN now + MaxDelay ELSE m
      BY <2>2, <3>1, MinPair
    <3>3. Min({now + MaxDelay, m}) \in Nat BY <2>2, <3>1, <3>2
    <3> QED BY <3>3 DEF m
  <2> QED BY <1>3, <2>4 DEF NextCleanup
<1> QED BY <1>2, <1>3

-----------------------------------------------------------------------------
(* Types, bounds and the steps of each operation                             *)

LEMMA InitSound == Init => Sound
<1> SUFFICES ASSUME Init PROVE Sound
  OBVIOUS
<1>1. Live(evidence) = {} /\ Live(index) = {}
  BY DEF Init, Live
<1>2. {r \in Refs : evidence[r] # None} = {} /\ {x \in Exports : index[x] # None} = {}
  BY DEF Init
<1>3. IsFiniteSet({}) /\ Cardinality({}) = 0
  BY FS_EmptySet
<1>4. ClockTypeOK
  BY ClockAssumption DEF Init, ClockInit, ClockTypeOK
<1>5. MaxRecords \in Nat /\ MaxExports \in Nat
  BY VaultAssumption
<1>6. TypeOK
  <2>1. /\ evidence \in [Refs -> Record \cup {None}] /\ index \in [Exports -> Record \cup {None}]
        /\ disk \in [Exports -> {"none", "written", "reported"}] /\ temps \subseteq Exports
        /\ timer \in [Procs -> Nat \cup {Never}] /\ process \in [Procs -> {"down", "starting", "up"}]
    BY DEF Init
  <2>2. /\ tx \in Tx /\ unplanned \in BOOLEAN
        /\ torn \subseteq Refs /\ purged \subseteq Subjects /\ evicted \subseteq Exports
        /\ spent \in [{"calls", "failures", "crashes"} -> Nat]
    BY Idle DEF Init
  <2>3. keys \in [active : Nat, previous : BOOLEAN, rotated : BOOLEAN, sealed : [Stores -> Nat]]
    BY DEF Init
  <2>4. /\ Cardinality({r \in Refs : evidence[r] # None}) <= MaxRecords
        /\ Cardinality({x \in Exports : index[x] # None}) <= MaxExports
    <3>1. 0 <= MaxRecords /\ 0 <= MaxExports BY <1>5
    <3> QED BY <1>2, <1>3, <3>1, Zenon
  <2> QED BY <1>4, <2>1, <2>2, <2>3, <2>4 DEF TypeOK
<1> QED BY <1>1, <1>3, <1>6, Idle DEF Sound, Counted, OnPath, HasRecord, Init

\* The steps that remove a file and its entry.
LEMMA ClearsStayOnPath ==
  ASSUME TypeOK, OnPath, ExpireExports \/ PurgeExports \/ DropEntry
  PROVE  tx' \in Tx /\ OnPath'
<1>0. tx \in Tx /\ NoTx.pc = "idle" /\ NoTx.unlinked \in Exports BY Idle DEF TypeOK
<1>1. /\ tx.kind \in Kinds
      /\ \/ tx.pc \in {"expireExports", "dropExpired"} /\ tx.kind \in {"put", "status", "export", "cleanup"}
         \/ tx.pc \in {"purgeExports", "dropPurged"} /\ tx.kind = "purge"
  <2>1. tx.pc \in {"expireExports", "purgeExports", "dropExpired", "dropPurged"}
    BY DEF ExpireExports, PurgeExports, DropEntry, At
  <2> QED BY <1>0, <2>1 DEF OnPath, Path, CleanUp, Kinds
<1>2. PICK x \in Exports, pc \in Steps :
        /\ tx' = [tx EXCEPT !.pc = pc, !.unlinked = x]
        /\ \/ tx.pc \in {"expireExports", "dropExpired"} /\ pc \in {"expireExports", "dropExpired", "orphans"}
           \/ tx.pc \in {"purgeExports", "dropPurged"} /\ pc \in {"purgeExports", "dropPurged", "reschedule"}
  <2>1. tx = [tx EXCEPT !.unlinked = tx.unlinked] /\ tx.unlinked \in Exports BY <1>0 DEF Tx
  <2>2. ASSUME NEW pc \in Steps, Goes(pc)
        PROVE  tx' = [tx EXCEPT !.pc = pc, !.unlinked = tx.unlinked]
    BY <1>0, <2>1, <2>2 DEF Goes, Tx
  <2>3. CASE ExpireExports
    BY <2>1, <2>2, <2>3 DEF ExpireExports, At, Live, TypeOK, Steps
  <2>4. CASE PurgeExports
    BY <2>1, <2>2, <2>4 DEF PurgeExports, HisExports, At, Live, TypeOK, Steps
  <2>5. CASE DropEntry
    BY <1>0, <2>5 DEF DropEntry, At, Steps
  <2> QED BY <2>3, <2>4, <2>5
<1>3. tx' \in Tx /\ tx'.kind = tx.kind /\ tx'.pc = pc
  BY <1>0, <1>2 DEF Tx
<1> QED BY <1>1, <1>2, <1>3 DEF OnPath, Path, CleanUp, Kinds

\* The transaction a step leaves is one of the code's, at one of its steps.
LEMMA StepsStayOnPath ==
  ASSUME TypeOK, OnPath, Next
  PROVE  tx' \in Tx /\ OnPath'
<1> USE DEF TypeOK, OnPath, Path, CleanUp, Kinds
<1>0. NoTx \in Tx /\ NoTx.pc = "idle" /\ NoTx.kind = "none" BY Idle
<1>1. CASE Expire
  BY <1>0, <1>1 DEF Expire, Goes, At, Tx, Steps
<1>a. CASE ExpireExports \/ PurgeExports \/ DropEntry
  BY <1>a, ClearsStayOnPath DEF TypeOK, OnPath
<1>2. CASE Orphans
  BY <1>0, <1>2 DEF Orphans, At, Tx, Steps
<1>3. CASE Reschedule
  BY <1>0, <1>3 DEF Reschedule, AfterCleanup, Goes, At, Tx, Steps
<1>4. CASE PutRegisters \/ PutTightens
  BY <1>0, <1>4 DEF PutRegisters, PutTightens, Goes, At, Tx, Steps
<1>5. CASE ReadsLive
  <2>1. \/ tx' = NoTx
        \/ tx' = [tx EXCEPT !.pc = "expireExports", !.failing = TRUE]
        \/ Goes(CASE tx.kind = "put" -> "schedule"
                  [] tx.kind = "status" -> "report"
                  [] tx.kind = "export" -> "write")
    BY <1>5 DEF ReadsLive
  <2>2. tx # NoTx /\ tx \in Tx /\ tx.kind \in {"put", "status", "export"} /\ tx.pc = "live"
    BY <1>0, <1>5 DEF ReadsLive, At
  <2>3. PICK pc \in {"expireExports", "schedule", "report", "write"} :
          \/ tx' = NoTx
          \/ tx' = [tx EXCEPT !.pc = pc, !.failing = TRUE] /\ pc = "expireExports"
          \/ /\ tx' = [tx EXCEPT !.pc = pc]
             /\ \/ tx.kind = "put" /\ pc = "schedule"
                \/ tx.kind = "status" /\ pc = "report"
                \/ tx.kind = "export" /\ pc = "write"
    BY <2>1, <2>2 DEF Goes
  <2> HIDE DEF TypeOK, OnPath, Kinds
  <2>4. CASE tx' = [tx EXCEPT !.pc = pc, !.failing = TRUE] /\ pc = "expireExports"
    <3>1. tx' \in Tx /\ tx'.kind = tx.kind /\ tx'.pc = pc
      BY <2>2, <2>4 DEF Tx, Steps
    <3> QED BY <2>2, <2>4, <3>1 DEF OnPath, Kinds
  <2>5. CASE tx' = [tx EXCEPT !.pc = pc]
    <3>1. tx' \in Tx /\ tx'.kind = tx.kind /\ tx'.pc = pc
      BY <2>2, <2>5 DEF Tx, Steps
    <3> QED BY <1>0, <2>2, <2>3, <2>5, <3>1 DEF OnPath, Kinds
  <2> QED BY <1>0, <2>3, <2>4, <2>5 DEF OnPath
<1>6. CASE ExportWrites \/ ExportRenames \/ ExportRegisters
  BY <1>0, <1>6 DEF ExportWrites, ExportRenames, ExportRegisters, Goes, At, Tx, Steps
<1>7. CASE PurgeRecords
  BY <1>0, <1>7 DEF PurgeRecords, Goes, At, Tx, Steps
<1>8. CASE Schedule \/ Report
  BY <1>0, <1>8 DEF Schedule, Report, Goes, At, Tx, Steps
<1>9. CASE IndexRefused \/ StepFails \/ ExportUnregistered \/ Rotate \/ RotatePartly
  BY <1>0, <1>9 DEF IndexRefused, StepFails, ExportUnregistered, Rotate, RotatePartly, Aborts
<1>10. CASE ConfigureKey \/ RemovePreviousKey \/ Tick
  BY <1>10 DEF ConfigureKey, RemovePreviousKey, Tick
<1>11. ASSUME NEW p \in Procs, NEW kind \in Kinds \ {"cleanup"}, NEW x \in Exports,
              NEW d \in Retentions, Call(p, kind, x, d)
       PROVE  tx' \in Tx /\ OnPath'
  <2>1. tx' \in Tx /\ tx'.kind = kind
        /\ tx'.pc = CASE kind = "purge" -> "purgeExports" [] kind = "rotate" -> "reseal" [] OTHER -> "expire"
    BY <1>0, <1>11, Idle DEF Call, Begin, Tx, Steps, Triggers
  <2> QED BY <2>1
<1>12. ASSUME NEW p \in Procs, Startup(p) \/ TimerFires(p)
       PROVE  tx' \in Tx /\ OnPath'
  <2>1. PICK trigger \in Triggers : Begin(trigger, "cleanup", p, NoTx.export, NoTx.retention, "expire")
    BY <1>12 DEF Startup, TimerFires, Triggers
  <2> HIDE DEF TypeOK, OnPath
  <2>2. NoTx.export \in Exports /\ NoTx.retention \in Retentions /\ NoTx.unlinked \in Exports
    BY Idle
  <2>3. tx' \in Tx /\ tx'.kind = "cleanup" /\ tx'.pc = "expire"
    BY <2>1, <2>2 DEF Begin, Tx, Steps
  <2> QED BY <2>3 DEF OnPath
<1>13. ASSUME NEW p \in Procs, Crash(p) \/ Restart(p)
       PROVE  tx' \in Tx /\ OnPath'
  BY <1>0, <1>13 DEF Crash, Restart
<1> QED BY <1>1, <1>a, <1>2, <1>3, <1>4, <1>5, <1>6, <1>7, <1>8, <1>9, <1>10, <1>11, <1>12, <1>13
        DEF Next, Step, VaultStep

-----------------------------------------------------------------------------
(* The stores                                                                *)

Fits(f, K, max) ==
  f \in [K -> Record \cup {None}] /\ IsFiniteSet(Live(f)) /\ Cardinality({k \in K : f[k] # None}) <= max

LEMMA Replaced ==
  ASSUME NEW K, NEW max \in Nat, NEW f, Fits(f, K, max), NEW k \in K, NEW r \in Record \cup {None},
         r # None => f[k] # None
  PROVE  Fits([f EXCEPT ![k] = r], K, max)
<1> DEFINE g == [f EXCEPT ![k] = r]
<1>1. f \in [K -> Record \cup {None}] /\ IsFiniteSet(Live(f)) /\ Cardinality({j \in K : f[j] # None}) <= max
  BY DEF Fits
<1>2. g \in [K -> Record \cup {None}] /\ \A j \in K : g[j] # None => f[j] # None
  BY <1>1
<1> HIDE DEF g
<1>3. IsFiniteSet(Live(g)) /\ Cardinality({j \in K : g[j] # None}) <= max
  BY <1>1, <1>2, Fewer
<1> QED BY <1>2, <1>3 DEF Fits, g

LEMMA Added ==
  ASSUME NEW K, NEW max \in Nat, NEW f, Fits(f, K, max), NEW k \in K, NEW r \in Record,
         NEW g \in MakesRoom([f EXCEPT ![k] = r], k, max)
  PROVE  /\ Fits(g, K, max)
         /\ g[k] = r /\ \A j \in K \ {k} : g[j] \in {f[j], None}
<1> DEFINE h == [f EXCEPT ![k] = r]
<1>1. f \in [K -> Record \cup {None}] /\ IsFiniteSet(Live(f))
  BY DEF Fits
<1>2. h \in [K -> Record \cup {None}] /\ h[k] = r /\ \A j \in K \ {k} : h[j] = f[j]
  BY <1>1
<1>3. h[k] # None
  BY <1>2, NoneIsNoRecord
<1> HIDE DEF h
<1>4. Live(h) \in SUBSET (Live(f) \cup {k})
  BY <1>1, <1>2 DEF Live
<1>5. IsFiniteSet(Live(h))
  BY <1>1, <1>4, FS_AddElement, FS_Subset
<1>6. g \in MakesRoom(h, k, max)
  BY DEF h
<1>7. /\ g \in [K -> Record \cup {None}] /\ g[k] = h[k] /\ \A j \in K : g[j] \in {h[j], None}
      /\ IsFiniteSet(Live(g)) /\ Cardinality({j \in K : g[j] # None}) <= max
  <2>1. h \in [K -> Record \cup {None}] BY <1>2
  <2>2. IsFiniteSet(Live(h)) /\ h[k] # None /\ k \in K /\ max \in Nat /\ g \in MakesRoom(h, k, max)
    BY <1>3, <1>5, <1>6
  <2> QED BY ONLY <2>1, <2>2, RoomMade, SMTT(60)
<1> QED BY <1>2, <1>7 DEF Fits

LEMMA FreshRecords ==
  ASSUME TypeOK
  PROVE  /\ [created |-> now, expires |-> now + tx.retention, stored |-> now,
             retention |-> tx.retention] \in Record
         /\ \A r \in Record :
              /\ RetainedBy(r) \in Record /\ RetainedBy(r).created = r.created
              /\ RetainedBy(r).expires <= r.expires
              /\ [created |-> now, expires |-> r.expires, stored |-> now,
                  retention |-> r.retention] \in Record
<1>1. now \in Nat /\ tx.retention \in Nat
  <2>1. now \in Nat BY ClockAssumption DEF TypeOK, ClockTypeOK
  <2>2. tx.retention \in Retentions BY DEF TypeOK, Tx
  <2>3. Retentions \subseteq Nat BY VaultAssumption
  <2> QED BY <2>1, <2>2, <2>3
<1>2. ASSUME NEW r \in Record
      PROVE  /\ RetainedBy(r) \in Record /\ RetainedBy(r).created = r.created
             /\ RetainedBy(r).expires <= r.expires
  <2>1. r.created \in Nat /\ r.expires \in Nat /\ r.retention \in Nat BY DEF Record
  <2>2. r.created + tx.retention \in Nat BY <1>1, <2>1
  <2> DEFINE e == Min({r.expires, r.created + tx.retention})
             d == Min({r.retention, tx.retention})
  <2>3. e \in Nat /\ e <= r.expires BY <2>1, <2>2, MinPair
  <2>4. d \in Nat BY <1>1, <2>1, MinPair
  <2>5. RetainedBy(r) = [created |-> r.created, expires |-> e, stored |-> now, retention |-> d]
    BY DEF RetainedBy
  <2> HIDE DEF e, d
  <2> QED BY <1>1, <2>1, <2>3, <2>4, <2>5 DEF Record
<1> QED BY <1>1, <1>2 DEF Record

\* What a step does to the stores.
Keeps == UNCHANGED stores
Loses == (\E r \in Refs : Forgets(r)) \/ (\E x \in Exports : Unlists(x))
Snapshots == At("register") /\ StoresSnapshot
Tightening == At("tighten") /\ \E x \in Late : Tightens(x)
Listing == At("index") /\ Lists

LEMMA StoreEffects ==
  ASSUME TypeOK, Next
  PROVE  Keeps \/ Loses \/ Snapshots \/ Tightening \/ Listing
<1>0. /\ tx.unlinked \in Exports /\ Ref \in Refs /\ HisRecords \subseteq Refs
  BY DEF TypeOK, Tx, Ref, RefOf, Exports, HisRecords, Live
<1>1. CASE Expire \/ ReadsLive \/ PurgeRecords \/ DropEntry
  BY <1>0, <1>1 DEF Expire, ReadsLive, PurgeRecords, DropEntry, Keeps, Loses
<1>2. CASE PutRegisters \/ PutTightens \/ ExportRegisters
  BY <1>2 DEF PutRegisters, PutTightens, ExportRegisters, Keeps, Snapshots, Tightening, Listing
<1>3. CASE StepFails
  BY <1>0, <1>3 DEF StepFails, StoreWrite, Keeps, Loses, Snapshots, Tightening
<1>4. CASE ExportUnregistered
  BY <1>4 DEF ExportUnregistered, Keeps, Listing
<1>5. CASE ExpireExports \/ Orphans \/ Reschedule \/ ExportWrites \/ ExportRenames \/ PurgeExports
           \/ Schedule \/ Report \/ IndexRefused \/ Rotate \/ RotatePartly
           \/ ConfigureKey \/ RemovePreviousKey \/ Tick
  BY <1>5 DEF ExpireExports, Orphans, Reschedule, ExportWrites, ExportRenames, PurgeExports, Schedule,
     Report, IndexRefused, Rotate, RotatePartly, ConfigureKey, RemovePreviousKey, Tick, Keeps
<1>6. ASSUME NEW p \in Procs, \/ \E kind \in Kinds \ {"cleanup"}, x \in Exports, d \in Retentions :
                                   Call(p, kind, x, d)
                              \/ Startup(p) \/ TimerFires(p) \/ Crash(p) \/ Restart(p)
      PROVE  Keeps
  BY <1>6 DEF Call, Startup, TimerFires, Crash, Restart, Keeps
<1> QED BY <1>1, <1>2, <1>3, <1>4, <1>5, <1>6 DEF Next, Step, VaultStep

\* When nothing is stored, records go, or stay.
OnlyLoses ==
  /\ \A r \in Refs : evidence'[r] \in {evidence[r], None}
  /\ \A x \in Exports : index'[x] \in {index[x], None}

LEMMA LosesOnly ==
  ASSUME Sound, Keeps \/ Loses
  PROVE  /\ OnlyLoses
         /\ Fits(evidence', Refs, MaxRecords) /\ Fits(index', Exports, MaxExports)
<1>0. /\ Fits(evidence, Refs, MaxRecords) /\ Fits(index, Exports, MaxExports)
      /\ MaxRecords \in Nat /\ MaxExports \in Nat
      /\ evidence \in [Refs -> Record \cup {None}] /\ index \in [Exports -> Record \cup {None}]
  BY VaultAssumption DEF Sound, Counted, TypeOK, Fits
<1>1. CASE Keeps
  BY <1>0, <1>1 DEF Keeps, stores, OnlyLoses
<1>2. ASSUME NEW r \in Refs, Forgets(r)
      PROVE  OnlyLoses /\ Fits(evidence', Refs, MaxRecords) /\ Fits(index', Exports, MaxExports)
  <2>1. evidence' = [evidence EXCEPT ![r] = None] /\ index' = index BY <1>2 DEF Forgets
  <2>2. Fits(evidence', Refs, MaxRecords) BY <1>0, <2>1, Replaced
  <2> QED BY <1>0, <2>1, <2>2 DEF OnlyLoses
<1>3. ASSUME NEW x \in Exports, Unlists(x)
      PROVE  OnlyLoses /\ Fits(evidence', Refs, MaxRecords) /\ Fits(index', Exports, MaxExports)
  <2>1. index' = [index EXCEPT ![x] = None] /\ evidence' = evidence BY <1>3 DEF Unlists
  <2>2. Fits(index', Exports, MaxExports) BY <1>0, <2>1, Replaced
  <2> QED BY <1>0, <2>1, <2>2 DEF OnlyLoses
<1> QED BY <1>1, <1>2, <1>3 DEF Loses

LEMMA SnapshotStored ==
  ASSUME Sound, Snapshots
  PROVE  /\ index' = index /\ \A r \in Refs \ {Ref} : evidence'[r] \in {evidence[r], None}
         /\ evidence'[Ref] # None
         /\ evidence[Ref] # None => /\ evidence'[Ref].created = evidence[Ref].created
                                    /\ evidence'[Ref].expires <= evidence[Ref].expires
         /\ Fits(evidence', Refs, MaxRecords)
<1>0. /\ TypeOK /\ Ref \in Refs /\ Fits(evidence, Refs, MaxRecords) /\ MaxRecords \in Nat
      /\ evidence \in [Refs -> Record \cup {None}]
  BY VaultAssumption DEF Sound, Counted, TypeOK, Fits, Tx, Ref, RefOf, Exports
<1> DEFINE fresh == [created |-> now, expires |-> now + tx.retention, stored |-> now,
                     retention |-> tx.retention]
<1>1. index' = index BY DEF Snapshots, StoresSnapshot
<1>2. CASE evidence[Ref] = None
  <2>1. PICK f \in MakesRoom([evidence EXCEPT ![Ref] = fresh], Ref, MaxRecords) : evidence' = f
    BY <1>2 DEF Snapshots, StoresSnapshot
  <2>2. fresh \in Record BY <1>0, FreshRecords
  <2> HIDE DEF fresh
  <2>3. f \in MakesRoom([evidence EXCEPT ![Ref] = fresh], Ref, MaxRecords)
    BY <2>1
  <2>4. Ref \in Refs /\ Fits(evidence, Refs, MaxRecords) /\ MaxRecords \in Nat
    BY <1>0
  <2>5. /\ Fits(f, Refs, MaxRecords)
        /\ f[Ref] = fresh /\ \A j \in Refs \ {Ref} : f[j] \in {evidence[j], None}
    BY ONLY <2>2, <2>3, <2>4, Added, Zenon
  <2>6. fresh # None BY <2>2, NoneIsNoRecord
  <2> QED BY <1>1, <1>2, <2>1, <2>5, <2>6
<1>3. CASE evidence[Ref] # None
  <2>1. evidence' = [evidence EXCEPT ![Ref] = RetainedBy(evidence[Ref])]
    BY <1>3 DEF Snapshots, StoresSnapshot
  <2>2. /\ RetainedBy(evidence[Ref]) \in Record
        /\ RetainedBy(evidence[Ref]).created = evidence[Ref].created
        /\ RetainedBy(evidence[Ref]).expires <= evidence[Ref].expires
    BY <1>0, <1>3, FreshRecords
  <2>3. Fits(evidence', Refs, MaxRecords) BY <1>0, <1>3, <2>1, <2>2, Replaced
  <2> QED BY <1>0, <1>1, <2>1, <2>2, <2>3, NoneIsNoRecord
<1> QED BY <1>2, <1>3

LEMMA ExportTightened ==
  ASSUME Sound, Tightening
  PROVE  /\ evidence' = evidence /\ evidence[Ref] \in Record /\ tx.pc = "tighten"
         /\ \E x \in Exports, r \in Record :
              /\ RefOf(x) = Ref /\ index[x] \in Record /\ index' = [index EXCEPT ![x] = r]
              /\ r.expires = evidence[Ref].expires /\ r.expires <= index[x].expires
         /\ Fits(index', Exports, MaxExports)
<1>0. /\ Ref \in Refs /\ Fits(index, Exports, MaxExports) /\ MaxExports \in Nat /\ now \in Nat
      /\ evidence \in [Refs -> Record \cup {None}] /\ index \in [Exports -> Record \cup {None}]
  BY VaultAssumption, ClockAssumption
  DEF Sound, Counted, TypeOK, ClockTypeOK, Fits, Tx, Ref, RefOf, Exports
<1>1. evidence' = evidence /\ tx.pc = "tighten" /\ evidence[Ref] \in Record
  BY <1>0 DEF Tightening, Tightens, At, Sound, HasRecord
<1>2. PICK x \in Exports : /\ RefOf(x) = Ref /\ index[x] # None
                           /\ index[x].expires > evidence[Ref].expires
                           /\ index' = [index EXCEPT ![x].expires = evidence[Ref].expires,
                                                     ![x].stored = now]
  BY DEF Tightening, Tightens, Late
<1>3. index[x] \in Record BY <1>0, <1>2
<1>4. PICK r \in Record : r = [index[x] EXCEPT !.expires = evidence[Ref].expires, !.stored = now]
  BY <1>0, <1>1, <1>3 DEF Record
<1>5. index' = [index EXCEPT ![x] = r] BY <1>0, <1>2, <1>4
<1>6. r.expires = evidence[Ref].expires BY <1>3, <1>4 DEF Record
<1>7. r.expires <= index[x].expires BY <1>1, <1>2, <1>3, <1>6 DEF Record
<1>8. Fits([index EXCEPT ![x] = r], Exports, MaxExports) BY <1>0, <1>2, Replaced
<1>9. Fits(index', Exports, MaxExports) BY <1>5, <1>8, Zenon
<1> QED BY <1>1, <1>2, <1>3, <1>5, <1>6, <1>7, <1>9

LEMMA ExportListed ==
  ASSUME Sound, Listing
  PROVE  /\ evidence' = evidence /\ evidence[Ref] \in Record
         /\ index'[tx.export] # None /\ index'[tx.export].expires = evidence[Ref].expires
         /\ \A x \in Exports \ {tx.export} :
              /\ index'[x] \in {index[x], None}
              /\ index[x] # None /\ index'[x] = None => x \in evicted'
              /\ x \in evicted => x \in evicted'
         /\ Fits(index', Exports, MaxExports)
<1>0. /\ TypeOK /\ tx.export \in Exports /\ Ref \in Refs
      /\ Fits(index, Exports, MaxExports) /\ MaxExports \in Nat
      /\ evidence \in [Refs -> Record \cup {None}] /\ index \in [Exports -> Record \cup {None}]
  BY VaultAssumption DEF Sound, Counted, TypeOK, Fits, Tx, Ref, RefOf, Exports
<1> DEFINE entry == [created |-> now, expires |-> evidence[Ref].expires, stored |-> now,
                     retention |-> evidence[Ref].retention]
<1>1. evidence[Ref] \in Record
  BY <1>0 DEF Sound, HasRecord, Listing, At
<1>2. entry \in Record /\ entry.expires = evidence[Ref].expires BY <1>0, <1>1, FreshRecords
<1>3. PICK f \in MakesRoom([index EXCEPT ![tx.export] = entry], tx.export, MaxExports) : index' = f
  BY DEF Listing, Lists
<1> HIDE DEF entry
<1>4. f \in MakesRoom([index EXCEPT ![tx.export] = entry], tx.export, MaxExports)
  BY <1>3
<1>5. tx.export \in Exports /\ Fits(index, Exports, MaxExports) /\ MaxExports \in Nat
  BY <1>0
<1>6. /\ Fits(f, Exports, MaxExports)
      /\ f[tx.export] = entry /\ \A j \in Exports \ {tx.export} : f[j] \in {index[j], None}
  BY ONLY <1>2, <1>4, <1>5, Added, Zenon
<1>7. evidence' = evidence
      /\ evicted' = (evicted \ {tx.export}) \cup {y \in Live(index) \ {tx.export} : index'[y] = None}
  BY DEF Listing, Lists
<1>8. ASSUME NEW x \in Exports \ {tx.export}
      PROVE  /\ index[x] # None /\ index'[x] = None => x \in evicted'
             /\ x \in evicted => x \in evicted'
  BY <1>0, <1>7 DEF Live
<1> QED BY <1>1, <1>2, <1>3, <1>6, <1>7, <1>8, NoneIsNoRecord

LEMMA StoresFit ==
  ASSUME Sound, Next
  PROVE  Fits(evidence', Refs, MaxRecords) /\ Fits(index', Exports, MaxExports)
<1>1. Fits(evidence, Refs, MaxRecords) /\ Fits(index, Exports, MaxExports)
  BY DEF Sound, Counted, TypeOK, Fits
<1> QED BY <1>1, StoreEffects, LosesOnly, SnapshotStored, ExportTightened, ExportListed DEF Sound

-----------------------------------------------------------------------------
(* The key ring                                                              *)

\* Sealing any stores with the active key keeps every store readable.
LEMMA SealingOpens ==
  ASSUME SealedByRing, NEW S,
         keys' = [keys EXCEPT !.sealed = [s \in Stores |-> IF s \in S THEN keys.active ELSE @[s]]]
  PROVE  SealedByRing'
<1>1. keys' \in KeyRing
  BY DEF SealedByRing, KeyRing
<1>2. /\ keys'.active = keys.active /\ keys'.previous = keys.previous /\ keys'.rotated = keys.rotated
      /\ \A s \in Stores : keys'.sealed[s] = IF s \in S THEN keys.active ELSE keys.sealed[s]
  BY DEF SealedByRing, KeyRing
<1>3. OneKey' /\ EveryStoreOpens'
  BY <1>2 DEF SealedByRing, OneKey, EveryStoreOpens, Opens, Ring
<1> QED BY <1>1, <1>3 DEF SealedByRing

LEMMA KeysKept ==
  ASSUME SealedByRing, Next
  PROVE  SealedByRing'
<1>1. CASE UNCHANGED keys
  BY <1>1 DEF SealedByRing, OneKey, EveryStoreOpens, Opens, Ring
<1>2. CASE SealsWhatItWrites
  <2> DEFINE S == {s \in Stores : (s = "evidence" /\ evidence' # evidence) \/ (s = "index" /\ index' # index)}
  <2>1. keys' = [keys EXCEPT !.sealed = [s \in Stores |-> IF s \in S THEN keys.active ELSE @[s]]]
    BY <1>2 DEF SealsWhatItWrites
  <2> HIDE DEF S
  <2> QED BY <2>1, SealingOpens
<1>3. CASE RotatePartly
  BY <1>3, SealingOpens DEF RotatePartly
<1>4. CASE Rotate
  <2>1. keys' = [keys EXCEPT !.sealed = [s \in Stores |-> keys.active], !.rotated = TRUE]
    BY <1>4 DEF Rotate
  <2>2. keys' \in KeyRing /\ keys'.active = keys.active
        /\ \A s \in Stores : keys'.sealed[s] = keys.active
    BY <2>1 DEF SealedByRing, KeyRing
  <2> QED BY <2>2 DEF SealedByRing, OneKey, EveryStoreOpens, Opens, Ring
<1>5. CASE ConfigureKey
  <2>1. ~keys.previous /\ keys' = [keys EXCEPT !.active = @ + 1, !.previous = TRUE, !.rotated = FALSE]
    BY <1>5 DEF ConfigureKey
  <2>2. /\ keys' \in KeyRing /\ keys'.active = keys.active + 1 /\ keys'.previous /\ ~keys'.rotated
        /\ keys'.sealed = keys.sealed /\ keys.active \in Nat
    <3>1. keys \in KeyRing BY DEF SealedByRing
    <3>2. keys.active \in Nat /\ keys.sealed \in [Stores -> Nat] /\ keys.active + 1 \in Nat
      BY <3>1 DEF KeyRing
    <3>3. keys' = [active |-> keys.active + 1, previous |-> TRUE, rotated |-> FALSE, sealed |-> keys.sealed]
      BY <2>1, <3>1 DEF KeyRing
    <3> QED BY <3>2, <3>3 DEF KeyRing
  <2>3. \A s \in Stores : keys.sealed[s] = keys.active
    BY <2>1 DEF SealedByRing, OneKey
  <2> QED BY <2>2, <2>3 DEF SealedByRing, OneKey, EveryStoreOpens, Opens, Ring
<1>6. CASE RemovePreviousKey
  <2>1. keys.rotated /\ keys' = [keys EXCEPT !.previous = FALSE]
    BY <1>6 DEF RemovePreviousKey
  <2>2. /\ keys' \in KeyRing /\ keys'.active = keys.active /\ keys'.sealed = keys.sealed
    BY <2>1 DEF SealedByRing, KeyRing
  <2>3. \A s \in Stores : keys.sealed[s] = keys.active
    BY <2>1 DEF SealedByRing, OneKey
  <2> QED BY <2>2, <2>3 DEF SealedByRing, OneKey, EveryStoreOpens, Opens, Ring
<1>7. ASSUME NEW p \in Procs, \/ \E kind \in Kinds \ {"cleanup"}, x \in Exports, d \in Retentions :
                                   Call(p, kind, x, d)
                              \/ Startup(p) \/ TimerFires(p) \/ Crash(p) \/ Restart(p)
      PROVE  UNCHANGED keys
  BY <1>7 DEF Call, Startup, TimerFires, Crash, Restart
<1>8. CASE IndexRefused \/ StepFails \/ ExportUnregistered \/ Tick
  BY <1>1, <1>2, <1>8 DEF IndexRefused, StepFails, ExportUnregistered, Tick
<1> QED BY <1>1, <1>2, <1>3, <1>4, <1>5, <1>6, <1>7, <1>8 DEF Next, Step

-----------------------------------------------------------------------------
(* Files, timers and the rest                                                *)

LEMMA AbortsTyped ==
  ASSUME TypeOK, Aborts
  PROVE  /\ tx' = NoTx /\ timer' \in [Procs -> Nat \cup {Never}] /\ unplanned' \in BOOLEAN
<1>1. now \in Nat BY ClockAssumption DEF TypeOK, ClockTypeOK
<1>2. timer \in [Procs -> Nat \cup {Never}] /\ unplanned \in BOOLEAN BY DEF TypeOK
<1>3. \E t \in Nat \cup {Never} : timer' = [timer EXCEPT ![tx.proc] = t] \/ timer' = timer
  <2>1. CASE tx.trigger = "timer"
    BY <1>1, <2>1 DEF Aborts
  <2>2. CASE tx.trigger # "timer" /\ tx.pc \in {"reschedule", "schedule"}
    BY <2>2 DEF Aborts
  <2>3. CASE tx.trigger # "timer" /\ tx.pc \notin {"reschedule", "schedule"}
    BY <1>2, <2>3 DEF Aborts
  <2> QED BY <2>1, <2>2, <2>3
<1>4. unplanned' \in BOOLEAN BY <1>2 DEF Aborts
<1> QED BY <1>2, <1>3, <1>4 DEF Aborts

LEMMA PlansTyped ==
  ASSUME TypeOK, Plans
  PROVE  timer' \in [Procs -> Nat \cup {Never}] /\ unplanned' \in BOOLEAN
BY NextCleanupTyped DEF TypeOK, Plans

FilesOK ==
  /\ disk \in [Exports -> {"none", "written", "reported"}] /\ temps \subseteq Exports
  /\ evicted \subseteq Exports
TimersOK ==
  /\ timer \in [Procs -> Nat \cup {Never}] /\ process \in [Procs -> {"down", "starting", "up"}]
  /\ unplanned \in BOOLEAN
RestOK ==
  /\ ClockTypeOK /\ torn \subseteq Refs /\ purged \subseteq Subjects
  /\ spent \in [{"calls", "failures", "crashes"} -> Nat]

LEMMA RestTyped ==
  ASSUME TypeOK, Next
  PROVE  FilesOK' /\ TimersOK' /\ RestOK'
<1>0. /\ FilesOK /\ TimersOK /\ RestOK /\ tx.export \in Exports /\ tx.proc \in Procs \cup {NoProc}
      /\ Ref \in Refs /\ SubjectOf(Ref) \in Subjects
  <2>1. tx.export \in Exports /\ tx.proc \in Procs \cup {NoProc} BY DEF TypeOK, Tx
  <2>2. Ref \in Refs /\ SubjectOf(Ref) \in Subjects
    BY <2>1 DEF Ref, RefOf, SubjectOf, Exports, Refs
  <2> QED BY <2>1, <2>2 DEF TypeOK, FilesOK, TimersOK, RestOK
<1>1. CASE Expire \/ ReadsLive \/ PurgeRecords \/ DropEntry
  BY <1>0, <1>1 DEF Expire, ReadsLive, PurgeRecords, DropEntry, FilesOK, TimersOK, RestOK, files, ClockTypeOK
<1>2. CASE PutRegisters \/ PutTightens
  BY <1>0, <1>2 DEF PutRegisters, PutTightens, FilesOK, TimersOK, RestOK, files, ClockTypeOK, Ref
<1>3. CASE ExpireExports \/ PurgeExports
  BY <1>0, <1>3 DEF ExpireExports, PurgeExports, Unlinks, FilesOK, TimersOK, RestOK, ClockTypeOK, Live
<1>4. CASE Orphans
  BY <1>0, <1>4 DEF Orphans, Unlinks, FilesOK, TimersOK, RestOK, ClockTypeOK, files
<1>5. CASE Reschedule \/ Schedule
  BY <1>0, <1>5, PlansTyped DEF Reschedule, Schedule, FilesOK, TimersOK, RestOK, ClockTypeOK, files
<1>6. CASE ExportWrites \/ ExportRenames
  BY <1>0, <1>6 DEF ExportWrites, ExportRenames, Renames, FilesOK, TimersOK, RestOK, ClockTypeOK
<1>7. CASE ExportRegisters
  <2>1. evicted' \subseteq Exports
    BY <1>0, <1>7 DEF ExportRegisters, Lists, FilesOK, TypeOK, Live
  <2> QED BY <1>0, <1>7, <2>1 DEF ExportRegisters, FilesOK, TimersOK, RestOK, ClockTypeOK, files
<1>9. CASE Report
  BY <1>0, <1>9 DEF Report, FilesOK, TimersOK, RestOK, ClockTypeOK, Ref
<1>10. CASE Rotate \/ RotatePartly
  BY <1>0, <1>10 DEF Rotate, RotatePartly, Spend, FilesOK, TimersOK, RestOK, ClockTypeOK, files
<1>11. CASE IndexRefused
  BY <1>0, <1>11, AbortsTyped DEF IndexRefused, FilesOK, TimersOK, RestOK, ClockTypeOK, files
<1>12. CASE StepFails
  <2>1. FilesOK' BY <1>0, <1>12 DEF StepFails, Renames, FilesOK
  <2> QED BY <1>0, <1>12, <2>1, AbortsTyped DEF StepFails, Spend, TimersOK, RestOK, ClockTypeOK
<1>a. CASE ExportUnregistered
  <2>1. evicted' \subseteq Exports
    BY <1>0, <1>a DEF ExportUnregistered, Lists, FilesOK, TypeOK, Live
  <2>2. disk' \in [Exports -> {"none", "written", "reported"}]
    BY <1>0, <1>a DEF ExportUnregistered, Unlinks, FilesOK
  <2> QED BY <1>0, <1>a, <2>1, <2>2, AbortsTyped
          DEF ExportUnregistered, Spend, FilesOK, TimersOK, RestOK, ClockTypeOK
<1>13. CASE ConfigureKey \/ RemovePreviousKey
  BY <1>0, <1>13 DEF ConfigureKey, RemovePreviousKey, FilesOK, TimersOK, RestOK, ClockTypeOK, files
<1>14. CASE Tick
  BY <1>0, <1>14, ClockAssumption
  DEF Tick, ClockTicks, FilesOK, TimersOK, RestOK, ClockTypeOK, files
<1>15. ASSUME NEW p \in Procs, NEW kind \in Kinds \ {"cleanup"}, NEW x \in Exports,
              NEW d \in Retentions, Call(p, kind, x, d)
       PROVE  FilesOK' /\ TimersOK' /\ RestOK'
  BY <1>0, <1>15 DEF Call, Spend, FilesOK, TimersOK, RestOK, ClockTypeOK, files
<1>16. ASSUME NEW p \in Procs, Startup(p) \/ TimerFires(p) \/ Crash(p) \/ Restart(p)
       PROVE  FilesOK' /\ TimersOK' /\ RestOK'
  BY <1>0, <1>16
  DEF Startup, TimerFires, Crash, Restart, Spend, FilesOK, TimersOK, RestOK, ClockTypeOK, files
<1> QED BY <1>1, <1>2, <1>3, <1>4, <1>5, <1>6, <1>7, <1>9, <1>10, <1>11, <1>12, <1>a, <1>13, <1>14,
           <1>15, <1>16 DEF Next, Step, VaultStep

\* What is tightened to, or exported, stays until that is done.
LEMMA RecordStays ==
  ASSUME Sound, Next
  PROVE  HasRecord'
<1> SUFFICES ASSUME tx'.pc \in {"tighten", "write", "rename", "index"} PROVE evidence'[Ref'] # None
  BY DEF HasRecord, Ref
<1>0. /\ TypeOK /\ OnPath /\ HasRecord /\ tx \in Tx /\ Ref \in Refs /\ NoTx.pc = "idle"
      /\ evidence \in [Refs -> Record \cup {None}]
  BY Idle DEF Sound, TypeOK, Ref, RefOf, Exports, Tx
<1>1. ASSUME tx' = tx \/ \E pc \in Steps : Goes(pc), evidence' = evidence, evidence[Ref] # None
      PROVE  evidence'[Ref'] # None
  <2>1. tx'.export = tx.export BY <1>0, <1>1 DEF Goes, Tx
  <2> QED BY <1>1, <2>1 DEF Ref
<1>2. CASE UNCHANGED <<tx, evidence>>
  BY <1>0, <1>2 DEF HasRecord, Ref
<1>3. CASE Expire \/ ExpireExports \/ DropEntry \/ Orphans \/ PurgeExports \/ PurgeRecords \/ Schedule \/ Report
  <2>1. CASE Expire \/ Orphans \/ PurgeRecords \/ Schedule \/ Report
    BY <1>0, <2>1 DEF Expire, Orphans, PurgeRecords, Schedule, Report, Goes, At, Tx
  <2>2. CASE ExpireExports \/ DropEntry \/ PurgeExports
    BY <1>0, <2>2 DEF ExpireExports, DropEntry, PurgeExports, Goes, At, Tx
  <2> QED BY <1>3, <2>1, <2>2
<1>4. CASE Reschedule
  BY <1>0, <1>4 DEF Reschedule, AfterCleanup, Goes, At, OnPath, Path, Kinds, CleanUp, Tx
<1>5. CASE PutRegisters
  <2>1. tx'.export = tx.export BY <1>0, <1>5 DEF PutRegisters, Goes, Tx
  <2>2. evidence'[Ref] # None BY <1>5, SnapshotStored DEF PutRegisters, Snapshots
  <2> QED BY <2>1, <2>2 DEF Ref
<1>6. CASE PutTightens
  <2>1. (tx' = tx \/ Goes("live")) /\ evidence' = evidence /\ evidence[Ref] # None
    BY <1>0, <1>6 DEF PutTightens, Tightens, At, HasRecord, stores
  <2> QED BY <1>1, <2>1 DEF Steps
<1>7. CASE ReadsLive
  <2>1. evidence[Ref] # None /\ evidence' = evidence /\ \E pc \in Steps : Goes(pc)
    <3>1. tx.kind \in {"put", "status", "export"} /\ tx.pc = "live"
      BY <1>0, <1>7, Idle DEF ReadsLive, At, OnPath, Path, Kinds, CleanUp
    <3>2. tx' # NoTx /\ tx' # [tx EXCEPT !.pc = "expireExports", !.failing = TRUE]
      BY <1>0 DEF Tx
    <3> QED BY <1>7, <3>1, <3>2 DEF ReadsLive, stores, Steps
  <2> QED BY <1>1, <2>1
<1>8. CASE ExportWrites \/ ExportRenames
  <2>1. evidence' = evidence /\ evidence[Ref] # None /\ (Goes("rename") \/ Goes("index"))
    BY <1>0, <1>8 DEF ExportWrites, ExportRenames, At, HasRecord, stores
  <2> QED BY <1>1, <2>1 DEF Steps
<1>9. CASE ExportRegisters
  BY <1>0, <1>9 DEF ExportRegisters, Goes, Tx
<1>10. CASE IndexRefused \/ StepFails \/ ExportUnregistered \/ Rotate \/ RotatePartly
  BY <1>0, <1>10 DEF IndexRefused, StepFails, ExportUnregistered, Rotate, RotatePartly, Aborts
<1>11. CASE ConfigureKey \/ RemovePreviousKey \/ Tick
  BY <1>2, <1>11 DEF ConfigureKey, RemovePreviousKey, Tick, stores
<1>12. ASSUME NEW p \in Procs, NEW kind \in Kinds \ {"cleanup"}, NEW x \in Exports,
              NEW d \in Retentions, Call(p, kind, x, d)
       PROVE  FALSE
  BY <1>12 DEF Call, Begin
<1>13. ASSUME NEW p \in Procs, Startup(p) \/ TimerFires(p)
       PROVE  FALSE
  BY <1>13 DEF Startup, TimerFires, Begin
<1>14. ASSUME NEW p \in Procs, Crash(p) \/ Restart(p)
       PROVE  tx' = NoTx \/ UNCHANGED <<tx, evidence>>
  BY <1>14 DEF Crash, Restart, stores
<1> QED BY <1>0, <1>2, <1>3, <1>4, <1>5, <1>6, <1>7, <1>8, <1>9, <1>10, <1>11, <1>12, <1>13, <1>14
        DEF Next, Step, VaultStep

LEMMA SoundNext ==
  ASSUME Sound, SealedByRing, [Next]_vars
  PROVE  Sound' /\ SealedByRing'
<1>1. CASE Next
  <2>1. TypeOK /\ OnPath BY DEF Sound
  <2>2. /\ tx' \in Tx /\ OnPath' /\ HasRecord' /\ SealedByRing'
        /\ Fits(evidence', Refs, MaxRecords) /\ Fits(index', Exports, MaxExports)
        /\ FilesOK' /\ TimersOK' /\ RestOK'
    BY <1>1, <2>1, StepsStayOnPath, StoresFit, KeysKept, RestTyped, RecordStays
  <2> QED BY <2>2 DEF Sound, Counted, TypeOK, Fits, FilesOK, TimersOK, RestOK, SealedByRing, KeyRing
<1>2. CASE UNCHANGED vars
  <2> USE <1>2 DEF vars
  <2>1. TypeOK' BY DEF Sound, TypeOK, ClockTypeOK
  <2>2. Counted' /\ OnPath' /\ HasRecord' BY DEF Sound, Counted, OnPath, HasRecord, Ref, Live
  <2>3. SealedByRing' BY DEF SealedByRing, OneKey, EveryStoreOpens, Opens, Ring
  <2> QED BY <2>1, <2>2, <2>3 DEF Sound
<1> QED BY <1>1, <1>2

-----------------------------------------------------------------------------
(* Retention                                                                 *)

\* Storing a snapshot again, or anything else, moves no expiry to a later time, and
\* only a new export that of an export.
LEMMA RetentionStep ==
  ASSUME Sound, [Next]_vars
  PROVE  /\ \A r \in Refs : (evidence[r] # None /\ evidence'[r] # None) =>
              /\ evidence'[r].created = evidence[r].created
              /\ evidence'[r].expires <= evidence[r].expires
         /\ \A x \in Exports : (tx.kind # "export" /\ index[x] # None /\ index'[x] # None) =>
              index'[x].expires <= index[x].expires
<1>0. /\ evidence \in [Refs -> Record \cup {None}] /\ index \in [Exports -> Record \cup {None}]
      /\ \A r \in Record : r.expires <= r.expires
  BY DEF Sound, TypeOK, Record
<1>1. CASE Keeps \/ Loses \/ UNCHANGED vars
  <2>1. OnlyLoses BY <1>1, LosesOnly DEF Keeps, vars, stores
  <2> QED BY <1>0, <2>1 DEF OnlyLoses
<1>2. CASE Snapshots
  BY <1>0, <1>2, SnapshotStored
<1>3. CASE Tightening
  BY <1>0, <1>3, ExportTightened
<1>4. CASE Listing
  <2>1. tx.kind = "export"
    BY <1>4, Idle DEF Listing, At, Sound, OnPath, Path, Kinds, CleanUp
  <2> QED BY <1>0, <1>4, <2>1, ExportListed
<1> QED BY <1>1, <1>2, <1>3, <1>4, StoreEffects DEF Sound

LEMMA RetainedNext ==
  ASSUME Sound, Retained, Next
  PROVE  Retained'
<1>0. /\ evidence \in [Refs -> Record \cup {None}] /\ index \in [Exports -> Record \cup {None}]
      /\ tx \in Tx /\ Ref \in Refs /\ \A x \in Exports : RefOf(x) \in Refs
      /\ TornMeanwhile /\ ExportWithinRetention /\ NoTx.pc = "idle"
      /\ \A r \in Record : r.expires \in Nat
  BY Idle DEF Sound, TypeOK, Ref, RefOf, Exports, Tx, Retained, Record
<1>i. DOMAIN index = Exports /\ DOMAIN index' = Exports
  BY StoresFit DEF Sound, TypeOK, Fits
<1>l. /\ \A x \in Exports : (index[x] # None /\ evidence[RefOf(x)] # None /\ RefOf(x) \notin torn) =>
                               index[x].expires <= evidence[RefOf(x)].expires
      /\ ExportWithinRetention' = \A x \in Exports :
           (index'[x] # None /\ evidence'[RefOf(x)] # None /\ RefOf(x) \notin torn') =>
             index'[x].expires <= evidence'[RefOf(x)].expires
  BY <1>0, <1>i DEF ExportWithinRetention, Live
<1>1. ASSUME Snapshots, torn' = torn \cup {Ref}
      PROVE  ExportWithinRetention'
  BY <1>0, <1>1, <1>l, SnapshotStored
<1>2. ASSUME Tightening, torn' = torn
      PROVE  ExportWithinRetention'
  <2>1. evidence' = evidence /\ evidence[Ref] \in Record BY <1>2, ExportTightened
  <2>2. PICK x \in Exports, r \in Record :
          /\ RefOf(x) = Ref /\ index' = [index EXCEPT ![x] = r] /\ r.expires = evidence[Ref].expires
    BY <1>2, ExportTightened
  <2>3. r.expires <= evidence[Ref].expires BY <1>0, <2>1, <2>2
  <2> QED BY <1>0, <1>2, <1>l, <2>1, <2>2, <2>3
<1>3. ASSUME Listing, torn' = torn
      PROVE  ExportWithinRetention'
  <2>1. evidence[Ref].expires <= evidence[Ref].expires /\ RefOf(tx.export) = Ref
    BY <1>0, <1>3, ExportListed DEF Ref
  <2> QED BY <1>3, <1>l, <2>1, ExportListed
<1>4. ASSUME Keeps \/ Loses, torn' = torn
      PROVE  ExportWithinRetention'
  <2>1. OnlyLoses BY <1>4, LosesOnly
  <2> QED BY <1>0, <1>4, <1>l, <2>1 DEF OnlyLoses
<1>5. CASE PutRegisters
  <2>1. tx'.export = tx.export /\ torn' = torn \cup {Ref} /\ Snapshots
    BY <1>0, <1>5 DEF PutRegisters, Goes, Tx, Snapshots
  <2>2. TornMeanwhile' BY <2>1 DEF TornMeanwhile, Ref
  <2> QED BY <1>1, <2>1, <2>2 DEF Retained
<1>6. CASE PutTightens
  <2>1. CASE Tightening /\ UNCHANGED <<torn, tx>>
    BY <1>0, <1>2, <2>1 DEF Retained, TornMeanwhile, Ref
  <2>2. CASE Late = {} /\ torn' = torn \ {Ref} /\ Goes("live") /\ UNCHANGED stores
    <3>1. tx'.pc = "live" BY <1>0, <2>2 DEF Goes, Tx
    <3>2. evidence[Ref] \in Record
      BY <1>0, <1>6 DEF PutTightens, At, Sound, HasRecord
    <3>3. ASSUME NEW x \in Exports, index[x] # None, RefOf(x) = Ref
          PROVE  index[x].expires <= evidence[Ref].expires
      <4>1. ~(index[x].expires > evidence[Ref].expires) BY <2>2, <3>3 DEF Late
      <4>2. index[x].expires \in Nat /\ evidence[Ref].expires \in Nat
        BY <1>0, <3>2, <3>3
      <4> QED BY <4>1, <4>2
    <3>4. ExportWithinRetention' BY <1>l, <2>2, <3>3 DEF stores
    <3> QED BY <3>1, <3>4 DEF Retained, TornMeanwhile
  <2> QED BY <1>6, <2>1, <2>2 DEF PutTightens, Tightening
<1>7. CASE StepFails
  <2>1. tx' = NoTx BY <1>7 DEF StepFails, Aborts
  <2>2. Keeps \/ Loses \/ Snapshots \/ Tightening
    <3>1. /\ tx.unlinked \in Exports /\ HisRecords \subseteq Refs
      BY <1>0 DEF Tx, HisRecords, Live
    <3> QED BY <1>0, <1>7, <3>1 DEF StepFails, StoreWrite, Keeps, Loses, Snapshots, Tightening
  <2>3. torn' = torn \/ torn' = torn \cup {Ref} BY <1>7 DEF StepFails
  <2>4. ASSUME torn' = torn, Snapshots
        PROVE  ExportWithinRetention'
    <3>1. At("register") /\ (evidence' = evidence \/ torn' = torn \cup {Ref})
      BY <1>7, <2>4 DEF StepFails, Snapshots
    <3>2. index' = index BY <2>4, SnapshotStored
    <3>3. CASE evidence' = evidence
      BY <1>4, <2>4, <3>2, <3>3 DEF Keeps, stores
    <3> QED BY <1>1, <2>4, <3>1, <3>3
  <2>5. ASSUME torn' # torn
        PROVE  ExportWithinRetention'
    <3>1. At("register") /\ evidence' # evidence /\ torn' = torn \cup {Ref}
      BY <1>7, <2>5 DEF StepFails
    <3>2. Snapshots
      BY <1>7, <3>1 DEF StepFails, StoreWrite, Snapshots, At, stores
    <3> QED BY <1>1, <3>1, <3>2
  <2>6. ExportWithinRetention' BY <1>1, <1>2, <1>4, <2>2, <2>3, <2>4, <2>5
  <2> QED BY <1>0, <2>1, <2>6 DEF Retained, TornMeanwhile
<1>8. CASE ExportUnregistered
  <2>1. tx' = NoTx /\ torn' = torn /\ (Keeps \/ Listing)
    BY <1>8 DEF ExportUnregistered, Aborts, Keeps, Listing
  <2>2. ExportWithinRetention' BY <1>3, <1>4, <2>1
  <2> QED BY <1>0, <2>1, <2>2 DEF Retained, TornMeanwhile
<1>9. CASE ExportRegisters
  <2>1. torn' = torn /\ tx'.pc = "schedule" /\ Listing
    BY <1>0, <1>9 DEF ExportRegisters, Goes, Tx, Listing
  <2> QED BY <1>3, <2>1 DEF Retained, TornMeanwhile
<1>10. CASE ~(PutRegisters \/ PutTightens \/ StepFails \/ ExportUnregistered \/ ExportRegisters)
  <2>1. torn' = torn /\ (tx'.pc = "tighten" => tx' = tx) /\ (Keeps \/ Loses)
    <3>0. /\ tx.unlinked \in Exports /\ HisRecords \subseteq Refs
      BY <1>0 DEF Tx, HisRecords, Live
    <3>1. CASE Expire \/ Orphans \/ DropEntry
      BY <1>0, <3>0, <3>1 DEF Expire, Orphans, DropEntry, Goes, At, Tx, Keeps, Loses
    <3>a. CASE ExpireExports \/ PurgeExports
      BY <1>0, <3>a DEF ExpireExports, PurgeExports, Goes, At, Tx, Keeps
    <3>2. CASE Reschedule
      BY <1>0, <3>2 DEF Reschedule, AfterCleanup, Goes, At, Sound, OnPath, Path, Kinds, CleanUp, Tx, Keeps
    <3>3. CASE ReadsLive
      <4>1. tx.kind \in {"put", "status", "export"}
        BY <1>0, <3>3, Idle DEF ReadsLive, At, Sound, OnPath, Path, Kinds, CleanUp
      <4> QED BY <1>0, <3>3, <4>1 DEF ReadsLive, Goes, Tx, Keeps, Loses
    <3>4. CASE ExportWrites \/ ExportRenames \/ PurgeRecords \/ Schedule \/ Report
      BY <1>0, <3>0, <3>4 DEF ExportWrites, ExportRenames, PurgeRecords, Schedule, Report,
         Goes, At, Tx, Keeps, Loses
    <3>5. CASE IndexRefused \/ Rotate \/ RotatePartly
      BY <1>0, <3>5 DEF IndexRefused, Rotate, RotatePartly, Aborts, Keeps
    <3>6. CASE ConfigureKey \/ RemovePreviousKey \/ Tick
      BY <3>6 DEF ConfigureKey, RemovePreviousKey, Tick, Keeps
    <3>7. ASSUME NEW p \in Procs, NEW kind \in Kinds \ {"cleanup"}, NEW x \in Exports,
                 NEW d \in Retentions, Call(p, kind, x, d)
          PROVE  torn' = torn /\ tx'.pc # "tighten" /\ Keeps
      BY <3>7 DEF Call, Begin, Keeps
    <3>8. ASSUME NEW p \in Procs, Startup(p) \/ TimerFires(p) \/ Crash(p) \/ Restart(p)
          PROVE  torn' = torn /\ (tx'.pc = "tighten" => tx' = tx) /\ Keeps
      BY <1>0, <3>8 DEF Startup, TimerFires, Crash, Restart, Begin, Keeps
    <3> QED BY <1>10, <3>1, <3>a, <3>2, <3>3, <3>4, <3>5, <3>6, <3>7, <3>8 DEF Next, Step, VaultStep
  <2>2. ExportWithinRetention' BY <1>4, <2>1
  <2> QED BY <1>0, <2>1, <2>2 DEF Retained, TornMeanwhile, Ref
<1> QED BY <1>5, <1>6, <1>7, <1>8, <1>9, <1>10

-----------------------------------------------------------------------------
(* Tracking                                                                  *)

\* A transaction that is still to report an export has made its entry.
LEMMA ExportEnteredNext ==
  ASSUME Sound, ExportEntered, Next
  PROVE  ExportEntered'
<1> SUFFICES ASSUME tx'.kind = "export", tx'.pc \in {"schedule", "report"}
             PROVE  index'[tx'.export] # None
  BY DEF ExportEntered
<1>0. tx \in Tx /\ OnPath /\ NoTx.kind = "none" /\ NoTx.pc = "idle"
  BY Idle DEF Sound, TypeOK
<1>1. CASE UNCHANGED <<tx, index>>
  BY <1>1 DEF ExportEntered
<1>2. CASE Expire \/ Orphans \/ PutRegisters \/ PutTightens \/ ExportWrites \/ ExportRenames
  BY <1>0, <1>2 DEF Expire, Orphans, PutRegisters, PutTightens, ExportWrites, ExportRenames, Goes, At, Tx
<1>a. CASE ExpireExports \/ DropEntry
  BY <1>0, <1>a DEF ExpireExports, DropEntry, Goes, At, Tx
<1>3. CASE Reschedule
  BY <1>0, <1>3 DEF Reschedule, AfterCleanup, Goes, At, OnPath, Path, Kinds, CleanUp, Tx
<1>4. CASE ReadsLive
  <2>1. tx.kind \in {"put", "status", "export"}
    BY <1>0, <1>4 DEF ReadsLive, At, OnPath, Path, Kinds, CleanUp
  <2> QED BY <1>0, <1>4, <2>1 DEF ReadsLive, Goes, Tx
<1>5. CASE ExportRegisters
  <2>1. tx'.export = tx.export BY <1>0, <1>5 DEF ExportRegisters, Goes, Tx
  <2> QED BY <1>5, <2>1, ExportListed DEF ExportRegisters, Listing
<1>6. CASE PurgeExports \/ PurgeRecords
  <2>1. tx.kind = "purge"
    <3>1. tx.pc \in {"purgeExports", "purgeRecords"}
      BY <1>6 DEF PurgeExports, PurgeRecords, At
    <3> QED BY <1>0, <3>1 DEF OnPath, Path, Kinds, CleanUp
  <2> QED BY <1>0, <1>6, <2>1 DEF PurgeExports, PurgeRecords, Goes, Tx
<1>7. CASE Schedule
  <2>1. tx.pc = "schedule" /\ index' = index /\ tx'.export = tx.export /\ tx'.kind = tx.kind
    BY <1>0, <1>7 DEF Schedule, At, Goes, stores, Tx
  <2> QED BY <2>1 DEF ExportEntered
<1>8. CASE Report \/ IndexRefused \/ StepFails \/ ExportUnregistered \/ Rotate \/ RotatePartly
  BY <1>0, <1>8 DEF Report, IndexRefused, StepFails, ExportUnregistered, Rotate, RotatePartly, Aborts
<1>9. CASE ConfigureKey \/ RemovePreviousKey \/ Tick
  BY <1>1, <1>9 DEF ConfigureKey, RemovePreviousKey, Tick, stores
<1>10. ASSUME NEW p \in Procs, NEW kind \in Kinds \ {"cleanup"}, NEW x \in Exports,
              NEW d \in Retentions, Call(p, kind, x, d)
       PROVE  FALSE
  BY <1>10 DEF Call, Begin
<1>11. ASSUME NEW p \in Procs, Startup(p) \/ TimerFires(p) \/ Crash(p) \/ Restart(p)
       PROVE  UNCHANGED <<tx, index>>
  BY <1>0, <1>11 DEF Startup, TimerFires, Crash, Restart, Begin, stores
<1> QED BY <1>1, <1>2, <1>a, <1>3, <1>4, <1>5, <1>6, <1>7, <1>8, <1>9, <1>10, <1>11
        DEF Next, Step, VaultStep

LEMMA FileFirstNext ==
  ASSUME Sound, FileFirst, Next
  PROVE  FileFirst'
<1> SUFFICES ASSUME tx'.pc \in {"dropExpired", "dropPurged"} PROVE disk'[tx'.unlinked] = "none"
  BY DEF FileFirst
<1>0. /\ tx \in Tx /\ OnPath /\ NoTx.pc = "idle"
      /\ disk \in [Exports -> {"none", "written", "reported"}]
  BY Idle DEF Sound, TypeOK
<1>1. CASE ExpireExports \/ PurgeExports
  <2>1. PICK x \in Exports, pc \in Steps :
          Unlinks(x) /\ tx' = [tx EXCEPT !.pc = pc, !.unlinked = x]
    <3>1. ~Goes("orphans") /\ ~Goes("reschedule") BY <1>0 DEF Goes, Tx
    <3> QED BY <1>1, <3>1 DEF ExpireExports, PurgeExports, HisExports, Sound, TypeOK, Live, Steps, Unlinks
  <2> QED BY <1>0, <2>1 DEF Unlinks, Tx
<1>2. CASE UNCHANGED <<tx, disk>>
  BY <1>2 DEF FileFirst
<1>3. CASE Expire \/ DropEntry \/ Orphans \/ PutRegisters \/ PutTightens \/ ExportWrites \/ ExportRenames
           \/ ExportRegisters \/ PurgeRecords \/ Schedule \/ Report
  <2>1. CASE Expire \/ DropEntry \/ Orphans \/ PutRegisters \/ PutTightens
    BY <1>0, <2>1 DEF Expire, DropEntry, Orphans, PutRegisters, PutTightens, Goes, At, Tx
  <2>2. CASE ExportWrites \/ ExportRenames \/ ExportRegisters \/ PurgeRecords \/ Schedule \/ Report
    BY <1>0, <2>2 DEF ExportWrites, ExportRenames, ExportRegisters, PurgeRecords, Schedule, Report,
       Goes, At, Tx
  <2> QED BY <1>3, <2>1, <2>2
<1>4. CASE Reschedule
  BY <1>0, <1>4 DEF Reschedule, AfterCleanup, Goes, At, OnPath, Path, Kinds, CleanUp, Tx
<1>5. CASE ReadsLive
  <2>1. tx.kind \in {"put", "status", "export"}
    BY <1>0, <1>5, Idle DEF ReadsLive, At, OnPath, Path, Kinds, CleanUp
  <2> QED BY <1>0, <1>5, <2>1 DEF ReadsLive, Goes, Tx
<1>6. CASE IndexRefused \/ StepFails \/ ExportUnregistered \/ Rotate \/ RotatePartly
  BY <1>0, <1>6 DEF IndexRefused, StepFails, ExportUnregistered, Rotate, RotatePartly, Aborts
<1>7. CASE ConfigureKey \/ RemovePreviousKey \/ Tick
  BY <1>2, <1>7 DEF ConfigureKey, RemovePreviousKey, Tick, files
<1>8. ASSUME NEW p \in Procs, NEW kind \in Kinds \ {"cleanup"}, NEW x \in Exports,
             NEW d \in Retentions, Call(p, kind, x, d)
      PROVE  FALSE
  BY <1>8 DEF Call, Begin
<1>9. ASSUME NEW p \in Procs, Startup(p) \/ TimerFires(p) \/ Crash(p) \/ Restart(p)
      PROVE  UNCHANGED <<tx, disk>>
  BY <1>0, <1>9 DEF Startup, TimerFires, Crash, Restart, Begin, files
<1> QED BY <1>1, <1>2, <1>3, <1>4, <1>5, <1>6, <1>7, <1>8, <1>9 DEF Next, Step, VaultStep

\* A file that was reported keeps its entry, whatever stops or fails, or a full
\* index has dropped that since the last clean-up.
LEMMA ReportedStaysTracked ==
  ASSUME Sound, Tracked, Next
  PROVE  ReportedExportTracked'
<1> SUFFICES ASSUME NEW x \in Exports, disk'[x] = "reported" PROVE index'[x] # None \/ x \in evicted'
  BY DEF ReportedExportTracked
<1>0. /\ index \in [Exports -> Record \cup {None}] /\ disk \in [Exports -> {"none", "written", "reported"}]
      /\ tx \in Tx /\ (disk[x] = "reported" => index[x] # None \/ x \in evicted)
  BY DEF Sound, TypeOK, Tracked, ReportedExportTracked
<1>1. ASSUME UNCHANGED <<index, evicted>>, disk'[x] = "reported" => disk[x] = "reported"
      PROVE  index'[x] # None \/ x \in evicted'
  BY <1>0, <1>1
<1>2. ASSUME Tightening, evicted' = evicted, disk' = disk
      PROVE  index'[x] # None \/ x \in evicted'
  <2>1. PICK y \in Exports, r \in Record : index' = [index EXCEPT ![y] = r] /\ index[y] \in Record
    BY <1>2, ExportTightened
  <2> QED BY <1>0, <1>2, <2>1, NoneIsNoRecord
<1>3. ASSUME Listing, disk'[x] = "reported" => disk[x] = "reported"
      PROVE  index'[x] # None \/ x \in evicted'
  <2>1. CASE x = tx.export
    BY <1>3, <2>1, ExportListed
  <2>2. CASE x # tx.export
    BY <1>0, <1>3, <2>2, ExportListed
  <2> QED BY <2>1, <2>2
<1>4. ASSUME tx.pc \in {"dropExpired", "dropPurged"}, Unlists(tx.unlinked), evicted' = evicted, disk' = disk
      PROVE  index'[x] # None \/ x \in evicted'
  <2>1. x # tx.unlinked BY <1>4 DEF Tracked, FileFirst
  <2> QED BY <1>0, <1>4, <2>1 DEF Unlists
<1>5. CASE Expire \/ Reschedule \/ PutRegisters \/ ReadsLive \/ ExportWrites \/ PurgeRecords \/ Schedule
  <2>1. CASE Expire \/ ReadsLive \/ PurgeRecords
    BY <1>1, <2>1 DEF Expire, ReadsLive, PurgeRecords, Forgets, stores, files
  <2>2. CASE Reschedule \/ PutRegisters \/ ExportWrites \/ Schedule
    BY <1>1, <2>2 DEF Reschedule, PutRegisters, StoresSnapshot, ExportWrites, Schedule, stores, files
  <2> QED BY <1>5, <2>1, <2>2
<1>6. CASE ExpireExports \/ PurgeExports \/ Orphans
  <2>1. disk'[x] = "reported" => disk[x] = "reported"
    BY <1>0, <1>6 DEF ExpireExports, PurgeExports, Orphans, Unlinks, files
  <2>2. CASE ExpireExports \/ PurgeExports
    BY <1>1, <2>1, <2>2 DEF ExpireExports, PurgeExports, stores
  <2>3. CASE Orphans
    BY <1>0, <2>3 DEF Orphans, Unlinks, stores, files
  <2> QED BY <1>6, <2>2, <2>3
<1>7. CASE DropEntry
  BY <1>4, <1>7 DEF DropEntry, files
<1>8. CASE PutTightens
  BY <1>1, <1>2, <1>8 DEF PutTightens, Tightening, stores, files
<1>9. CASE ExportRenames
  BY <1>0, <1>1, <1>9 DEF ExportRenames, Renames, stores
<1>10. CASE ExportRegisters
  BY <1>3, <1>10 DEF ExportRegisters, Listing, files
<1>11. CASE Report
  <2>1. index' = index /\ evicted' = evicted BY <1>11 DEF Report, stores
  <2>2. CASE disk[x] = "reported"
    BY <1>0, <2>1, <2>2
  <2>3. CASE disk[x] # "reported"
    <3>1. tx.kind = "export" /\ tx.pc = "report" /\ x = tx.export
      BY <1>0, <1>11, <2>3 DEF Report, At
    <3> QED BY <2>1, <3>1 DEF Tracked, ExportEntered
  <2> QED BY <2>2, <2>3
<1>12. CASE StepFails
  <2>1. evicted' = evicted /\ (disk'[x] = "reported" => disk[x] = "reported")
        /\ (disk' = disk \/ At("rename"))
    BY <1>0, <1>12 DEF StepFails, Renames
  <2>2. CASE index' = index BY <1>1, <2>1, <2>2
  <2>3. CASE index' # index
    <3>1. \/ tx.pc \in {"dropExpired", "dropPurged"} /\ Unlists(tx.unlinked)
          \/ Tightening
      BY <1>12, <2>3 DEF StepFails, StoreWrite, Forgets, StoresSnapshot, Tightening, stores
    <3>2. disk' = disk BY <2>1, <3>1 DEF At, Tightening
    <3> QED BY <1>2, <1>4, <2>1, <3>1, <3>2
  <2> QED BY <2>2, <2>3
<1>13. CASE ExportUnregistered
  <2>1. disk'[x] = "reported" => disk[x] = "reported"
    BY <1>0, <1>13 DEF ExportUnregistered, Unlinks
  <2> QED BY <1>1, <1>3, <1>13, <2>1 DEF ExportUnregistered, Listing, stores
<1>14. CASE IndexRefused \/ Rotate \/ RotatePartly \/ ConfigureKey \/ RemovePreviousKey \/ Tick
  BY <1>1, <1>14 DEF IndexRefused, Rotate, RotatePartly, ConfigureKey, RemovePreviousKey,
     Tick, stores, files
<1>15. ASSUME NEW p \in Procs, \/ \E kind \in Kinds \ {"cleanup"}, y \in Exports, d \in Retentions :
                                    Call(p, kind, y, d)
                               \/ Startup(p) \/ TimerFires(p) \/ Crash(p) \/ Restart(p)
       PROVE  UNCHANGED <<index, evicted, disk>>
  BY <1>15 DEF Call, Startup, TimerFires, Crash, Restart, stores, files
<1> QED BY <1>1, <1>5, <1>6, <1>7, <1>8, <1>9, <1>10, <1>11, <1>12, <1>13, <1>14, <1>15
        DEF Next, Step, VaultStep

-----------------------------------------------------------------------------
(* Purges                                                                    *)

\* One transaction at a time: nothing of a subject reported purged is stored
\* before a call that stores it again has begun.
LEMMA NotPurgedNext ==
  ASSUME Sound, NotPurged, Next
  PROVE  NotPurged'
<1>0. /\ tx \in Tx /\ NoTx.kind = "none"
      /\ \A y \in Exports : RefOf(y) \in Refs
  BY Idle DEF Sound, TypeOK, RefOf, Exports
<1>1. CASE tx' = NoTx
  BY <1>0, <1>1 DEF NotPurged
<1>2. ASSUME tx'.kind = tx.kind, tx'.export = tx.export, purged' = purged
      PROVE  NotPurged'
  BY <1>2 DEF NotPurged, Ref
<1>3. CASE Expire \/ Orphans \/ Reschedule \/ PutRegisters \/ PutTightens
  BY <1>0, <1>1, <1>2, <1>3 DEF Expire, Orphans, Reschedule, PutRegisters, PutTightens, Goes, Tx
<1>a. CASE ExpireExports \/ DropEntry
  BY <1>0, <1>2, <1>a DEF ExpireExports, DropEntry, Goes, Tx
<1>4. CASE ReadsLive \/ ExportWrites \/ ExportRenames \/ ExportRegisters
  BY <1>0, <1>1, <1>2, <1>4 DEF ReadsLive, ExportWrites, ExportRenames, ExportRegisters, Goes, Tx
<1>5. CASE PurgeExports \/ PurgeRecords \/ Schedule
  BY <1>0, <1>2, <1>5 DEF PurgeExports, PurgeRecords, Schedule, Goes, Tx
<1>6. CASE Report \/ IndexRefused \/ StepFails \/ ExportUnregistered \/ Rotate \/ RotatePartly
  BY <1>1, <1>6 DEF Report, IndexRefused, StepFails, ExportUnregistered, Rotate, RotatePartly, Aborts
<1>7. CASE ConfigureKey \/ RemovePreviousKey \/ Tick
  BY <1>2, <1>7 DEF ConfigureKey, RemovePreviousKey, Tick
<1>8. ASSUME NEW p \in Procs, NEW kind \in Kinds \ {"cleanup"}, NEW x \in Exports,
             NEW d \in Retentions, Call(p, kind, x, d)
      PROVE  NotPurged'
  <2>1. tx'.kind = kind /\ tx'.export = x BY <1>8 DEF Call, Begin
  <2>2. kind \in {"put", "export"} => purged' = purged \ {SubjectOf(RefOf(x))}
    BY <1>8 DEF Call
  <2> QED BY <2>1, <2>2 DEF NotPurged, Ref
<1>9. ASSUME NEW p \in Procs, Startup(p) \/ TimerFires(p)
      PROVE  NotPurged'
  BY <1>9 DEF Startup, TimerFires, Begin, NotPurged
<1>10. ASSUME NEW p \in Procs, Crash(p) \/ Restart(p)
       PROVE  NotPurged'
  BY <1>1, <1>2, <1>10 DEF Crash, Restart
<1> QED BY <1>3, <1>a, <1>4, <1>5, <1>6, <1>7, <1>8, <1>9, <1>10 DEF Next, Step, VaultStep

LEMMA PurgeSoFarNext ==
  ASSUME Sound, PurgeSoFar, Next
  PROVE  PurgeSoFar'
<1>0. /\ tx \in Tx /\ NoTx.kind = "none" /\ OnPath
      /\ evidence \in [Refs -> Record \cup {None}] /\ index \in [Exports -> Record \cup {None}]
      /\ DOMAIN evidence' = Refs /\ DOMAIN index' = Exports
      /\ tx.unlinked \in Exports /\ HisRecords \subseteq Refs
  BY Idle, StoresFit DEF Sound, TypeOK, Fits, Tx, HisRecords, Live
<1> SUFFICES ASSUME tx'.kind = "purge" PROVE PurgeSoFar'
  BY DEF PurgeSoFar
<1>1. ASSUME tx'.export = tx.export, tx.kind = "purge", Keeps \/ Loses,
             \/ tx'.pc = tx.pc
             \/ tx'.pc \in {"purgeExports", "dropPurged"}
             \/ tx'.pc \in {"reschedule", "purgeRecords"} /\ HisExports = {}
             \/ tx.pc = "reschedule" /\ tx'.pc = "purgeRecords"
             \/ tx.pc = "purgeRecords" /\ tx'.pc = "schedule" /\ HisRecords = {}
             \/ tx.pc = "schedule" /\ tx'.pc = "report"
      PROVE  PurgeSoFar'
  <2>1. OnlyLoses BY <1>1, LosesOnly
  <2>2. tx'.pc \notin {"purgeExports", "dropPurged"} =>
          \A x \in Exports : SubjectOf(RefOf(x)) = SubjectOf(Ref) => index'[x] = None
    BY <1>0, <1>1, <2>1 DEF PurgeSoFar, OnlyLoses, HisExports, Live
  <2>3. tx'.pc \in {"schedule", "report"} =>
          \A r \in Refs : SubjectOf(r) = SubjectOf(Ref) => evidence'[r] = None
    BY <1>0, <1>1, <2>1 DEF PurgeSoFar, OnlyLoses, HisRecords, Live
  <2> QED BY <1>0, <1>1, <2>2, <2>3 DEF PurgeSoFar, Ref, Live
<1>2. CASE UNCHANGED <<tx, stores>>
  BY <1>2 DEF PurgeSoFar, Ref, stores, Live
<1>3. CASE Expire \/ ExpireExports \/ Orphans \/ PutRegisters \/ PutTightens
  <2>1. tx.kind = "purge"
    <3>1. CASE Orphans
      BY <1>0, <3>1 DEF Orphans, Tx
    <3>2. CASE Expire \/ ExpireExports \/ PutRegisters \/ PutTightens
      BY <1>0, <3>2 DEF Expire, ExpireExports, PutRegisters, PutTightens, Goes, Tx
    <3> QED BY <1>3, <3>1, <3>2
  <2>2. tx.pc \in {"expire", "expireExports", "orphans", "register", "tighten"}
    BY <1>3 DEF Expire, ExpireExports, Orphans, PutRegisters, PutTightens, At
  <2> QED BY <1>0, <2>1, <2>2 DEF OnPath, Path, CleanUp
<1>4. CASE ReadsLive \/ ExportWrites \/ ExportRenames \/ ExportRegisters
  <2>1. tx.pc \in {"live", "write", "rename", "index"}
    BY <1>4 DEF ReadsLive, ExportWrites, ExportRenames, ExportRegisters, At
  <2>2. tx.kind \in {"put", "status", "export"}
    BY <1>0, <2>1, Idle DEF OnPath, Path, Kinds, CleanUp
  <2>3. tx'.kind \in {tx.kind, "none"}
    <3>1. CASE ReadsLive
      BY <1>0, <3>1 DEF ReadsLive, Goes, Tx
    <3>2. CASE ExportWrites \/ ExportRenames \/ ExportRegisters
      BY <1>0, <3>2 DEF ExportWrites, ExportRenames, ExportRegisters, Goes, Tx
    <3> QED BY <1>4, <3>1, <3>2
  <2> QED BY <2>2, <2>3
<1>5. CASE PurgeExports
  <2>1. tx.kind = "purge" /\ tx'.export = tx.export /\ Keeps
        /\ (tx'.pc = "dropPurged" \/ (tx'.pc = "reschedule" /\ HisExports = {}))
    <3>1. CASE \E x \in HisExports : tx' = [tx EXCEPT !.pc = "dropPurged", !.unlinked = x]
      BY <1>0, <1>5, <3>1 DEF PurgeExports, Tx, Keeps
    <3>2. CASE HisExports = {} /\ Goes("reschedule")
      BY <1>0, <1>5, <3>2 DEF PurgeExports, Goes, Tx, Keeps
    <3> QED BY <1>5, <3>1, <3>2 DEF PurgeExports
  <2> QED BY <1>1, <2>1
<1>a. CASE DropEntry
  <2>1. tx'.kind = tx.kind /\ tx'.export = tx.export /\ Loses
    BY <1>0, <1>a DEF DropEntry, Tx, Loses
  <2>2. tx.pc = "dropPurged" BY <1>0, <1>a, <2>1 DEF DropEntry, OnPath, Path, CleanUp
  <2>3. tx'.pc = "purgeExports" BY <1>0, <1>a, <2>2 DEF DropEntry, At, Tx
  <2> QED BY <1>1, <2>1, <2>3
<1>b. CASE Reschedule
  <2>1. tx'.kind = tx.kind /\ tx'.export = tx.export /\ Keeps /\ tx.pc = "reschedule"
        /\ tx'.pc = AfterCleanup
    BY <1>0, <1>b DEF Reschedule, Goes, At, Keeps, Tx
  <2>2. AfterCleanup = "purgeRecords" BY <2>1 DEF AfterCleanup
  <2> QED BY <1>1, <2>1, <2>2
<1>6. CASE PurgeRecords
  <2>1. tx'.kind = tx.kind /\ tx'.export = tx.export /\ (Keeps \/ Loses) /\ tx.pc = "purgeRecords"
        /\ (tx' = tx \/ (tx'.pc = "schedule" /\ HisRecords = {}))
    BY <1>0, <1>6 DEF PurgeRecords, Goes, At, Keeps, Loses, Tx
  <2> QED BY <1>1, <2>1
<1>7. CASE Schedule
  <2>1. Keeps /\ tx.pc = "schedule" /\ tx'.export = tx.export /\ tx'.kind = tx.kind /\ tx'.pc = "report"
    BY <1>0, <1>7 DEF Schedule, Goes, At, Tx, Keeps
  <2> QED BY <1>1, <2>1
<1>8. CASE Report \/ IndexRefused \/ StepFails \/ ExportUnregistered \/ Rotate \/ RotatePartly
  BY <1>0, <1>8 DEF Report, IndexRefused, StepFails, ExportUnregistered, Rotate, RotatePartly, Aborts
<1>9. CASE ConfigureKey \/ RemovePreviousKey \/ Tick
  BY <1>2, <1>9 DEF ConfigureKey, RemovePreviousKey, Tick, stores
<1>10. ASSUME NEW p \in Procs, NEW kind \in Kinds \ {"cleanup"}, NEW x \in Exports,
              NEW d \in Retentions, Call(p, kind, x, d)
       PROVE  PurgeSoFar'
  BY <1>10 DEF Call, Begin, PurgeSoFar
<1>11. ASSUME NEW p \in Procs, Startup(p) \/ TimerFires(p)
       PROVE  FALSE
  BY <1>11 DEF Startup, TimerFires, Begin
<1>12. ASSUME NEW p \in Procs, Crash(p) \/ Restart(p)
       PROVE  PurgeSoFar'
  BY <1>0, <1>2, <1>12 DEF Crash, Restart, stores
<1> QED BY <1>3, <1>4, <1>5, <1>a, <1>b, <1>6, <1>7, <1>8, <1>9, <1>10, <1>11, <1>12
        DEF Next, Step, VaultStep

LEMMA PurgeIsCompleteNext ==
  ASSUME Sound, Tracked, Purged, Next
  PROVE  PurgeIsComplete'
<1> SUFFICES ASSUME NEW s \in purged'
             PROVE  /\ \A r \in Refs : SubjectOf(r) = s => evidence'[r] = None
                    /\ \A x \in Exports : SubjectOf(RefOf(x)) = s =>
                         index'[x] = None /\ (disk'[x] = "reported" => x \in evicted')
  <2>1. DOMAIN evidence' = Refs BY StoresFit DEF Fits
  <2> QED BY <2>1 DEF PurgeIsComplete, Live
<1>0. /\ tx \in Tx /\ OnPath /\ NoTx.pc = "idle"
      /\ evidence \in [Refs -> Record \cup {None}] /\ index \in [Exports -> Record \cup {None}]
      /\ disk \in [Exports -> {"none", "written", "reported"}]
  BY Idle DEF Sound, TypeOK
<1>p. s \in purged => /\ \A r \in Refs : SubjectOf(r) = s => evidence[r] = None
                      /\ \A x \in Exports : SubjectOf(RefOf(x)) = s =>
                           index[x] = None /\ (disk[x] = "reported" => x \in evicted)
  BY <1>0 DEF Purged, PurgeIsComplete, Live
<1>1. ASSUME s \in purged, OnlyLoses, evicted' = evicted,
             \A x \in Exports : SubjectOf(RefOf(x)) = s => (disk'[x] = "reported" => disk[x] = "reported")
      PROVE  /\ \A r \in Refs : SubjectOf(r) = s => evidence'[r] = None
             /\ \A x \in Exports : SubjectOf(RefOf(x)) = s =>
                  index'[x] = None /\ (disk'[x] = "reported" => x \in evicted')
  BY <1>1, <1>p DEF OnlyLoses
<1>e. ASSUME At("register") \/ At("tighten") \/ At("index")
      PROVE  SubjectOf(Ref) \notin purged
  <2>1. tx.kind \in {"put", "export"} BY <1>0, <1>e DEF At, OnPath, Path, Kinds, CleanUp
  <2> QED BY <2>1 DEF Purged, NotPurged
<1>2. ASSUME purged' = purged, \A x \in Exports : disk'[x] = "reported" => disk[x] = "reported",
             evicted' = evicted \/ Listing
      PROVE  /\ \A r \in Refs : SubjectOf(r) = s => evidence'[r] = None
             /\ \A x \in Exports : SubjectOf(RefOf(x)) = s =>
                  index'[x] = None /\ (disk'[x] = "reported" => x \in evicted')
  <2>1. CASE Listing
    <3>1. SubjectOf(Ref) \notin purged BY <1>e, <2>1 DEF Listing
    <3> QED BY <1>2, <1>p, <2>1, <3>1, ExportListed DEF Ref
  <2>2. CASE Snapshots /\ evicted' = evicted
    <3>1. SubjectOf(Ref) \notin purged BY <1>e, <2>2 DEF Snapshots
    <3> QED BY <1>2, <1>p, <2>2, <3>1, SnapshotStored
  <2>3. CASE Tightening /\ evicted' = evicted
    <3>1. SubjectOf(Ref) \notin purged BY <1>e, <2>3 DEF Tightening
    <3>2. evidence' = evidence /\ \A x \in Exports : RefOf(x) # Ref => index'[x] = index[x]
      BY <1>0, <2>3, ExportTightened
    <3> QED BY <1>2, <1>p, <2>3, <3>1, <3>2
  <2>4. CASE (Keeps \/ Loses) /\ evicted' = evicted
    <3>1. OnlyLoses BY <2>4, LosesOnly
    <3> QED BY <1>1, <1>2, <2>4, <3>1
  <2> QED BY <1>2, <2>1, <2>2, <2>3, <2>4, StoreEffects DEF Sound
<1>5. CASE Orphans
  BY <1>0, <1>5, <1>p DEF Orphans, Unlinks, stores, files
<1>6. CASE Report
  <2>1. CASE s \in purged
    <3>1. tx.kind = "export" => SubjectOf(RefOf(tx.export)) # s
      BY <2>1 DEF Purged, NotPurged, Ref
    <3> QED BY <1>0, <1>6, <1>p, <2>1, <3>1 DEF Report, stores
  <2>2. CASE s \notin purged
    <3>1. tx.kind = "purge" /\ s = SubjectOf(Ref) /\ tx.pc = "report" /\ UNCHANGED <<stores, disk, evicted>>
      BY <1>6, <2>2 DEF Report, At, Ref
    <3>2. /\ \A x \in Live(index) : SubjectOf(RefOf(x)) # s
          /\ \A r \in Live(evidence) : SubjectOf(r) # s
      BY <3>1 DEF Purged, PurgeSoFar
    <3> QED BY <1>0, <3>1, <3>2 DEF Live, stores, Tracked, ReportedExportTracked
  <2> QED BY <2>1, <2>2
<1>7. ASSUME NEW p \in Procs, \/ \E kind \in Kinds \ {"cleanup"}, y \in Exports, d \in Retentions :
                                   Call(p, kind, y, d)
                              \/ Startup(p) \/ TimerFires(p) \/ Crash(p) \/ Restart(p)
      PROVE  /\ \A r \in Refs : SubjectOf(r) = s => evidence'[r] = None
             /\ \A x \in Exports : SubjectOf(RefOf(x)) = s =>
                  index'[x] = None /\ (disk'[x] = "reported" => x \in evicted')
  <2>1. s \in purged /\ UNCHANGED <<evidence, index, disk, evicted>>
    BY <1>7 DEF Call, Startup, TimerFires, Crash, Restart, files, stores
  <2> QED BY <1>p, <2>1
<1>8. CASE ~Orphans /\ ~Report /\ ~(\E p \in Procs :
             \/ \E kind \in Kinds \ {"cleanup"}, y \in Exports, d \in Retentions : Call(p, kind, y, d)
             \/ Startup(p) \/ TimerFires(p) \/ Crash(p) \/ Restart(p))
  <2>1. /\ purged' = purged /\ (evicted' = evicted \/ Listing)
        /\ \A x \in Exports : disk'[x] = "reported" => disk[x] = "reported"
    <3>1. CASE Expire \/ ExpireExports \/ DropEntry \/ Reschedule \/ ReadsLive \/ ExportWrites
      BY <1>0, <3>1 DEF Expire, ExpireExports, DropEntry, Unlinks, Reschedule, ReadsLive, ExportWrites, files
    <3>2. CASE PutRegisters \/ PutTightens \/ ExportRegisters
      BY <1>0, <3>2 DEF PutRegisters, PutTightens, ExportRegisters, Listing, files
    <3>3. CASE ExportRenames \/ PurgeExports \/ PurgeRecords \/ Schedule
      BY <1>0, <3>3 DEF ExportRenames, Renames, PurgeExports, Unlinks, PurgeRecords, Schedule, files
    <3>4. CASE IndexRefused \/ Rotate \/ RotatePartly
      BY <1>0, <3>4 DEF IndexRefused, Rotate, RotatePartly, files
    <3>5. CASE StepFails
      BY <1>0, <3>5 DEF StepFails, Renames
    <3>6. CASE ExportUnregistered
      BY <1>0, <3>6 DEF ExportUnregistered, Unlinks, Listing
    <3>7. CASE ConfigureKey \/ RemovePreviousKey \/ Tick
      BY <3>7 DEF ConfigureKey, RemovePreviousKey, Tick, files
    <3> QED BY <1>8, <3>1, <3>2, <3>3, <3>4, <3>5, <3>6, <3>7 DEF Next, Step, VaultStep
  <2> QED BY <1>2, <2>1
<1> QED BY <1>5, <1>6, <1>7, <1>8

-----------------------------------------------------------------------------
(* The invariant, and what follows from it                                   *)

LEMMA VaultInvInit == Init => VaultInv
<1> SUFFICES ASSUME Init PROVE VaultInv
  OBVIOUS
<1>1. Sound BY InitSound
<1>2. SealedByRing
  BY DEF Init, SealedByRing, KeyRing, OneKey, EveryStoreOpens, Opens, Ring
<1>3. tx.kind = "none" /\ tx.pc = "idle"
  BY Idle DEF Init
<1>4. Live(index) = {} /\ \A x \in Exports : disk[x] = "none"
  BY DEF Init, Live
<1> QED BY <1>1, <1>2, <1>3, <1>4
        DEF VaultInv, Retained, TornMeanwhile, ExportWithinRetention, Tracked, ExportEntered, FileFirst,
            ReportedExportTracked, Purged, NotPurged, PurgeSoFar, PurgeIsComplete, Init

LEMMA VaultInvNext == VaultInv /\ [Next]_vars => VaultInv'
<1> SUFFICES ASSUME VaultInv, [Next]_vars PROVE VaultInv'
  OBVIOUS
<1>1. Sound' /\ SealedByRing'
  BY SoundNext DEF VaultInv
<1>2. CASE Next
  BY <1>1, <1>2, RetainedNext, ExportEnteredNext, FileFirstNext, ReportedStaysTracked, NotPurgedNext, PurgeSoFarNext,
     PurgeIsCompleteNext DEF VaultInv, Tracked, Purged
<1>3. CASE UNCHANGED vars
  <2> USE <1>3 DEF vars
  <2>1. Retained'
    BY DEF VaultInv, Retained, TornMeanwhile, ExportWithinRetention, Live, Ref
  <2>2. Tracked'
    BY DEF VaultInv, Tracked, ExportEntered, FileFirst, ReportedExportTracked
  <2>3. Purged'
    BY DEF VaultInv, Purged, NotPurged, PurgeSoFar, PurgeIsComplete, Live, Ref
  <2> QED BY <1>1, <2>1, <2>2, <2>3 DEF VaultInv
<1> QED BY <1>2, <1>3

LEMMA VaultInvariant == Spec => []VaultInv
BY VaultInvInit, VaultInvNext, PTL DEF Spec

\* Whatever stops, fails or is dropped, the stores hold whole records and no more
\* of them than they may.
THEOREM VaultTypeCorrect == Spec => []TypeOK
<1>1. VaultInv => TypeOK
  BY DEF VaultInv, Sound
<1> QED BY <1>1, VaultInvariant, PTL

\* However often keys are configured, rotated and removed, and whichever store
\* fails to be sealed anew, every store opens with the keys that are left.
THEOREM StoresAlwaysOpen == Spec => []EveryStoreOpens
<1>1. VaultInv => EveryStoreOpens
  BY DEF VaultInv, SealedByRing
<1> QED BY <1>1, VaultInvariant, PTL

\* A reported file has the entry that will remove it, unless a full index has
\* dropped that since the last clean-up.
THEOREM ReportedExportsTracked == Spec => []ReportedExportTracked
<1>1. VaultInv => ReportedExportTracked
  BY DEF VaultInv, Tracked
<1> QED BY <1>1, VaultInvariant, PTL

\* Of a subject reported purged nothing is left that was ever reported, but files
\* whose entries a full index dropped, until something of it is stored again.
THEOREM PurgesComplete == Spec => []PurgeIsComplete
<1>1. VaultInv => PurgeIsComplete
  BY DEF VaultInv, Purged
<1> QED BY <1>1, VaultInvariant, PTL

\* No export outlives the record it was made from, unless the put that shortened
\* the record stopped half-way.
THEOREM ExportsWithinRetention == Spec => []ExportWithinRetention
<1>1. VaultInv => ExportWithinRetention
  BY DEF VaultInv, Retained
<1> QED BY <1>1, VaultInvariant, PTL

\* Storing a snapshot again, with whatever retention, never moves its expiry to a
\* later time, failing or not, and nothing but a new export that of an export.
THEOREM RetentionShortens == Spec => RetentionOnlyShortens
<1>1. VaultInv /\ [Next]_vars =>
        [ /\ \A r \in Refs : (evidence[r] # None /\ evidence'[r] # None) =>
               /\ evidence'[r].created = evidence[r].created
               /\ evidence'[r].expires <= evidence[r].expires
          /\ \A x \in Exports : (tx.kind # "export" /\ index[x] # None /\ index'[x] # None) =>
               index'[x].expires <= index[x].expires ]_vars
  BY RetentionStep DEF VaultInv
<1> QED BY <1>1, VaultInvariant, PTL DEF Spec, RetentionOnlyShortens

===============================================================================
