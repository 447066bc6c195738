----------------------------- MODULE EvidenceVault -----------------------------
(* The encrypted evidence vault (lib/evidence-vault.mjs): records with a       *)
(* retention, the redacted export files made from them, the encrypted index of *)
(* those files, the idle clean-up timer of each gateway process, and the purge *)
(* of a subject.  Every operation runs under the transaction lock, so that one *)
(* at a time is under way (StateLock).  A step is one store or file operation: *)
(* between any two the gateway may stop or the clock pass an expiry, and each  *)
(* may fail, a store write also after it took effect.  A tick is a day.        *)
EXTENDS Clock, FiniteSets, FiniteSetsExt

CONSTANTS
  Procs,        \* gateway processes that share the state directory
  NoProc,
  Subjects, Contents, Formats,
  Retentions,   \* retention periods a snapshot may be stored with
  MaxRecords,   \* maxEntries of the evidence store
  MaxExports,   \* maxEntries of the export index
  MaxDelay,     \* the longest delay of a timer
  MaxFailures, MaxCalls, MaxCrashes, MaxKeys   \* bounds

Refs == Subjects \X Contents      \* a reference is the digest of subject and content
Exports == Refs \X Formats
SubjectOf(ref) == ref[1]
RefOf(x) == x[1]
Triggers == {"call", "timer", "startup"}

ASSUME VaultAssumption ==
  /\ NoProc \notin Procs
  /\ {} \notin {Subjects, Contents, Formats, Retentions}
  /\ Retentions \subseteq Nat \ {0} /\ MaxDelay \in Nat \ {0}
  /\ {MaxRecords, MaxExports} \subseteq Nat \ {0}
  /\ {MaxFailures, MaxCalls, MaxCrashes, MaxKeys} \subseteq Nat

VARIABLES
  evidence,   \* the evidence store
  index,      \* the export index
  disk,       \* the export files, and whether their export was reported
  temps,      \* exports with an unfinished temporary file
  timer,      \* when the clean-up timer of a process fires
  process,    \* "down", "starting" or "up"
  tx,         \* the transaction that holds the lock
  keys,       \* the key ring, and the key each store is sealed with
  torn,       \* history: references retained more strictly than their exports
  unplanned,  \* history: the planning of a clean-up failed
  purged,     \* history: subjects reported purged and not stored again
  evicted,    \* history: exports whose entry a full index dropped, before the next clean-up
  spent       \* calls, failures and crashes so far

vars == <<now, evidence, index, disk, temps, timer, process, tx, keys, torn, unplanned, purged,
          evicted, spent>>
stores == <<evidence, index>>
files == <<disk, temps>>

None == [created |-> Never, expires |-> Never, stored |-> Never, retention |-> Never]
Record == [created : Nat, expires : Nat, stored : Nat, retention : Nat]
NoTx == [trigger |-> "none", kind |-> "none", proc |-> NoProc, pc |-> "idle", failing |-> FALSE,
         export |-> CHOOSE x \in Exports : TRUE, retention |-> CHOOSE d \in Retentions : TRUE,
         unlinked |-> CHOOSE x \in Exports : TRUE]
Kinds == {"put", "status", "export", "purge", "rotate", "cleanup"}
Stores == {"evidence", "index", "others"}
Steps == {"idle", "expire", "expireExports", "dropExpired", "orphans", "reschedule", "register",
          "tighten", "live", "write", "rename", "index", "purgeExports", "dropPurged",
          "purgeRecords", "reseal", "schedule", "report"}
\* unlinked is the export whose file the transaction has just removed.
Tx == [trigger : Triggers \cup {"none"}, kind : Kinds \cup {"none"}, proc : Procs \cup {NoProc},
       pc : Steps, failing : BOOLEAN, export : Exports, retention : Retentions, unlinked : Exports]

TypeOK ==
  /\ ClockTypeOK
  /\ evidence \in [Refs -> Record \cup {None}]
  /\ index \in [Exports -> Record \cup {None}]
  /\ disk \in [Exports -> {"none", "written", "reported"}]
  /\ temps \subseteq Exports
  /\ timer \in [Procs -> Nat \cup {Never}]
  /\ process \in [Procs -> {"down", "starting", "up"}]
  /\ tx \in Tx
  /\ keys \in [active : Nat, previous : BOOLEAN, rotated : BOOLEAN, sealed : [Stores -> Nat]]
  /\ unplanned \in BOOLEAN
  /\ torn \subseteq Refs /\ purged \subseteq Subjects /\ evicted \subseteq Exports
  /\ spent \in [{"calls", "failures", "crashes"} -> Nat]
  /\ Cardinality({r \in Refs : evidence[r] # None}) <= MaxRecords
  /\ Cardinality({x \in Exports : index[x] # None}) <= MaxExports

Init ==
  /\ ClockInit
  /\ evidence = [r \in Refs |-> None] /\ index = [x \in Exports |-> None]
  /\ disk = [x \in Exports |-> "none"] /\ temps = {}
  /\ timer = [p \in Procs |-> Never]
  /\ process = [p \in Procs |-> "starting"]
  /\ tx = NoTx
  /\ keys = [active |-> 0, previous |-> FALSE, rotated |-> FALSE, sealed |-> [s \in Stores |-> 0]]
  /\ torn = {} /\ purged = {} /\ evicted = {} /\ unplanned = FALSE
  /\ spent = [b \in {"calls", "failures", "crashes"} |-> 0]

-----------------------------------------------------------------------------
(* Helpers                                                                   *)

Live(f) == {k \in DOMAIN f : f[k] # None}
Expired(r) == r # None /\ r.expires <= now

\* validateExportRecord: an entry that ends before it begins makes every reader
\* of the index throw.
Valid(entry) == entry.expires > entry.created
Readable == \A x \in Live(index) : Valid(index[x])

Spend(what) == spent' = [spent EXCEPT ![what] = @ + 1]

\* Fault: the store holds one record more than it may.
MakesRoomLate(f, k, max) ==
  {[j \in DOMAIN f |-> IF j \in dropped THEN None ELSE f[j]] :
     dropped \in {d \in SUBSET (Live(f) \ {k}) :
                    Cardinality(Live(f) \ d) = Min({Cardinality(Live(f)), max + 1})}}

\* A full store drops the records it has stored longest for the new one.
MakesRoom(f, k, max) ==
  {[j \in DOMAIN f |-> IF j \in dropped THEN None ELSE f[j]] :
     dropped \in {d \in SUBSET (Live(f) \ {k}) :
                    /\ Cardinality(Live(f) \ d) = Min({Cardinality(Live(f)), max})
                    /\ \A i \in d, j \in Live(f) \ (d \cup {k}) : f[i].stored <= f[j].stored}}

At(pc) == tx.pc = pc
Goes(pc) == tx' = [tx EXCEPT !.pc = pc]
Ref == RefOf(tx.export)

Forgets(r) == evidence' = [evidence EXCEPT ![r] = None] /\ UNCHANGED index
Unlists(x) == index' = [index EXCEPT ![x] = None] /\ UNCHANGED evidence
\* The file is gone, or was gone before (ENOENT).
Unlinks(x) == disk' = [disk EXCEPT ![x] = "none"]

Expiries == {evidence[r].expires : r \in Live(evidence)} \cup {index[x].expires : x \in Live(index)}

\* Fault: an expiry that is further away than a timer can wait is not planned.
NextCleanupInReach ==
  IF {e \in Expiries : e <= now + MaxDelay} = {} THEN Never ELSE Max({now, Min(Expiries)})

\* scheduleNextCleanup: the nearest expiry, or nothing to wait for.
NextCleanup ==
  IF Expiries = {} THEN Never ELSE Min({now + MaxDelay, Max({now, Min(Expiries)})})

Plans ==
  /\ timer' = [timer EXCEPT ![tx.proc] = NextCleanup]
  /\ unplanned' = FALSE

\* A transaction that throws releases the lock.  The timer alone tries again,
\* within the day; one that plans the next clean-up has cleared the timer before.
Aborts ==
  /\ tx' = NoTx
  /\ timer' = [timer EXCEPT ![tx.proc] =
       CASE tx.trigger = "timer" -> now
         [] tx.pc \in {"reschedule", "schedule"} -> Never
         [] OTHER -> @]
  /\ unplanned' =
       (unplanned \/ tx.trigger = "startup" \/ (tx.trigger = "call" /\ tx.pc \in {"reschedule", "schedule"}))

-----------------------------------------------------------------------------
(* Transactions begin                                                        *)

Begin(trigger, kind, p, x, retention, pc) ==
  /\ tx = NoTx
  /\ tx' = [trigger |-> trigger, kind |-> kind, proc |-> p, pc |-> pc, failing |-> FALSE,
            export |-> x, retention |-> retention, unlinked |-> NoTx.unlinked]

\* put, metadata, exportRedacted and purgeSubject, as the tools call them
Call(p, kind, x, retention) ==
  /\ process[p] = "up" /\ spent["calls"] < MaxCalls
  /\ kind = "rotate" => keys.previous /\ RefOf(x) = RefOf(NoTx.export)
  /\ kind # "put" => retention = NoTx.retention
  /\ kind # "export" => x[2] = NoTx.export[2]
  /\ Begin("call", kind, p, x, retention, 
           CASE kind = "purge" -> "purgeExports" [] kind = "rotate" -> "reseal" [] OTHER -> "expire")
  /\ purged' = IF kind \in {"put", "export"} THEN purged \ {SubjectOf(RefOf(x))} ELSE purged
  /\ Spend("calls")
  /\ UNCHANGED <<now, stores, files, timer, process, keys, torn, unplanned, evicted>>

\* A process that starts cleans up before it takes any call.
Startup(p) ==
  /\ process[p] = "starting"
  /\ process' = [process EXCEPT ![p] = "up"]
  /\ Begin("startup", "cleanup", p, NoTx.export, NoTx.retention, "expire")
  /\ UNCHANGED <<now, stores, files, timer, keys, torn, unplanned, purged, evicted, spent>>

\* When the clock has reached its bound the days after it are one with it.
TimerFires(p) ==
  /\ process[p] = "up" /\ timer[p] # Never
  /\ timer[p] <= now \/ now = MaxTime
  /\ timer' = [timer EXCEPT ![p] = Never]
  /\ Begin("timer", "cleanup", p, NoTx.export, NoTx.retention, "expire")
  /\ UNCHANGED <<now, stores, files, process, keys, torn, unplanned, purged, evicted, spent>>

-----------------------------------------------------------------------------
(* Clean-up, first in every transaction but a purge                          *)

\* cleanupExpiredEvidenceInternal, record by record
Expire ==
  /\ At("expire")
  /\ \/ \E r \in Refs : Expired(evidence[r]) /\ Forgets(r) /\ UNCHANGED tx
     \/ (\A r \in Refs : ~Expired(evidence[r])) /\ Goes("expireExports") /\ UNCHANGED stores
  /\ UNCHANGED <<now, files, timer, process, torn, unplanned, purged, evicted, spent>>

\* cleanupExpiredExportsInternal, entry by entry: the file first, ...
ExpireExports ==
  /\ At("expireExports")
  /\ \/ \E x \in Live(index) :
          /\ Valid(index[x]) /\ Expired(index[x])
          /\ Unlinks(x)
          /\ tx' = [tx EXCEPT !.pc = "dropExpired", !.unlinked = x]
     \/ /\ Readable /\ \A x \in Exports : ~Expired(index[x])
        /\ Goes("orphans") /\ UNCHANGED disk
  /\ UNCHANGED <<now, stores, temps, timer, process, torn, unplanned, purged, evicted, spent>>

\* ... then its entry; the same in a purge.
DropEntry ==
  /\ tx.pc \in {"dropExpired", "dropPurged"}
  /\ Unlists(tx.unlinked)
  /\ tx' = [tx EXCEPT !.pc = IF At("dropExpired") THEN "expireExports" ELSE "purgeExports",
                      !.unlinked = NoTx.unlinked]
  /\ UNCHANGED <<now, files, timer, process, torn, unplanned, purged, evicted, spent>>

\* Temporary files and files that no index entry names, one by one.
Orphans ==
  LET named == {x \in Exports : index[x] = None /\ disk[x] # "none"} IN
  /\ At("orphans")
  /\ \/ /\ \/ \E x \in named : Unlinks(x) /\ UNCHANGED temps
           \/ \E x \in temps : temps' = temps \ {x} /\ UNCHANGED disk
        /\ UNCHANGED <<evicted, tx>>
     \/ /\ named = {} /\ temps = {} /\ evicted' = {}
        /\ tx' = IF tx.failing THEN NoTx ELSE [tx EXCEPT !.pc = "reschedule"]
        /\ UNCHANGED files
  /\ UNCHANGED <<now, stores, timer, process, torn, unplanned, purged, spent>>

AfterCleanup ==
  CASE tx.kind = "put" -> "register"
    [] tx.kind \in {"status", "export"} -> "live"
    [] tx.kind = "cleanup" -> "report"
    [] tx.kind = "purge" -> "purgeRecords"

Reschedule ==
  /\ At("reschedule") /\ Readable
  /\ Plans
  /\ Goes(AfterCleanup)
  /\ UNCHANGED <<now, stores, files, process, torn, purged, evicted, spent>>

-----------------------------------------------------------------------------
(* put                                                                       *)

\* Fault: storing a snapshot again starts its retention anew.
RenewedBy(r) ==
  [created |-> now, expires |-> now + tx.retention, stored |-> now, retention |-> tx.retention]

\* The stricter of both retentions, counted from the first storing.
RetainedBy(r) ==
  [created |-> r.created, expires |-> Min({r.expires, r.created + tx.retention}), stored |-> now,
   retention |-> Min({r.retention, tx.retention})]

\* registerIfAbsent, else update
StoresSnapshot ==
  LET fresh == [created |-> now, expires |-> now + tx.retention, stored |-> now,
                retention |-> tx.retention] IN
  /\ IF evidence[Ref] = None
     THEN \E f \in MakesRoom([evidence EXCEPT ![Ref] = fresh], Ref, MaxRecords) : evidence' = f
     ELSE evidence' = [evidence EXCEPT ![Ref] = RetainedBy(@)]
  /\ UNCHANGED index

PutRegisters ==
  /\ At("register") /\ StoresSnapshot
  /\ torn' = torn \cup {Ref}
  /\ Goes("tighten")
  /\ UNCHANGED <<now, files, timer, process, unplanned, purged, evicted, spent>>

\* Fault: the exports keep the expiry they were made with.
PutKeepsExports ==
  /\ At("tighten")
  /\ torn' = torn \ {Ref}
  /\ Goes("live")
  /\ UNCHANGED <<now, stores, files, timer, process, unplanned, purged, evicted, spent>>

\* The exports that would outlive the record.
Late == {x \in Exports : RefOf(x) = Ref /\ index[x] # None /\ index[x].expires > evidence[Ref].expires}

Tightens(x) ==
  /\ index' = [index EXCEPT ![x].expires = evidence[Ref].expires, ![x].stored = now]
  /\ UNCHANGED evidence

\* tightenExportExpiry, entry by entry
PutTightens ==
  /\ At("tighten")
  /\ \/ \E x \in Late : Tightens(x) /\ UNCHANGED <<torn, tx>>
     \/ Late = {} /\ torn' = torn \ {Ref} /\ Goes("live") /\ UNCHANGED stores
  /\ UNCHANGED <<now, files, timer, process, unplanned, purged, evicted, spent>>

\* liveRecord: absent, just expired, or there
ReadsLive ==
  /\ At("live")
  /\ \/ /\ evidence[Ref] = None
        /\ tx' = NoTx /\ UNCHANGED stores
     \/ /\ Expired(evidence[Ref]) /\ Forgets(Ref)
        /\ tx' = [tx EXCEPT !.pc = "expireExports", !.failing = TRUE]
     \/ /\ evidence[Ref] # None /\ ~Expired(evidence[Ref])
        /\ Goes(CASE tx.kind = "put" -> "schedule"
                  [] tx.kind = "status" -> "report"
                  [] tx.kind = "export" -> "write")
        /\ UNCHANGED stores
  /\ UNCHANGED <<now, files, timer, process, torn, unplanned, purged, evicted, spent>>

-----------------------------------------------------------------------------
(* exportRedacted                                                            *)

ExportWrites ==
  /\ At("write")
  /\ temps' = temps \cup {tx.export}
  /\ Goes("rename")
  /\ UNCHANGED <<now, stores, disk, timer, process, torn, unplanned, purged, evicted, spent>>

Renames == disk' = [disk EXCEPT ![tx.export] = IF @ = "none" THEN "written" ELSE @]

ExportRenames ==
  /\ At("rename")
  /\ temps' = temps \ {tx.export}
  /\ Renames
  /\ Goes("index")
  /\ UNCHANGED <<now, stores, timer, process, torn, unplanned, purged, evicted, spent>>

\* The file expires with the record it was made from.
Lists ==
  LET x == tx.export
      entry == [created |-> now, expires |-> evidence[Ref].expires, stored |-> now,
                retention |-> evidence[Ref].retention] IN
  /\ \E f \in MakesRoom([index EXCEPT ![x] = entry], x, MaxExports) : index' = f
  /\ evicted' = (evicted \ {x}) \cup {y \in Live(index) \ {x} : index'[y] = None}
  /\ UNCHANGED evidence

ExportRegisters ==
  /\ At("index") /\ Lists
  /\ Goes("schedule")
  /\ UNCHANGED <<now, files, timer, process, torn, unplanned, purged, spent>>

-----------------------------------------------------------------------------
(* purgeSubject                                                              *)

HisExports == {x \in Live(index) : SubjectOf(RefOf(x)) = SubjectOf(Ref)}
HisRecords == {r \in Live(evidence) : SubjectOf(r) = SubjectOf(Ref)}

\* Fault: the entry goes first and its file after it.
PurgeEntriesFirst ==
  /\ At("purgeExports")
  /\ \/ \E x \in HisExports : Unlists(x) /\ tx' = [tx EXCEPT !.unlinked = x] /\ UNCHANGED disk
     \/ HisExports = {} /\ Unlinks(tx.unlinked) /\ Goes("reschedule") /\ UNCHANGED stores
  /\ UNCHANGED <<now, temps, timer, process, torn, unplanned, purged, evicted, spent>>

\* purgeExportsInternal, entry by entry; a clean-up is planned before the records go.
PurgeExports ==
  /\ At("purgeExports")
  /\ \/ \E x \in HisExports :
          /\ Valid(index[x])
          /\ Unlinks(x)
          /\ tx' = [tx EXCEPT !.pc = "dropPurged", !.unlinked = x]
     \/ Readable /\ HisExports = {} /\ Goes("reschedule") /\ UNCHANGED disk
  /\ UNCHANGED <<now, stores, temps, timer, process, torn, unplanned, purged, evicted, spent>>

\* Fault: only the record that the caller names goes.
PurgeNamedRecord ==
  /\ At("purgeRecords")
  /\ Forgets(Ref)
  /\ Goes("schedule")
  /\ UNCHANGED <<now, files, timer, process, torn, unplanned, purged, evicted, spent>>

PurgeRecords ==
  /\ At("purgeRecords")
  /\ \/ \E r \in HisRecords : Forgets(r) /\ UNCHANGED tx
     \/ HisRecords = {} /\ Goes("schedule") /\ UNCHANGED stores
  /\ UNCHANGED <<now, files, timer, process, torn, unplanned, purged, evicted, spent>>

-----------------------------------------------------------------------------
(* rightout_rotate_state_key                                                 *)

\* Fault: the report of a rotation does not wait for every store.
RotateSome ==
  /\ At("reseal")
  /\ \E done \in SUBSET Stores :
       keys' = [keys EXCEPT !.sealed = [s \in Stores |-> IF s \in done THEN keys.active ELSE @[s]],
                            !.rotated = TRUE]
  /\ tx' = NoTx
  /\ UNCHANGED <<now, stores, files, timer, process, torn, unplanned, purged, evicted, spent>>

\* The stores are sealed anew in parallel and all are waited for.
Rotate ==
  /\ At("reseal")
  /\ keys' = [keys EXCEPT !.sealed = [s \in Stores |-> keys.active], !.rotated = TRUE]
  /\ tx' = NoTx
  /\ UNCHANGED <<now, stores, files, timer, process, torn, unplanned, purged, evicted, spent>>

\* One of them fails, or the gateway stops, with the others sealed or not.
RotatePartly ==
  /\ At("reseal") /\ spent["failures"] < MaxFailures
  /\ \E done \in SUBSET Stores :
       keys' = [keys EXCEPT !.sealed = [s \in Stores |-> IF s \in done THEN keys.active ELSE @[s]]]
  /\ Spend("failures")
  /\ tx' = NoTx
  /\ UNCHANGED <<now, stores, files, timer, process, torn, unplanned, purged, evicted>>

\* The operator configures a new key and keeps the previous one, ...
ConfigureKey ==
  /\ ~keys.previous /\ keys.active < MaxKeys
  /\ keys' = [keys EXCEPT !.active = @ + 1, !.previous = TRUE, !.rotated = FALSE]
  /\ UNCHANGED <<now, stores, files, timer, process, tx, torn, unplanned, purged, evicted, spent>>

\* ... and removes that when the rotation is reported.
RemovePreviousKey ==
  /\ keys.previous /\ keys.rotated
  /\ keys' = [keys EXCEPT !.previous = FALSE]
  /\ UNCHANGED <<now, stores, files, timer, process, tx, torn, unplanned, purged, evicted, spent>>

-----------------------------------------------------------------------------
(* Transactions end                                                          *)

Schedule ==
  /\ At("schedule") /\ Readable
  /\ Plans
  /\ Goes("report")
  /\ UNCHANGED <<now, stores, files, process, torn, purged, evicted, spent>>

\* The lock is released and the caller has its result.
Report ==
  /\ At("report")
  /\ tx' = NoTx
  /\ disk' = IF tx.kind = "export" THEN [disk EXCEPT ![tx.export] = "reported"] ELSE disk
  /\ purged' = IF tx.kind = "purge" THEN purged \cup {SubjectOf(RefOf(tx.export))} ELSE purged
  /\ UNCHANGED <<now, stores, temps, timer, process, torn, unplanned, evicted, spent>>

\* An entry of the index is refused.
IndexRefused ==
  /\ tx.pc \in {"expireExports", "reschedule", "schedule", "purgeExports"} /\ ~Readable
  /\ Aborts
  /\ UNCHANGED <<now, stores, files, process, keys, torn, purged, evicted, spent>>

Crash(p) ==
  /\ process[p] # "down" /\ spent["crashes"] < MaxCrashes
  /\ process' = [process EXCEPT ![p] = "down"]
  /\ timer' = [timer EXCEPT ![p] = Never]
  /\ tx' = IF tx.proc = p THEN NoTx ELSE tx
  /\ Spend("crashes")
  /\ UNCHANGED <<now, stores, files, keys, torn, unplanned, purged, evicted>>

Restart(p) ==
  /\ process[p] = "down"
  /\ process' = [process EXCEPT ![p] = "starting"]
  /\ UNCHANGED <<now, stores, files, timer, tx, keys, torn, unplanned, purged, evicted, spent>>

Tick ==
  /\ ClockTicks
  /\ UNCHANGED <<stores, files, timer, process, tx, keys, torn, unplanned, purged, evicted, spent>>

\* secretRing and decryptStateFromRing: the keys a store is tried with.
Ring == {keys.active} \cup (IF keys.previous THEN {keys.active - 1} ELSE {})
Opens(s) == keys.sealed[s] \in Ring

\* writeState seals with the active key.
SealsWhatItWrites ==
  keys' = [keys EXCEPT !.sealed =
    [s \in Stores |-> IF (s = "evidence" /\ evidence' # evidence) \/ (s = "index" /\ index' # index)
                      THEN keys.active ELSE @[s]]]

-----------------------------------------------------------------------------
(* Failures                                                                  *)

\* The store write of the step that is under way.
StoreWrite ==
  \/ At("expire") /\ \E r \in Refs : Expired(evidence[r]) /\ Forgets(r)
  \/ At("live") /\ Expired(evidence[Ref]) /\ Forgets(Ref)
  \/ At("purgeRecords") /\ \E r \in HisRecords : Forgets(r)
  \/ tx.pc \in {"dropExpired", "dropPurged"} /\ Unlists(tx.unlinked)
  \/ At("register") /\ StoresSnapshot
  \/ At("tighten") /\ \E x \in Late : Tightens(x)

\* A store or file operation fails.  What follows the rename, of a store's file
\* or of an export's, can fail as well: then the change is made and refused.
StepFails ==
  /\ tx.pc \notin {"idle", "index", "reseal", "report"}
  /\ spent["failures"] < MaxFailures
  /\ UNCHANGED stores \/ StoreWrite
  /\ SealsWhatItWrites
  /\ torn' = IF At("register") /\ evidence' # evidence THEN torn \cup {Ref} ELSE torn
  /\ UNCHANGED disk \/ (At("rename") /\ Renames)
  /\ temps' = temps \ {tx.export}
  /\ Aborts
  /\ Spend("failures")
  /\ UNCHANGED <<now, process, purged, evicted>>

\* The entry is refused, written or not: that the file goes again is tried once.
ExportUnregistered ==
  /\ At("index") /\ spent["failures"] < MaxFailures
  /\ UNCHANGED <<stores, evicted>> \/ Lists
  /\ SealsWhatItWrites
  /\ UNCHANGED disk \/ Unlinks(tx.export)
  /\ Aborts
  /\ Spend("failures")
  /\ UNCHANGED <<now, temps, process, torn, purged>>

-----------------------------------------------------------------------------
VaultStep ==
  \/ Expire \/ ExpireExports \/ DropEntry \/ Orphans \/ Reschedule
  \/ PutRegisters \/ PutTightens \/ ReadsLive
  \/ ExportWrites \/ ExportRenames \/ ExportRegisters
  \/ PurgeExports \/ PurgeRecords
  \/ Schedule \/ Report

Step == \/ (VaultStep /\ SealsWhatItWrites)
        \/ IndexRefused \/ Rotate

Next ==
  \/ Step \/ StepFails \/ ExportUnregistered \/ RotatePartly
  \/ ConfigureKey \/ RemovePreviousKey \/ Tick
  \/ \E p \in Procs :
       \/ \E kind \in Kinds \ {"cleanup"}, x \in Exports, d \in Retentions : Call(p, kind, x, d)
       \/ Startup(p) \/ TimerFires(p) \/ Crash(p) \/ Restart(p)

Spec == Init /\ [][Next]_vars

\* Time passes; the host runs what has begun, fires due timers and starts the
\* gateway again.
Fairness ==
  /\ WF_vars(Tick) /\ WF_vars(Step)
  /\ \A p \in Procs : WF_vars(Startup(p)) /\ WF_vars(TimerFires(p)) /\ WF_vars(Restart(p))

FairSpec == Spec /\ Fairness

-----------------------------------------------------------------------------
(* Properties                                                                *)

\* docs/architecture.md: a successful export is "either durably tracked or
\* subsequently purged".  Whatever fails or stops, a reported file never loses
\* the entry that will remove it, unless a full index drops it, and then only until
\* the next clean-up.
ReportedExportTracked == \A x \in Exports : disk[x] = "reported" => index[x] # None \/ x \in evicted

\* "... never orphaned after a reported purge": of a purged subject nothing is
\* left that was ever reported, until something of it is stored again.  The words
\* know no exception, the code has one: a purge looks for files in the index
\* only, so a file whose entry a full index dropped stays until a clean-up.
PurgeIsComplete ==
  \A s \in purged :
    /\ \A r \in Live(evidence) : SubjectOf(r) # s
    /\ \A x \in Exports : SubjectOf(RefOf(x)) = s =>
         index[x] = None /\ (disk[x] = "reported" => x \in evicted)

\* docs/privacy-posture.md: exports are "anchored to the original evidence
\* retention window": none outlives its record, unless the put that shortened
\* the record stopped half-way.
ExportWithinRetention ==
  \A x \in Live(index) :
    (evidence[RefOf(x)] # None /\ RefOf(x) \notin torn) => index[x].expires <= evidence[RefOf(x)].expires

\* evidence-vault.test.mjs: a stricter retention is "anchored to original creation".
\* Storing a snapshot again, failing or not, never moves its expiry to a later
\* time, and nothing but a new export moves that of an export.
RetentionOnlyShortens ==
  [][ /\ \A r \in Refs : (evidence[r] # None /\ evidence'[r] # None) =>
           /\ evidence'[r].created = evidence[r].created
           /\ evidence'[r].expires <= evidence[r].expires
      /\ \A x \in Exports : (tx.kind # "export" /\ index[x] # None /\ index'[x] # None) =>
           index'[x].expires <= index[x].expires ]_vars

\* docs/privacy-posture.md: exports are "scheduled for idle expiry": the file of an
\* expired export does not stay.  It is removed without another call, restarts and
\* failures of the timer's own clean-up included, as long as the index can be read
\* and no planning failed.
ExpiredExportsGo ==
  \A x \in Exports :
    []<>(Expired(index[x]) => ~Readable \/ unplanned \/ disk[x] = "none")

\* docs/privacy-posture.md: "every store is rewritten under the active key" before
\* the previous one is removed: whichever store fails, none is locked out.
EveryStoreOpens == \A s \in Stores : Opens(s)

\* evidence-vault.test.mjs: a "late stricter retention ... removes its export":
\* tightening an export never makes the index one that no reader accepts.
TighteningKeepsIndexReadable ==
  [][(tx.pc = "tighten" /\ Readable) => Readable']_vars

===============================================================================
