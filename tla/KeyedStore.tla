------------------------------ MODULE KeyedStore ------------------------------
(* The contents of one encrypted store file and what each operation of         *)
(* createEncryptedFileKeyedStore makes of them (lib/file-keyed-store.mjs).      *)
(* A value is a revision number: what the callers store is theirs to model.    *)
EXTENDS Clock, FiniteSets, FiniteSetsExt

CONSTANTS
  Keys,         \* record keys
  MaxEntries,   \* maxEntries
  Ttl           \* defaultTtlMs in ticks, or Never when records do not expire

ASSUME StoreAssumption ==
  /\ Keys # {} /\ IsFiniteSet(Keys) /\ MaxEntries \in Nat \ {0}
  /\ Ttl \in (Nat \ {0}) \cup {Never}

Absent == [value |-> 0, createdAt |-> Never, expiresAt |-> Never]
Entry == [value : Nat, createdAt : Nat, expiresAt : Nat \cup {Never}]
Contents == [Keys -> Entry \cup {Absent}]
Empty == [k \in Keys |-> Absent]

Has(s, k) == s[k] # Absent
Stored(s) == {k \in Keys : Has(s, k)}

\* Fault: a record is stored without its time.
FreshUnstamped(value, at) ==
  [value |-> value, createdAt |-> Never, expiresAt |-> IF Ttl = Never THEN Never ELSE at + Ttl]

Fresh(value, at) ==
  [value |-> value, createdAt |-> at, expiresAt |-> IF Ttl = Never THEN Never ELSE at + Ttl]

\* prune, first half: a record from before retention gets a finite one.
Retained(e) ==
  IF e.expiresAt = Never /\ Ttl # Never THEN [e EXCEPT !.expiresAt = e.createdAt + Ttl] ELSE e

\* Fault: a record is dropped in the tick before its expiry.
PruneEarly(s, at) ==
  [k \in Keys |-> LET e == Retained(s[k]) IN
     IF Has(s, k) /\ (e.expiresAt = Never \/ e.expiresAt > at + 1) THEN e ELSE Absent]

\* prune
Prune(s, at) ==
  [k \in Keys |-> LET e == Retained(s[k]) IN
     IF Has(s, k) /\ (e.expiresAt = Never \/ e.expiresAt > at) THEN e ELSE Absent]

\* The oldest records make room for the one just registered under k.
Evicted(s, k) ==
  {[j \in Keys |-> IF j \in dropped THEN Absent ELSE s[j]] :
     dropped \in {d \in SUBSET (Stored(s) \ {k}) :
                    /\ Cardinality(Stored(s) \ d) = Min({Cardinality(Stored(s)), MaxEntries})
                    /\ \A i \in d, j \in Stored(s) \ d : s[i].createdAt <= s[j].createdAt}}

\* Each operation maps pruned contents to the possible [next, result] pairs.
Kinds == {"register", "registerIfAbsent", "update", "lookup", "consume", "delete", "clear",
          "reencrypt"}

Register(s, k, at) ==
  {[next |-> t, result |-> 0] : t \in Evicted([s EXCEPT ![k] = Fresh(0, at)], k)}

RegisterIfAbsent(s, k, at) ==
  IF Has(s, k) THEN {[next |-> s, result |-> 0]}
  ELSE {[next |-> t, result |-> 1] : t \in Evicted([s EXCEPT ![k] = Fresh(0, at)], k)}

\* update: the callback's next revision; no room is made for a new key.
Update(s, k, at) ==
  {[next |-> [s EXCEPT ![k] = Fresh(IF Has(s, k) THEN s[k].value + 1 ELSE 0, at)], result |-> 1]}

\* consume, delete, and an update whose callback returns undefined
Drop(s, k) ==
  {[next |-> [s EXCEPT ![k] = Absent], result |-> IF Has(s, k) THEN 1 ELSE 0]}

Lookup(s, k) == {[next |-> s, result |-> IF Has(s, k) THEN 1 ELSE 0]}

Outcomes(kind, s, k, at) ==
  CASE kind = "register" -> Register(s, k, at)
    [] kind = "registerIfAbsent" -> RegisterIfAbsent(s, k, at)
    [] kind = "update" -> Update(s, k, at)
    [] kind \in {"consume", "delete"} -> Drop(s, k)
    [] kind = "lookup" -> Lookup(s, k)
    [] kind = "clear" -> {[next |-> Empty, result |-> 0]}
    [] kind = "reencrypt" -> {[next |-> s, result |-> Cardinality(Stored(s))]}

===============================================================================
