----------------------------- MODULE StoreContract -----------------------------
(* What the callers of an encrypted store rely on: an operation is applied to  *)
(* what the store holds at that moment, at most once, and touches no record    *)
(* but its own, unless another has expired or is the oldest of a full store.   *)
(* Nothing is said of locks, files, failed writes or processes.                *)
EXTENDS KeyedStore

CONSTANTS Callers, NoRequest

VARIABLES
  entries,     \* the records
  requests     \* what each caller asked for and is not yet decided

contractVars == <<now, entries, requests>>

Request == [kind : Kinds, key : Keys]

ContractInit ==
  /\ ClockInit /\ entries \in Contents
  /\ requests = [c \in Callers |-> NoRequest]

Expired(j) == Has(entries, j) /\ Retained(entries[j]).expiresAt \in 0 .. now

\* The record is still there, perhaps with the retention it lacked.
Kept(j) ==
  entries'[j] = entries[j] \/ (Has(entries, j) /\ entries'[j] = Retained(entries[j]))

\* No record that stays is older than j, which made room for the one under k.
MadeRoom(j, k) ==
  /\ Cardinality(Stored(entries')) = MaxEntries
  /\ \A i \in Stored(entries') \ {k} : entries[j].createdAt <= entries[i].createdAt

Gone(j) == entries'[j] = Absent

Made(k, revision) == \E at \in 0 .. now : entries'[k] = Fresh(revision, at)

\* What becomes of the record asked for.
Own(kind, k) ==
  CASE kind = "register" -> Made(k, 0)
    [] kind = "registerIfAbsent" ->
         \/ (Has(entries, k) /\ Kept(k))
         \/ ((Expired(k) \/ ~Has(entries, k)) /\ Made(k, 0))
    [] kind = "update" ->
         \/ (Has(entries, k) /\ Made(k, entries[k].value + 1))
         \/ ((Expired(k) \/ ~Has(entries, k)) /\ Made(k, 0))
    [] kind \in {"consume", "delete"} -> Gone(k)
    [] kind \in {"lookup", "reencrypt"} -> Kept(k) \/ (Expired(k) /\ Gone(k))
    [] kind = "clear" -> entries' = Empty

\* What becomes of the others.
Others(kind, k) ==
  kind = "clear" \/ \A j \in Keys \ {k} :
    IF Has(entries, j)
    THEN \/ Kept(j)
         \/ Gone(j) /\ Expired(j)
         \/ Gone(j) /\ kind \in {"register", "registerIfAbsent"} /\ MadeRoom(j, k)
    ELSE Gone(j)

Decided(c) == requests' = [requests EXCEPT ![c] = NoRequest]

Ask(c) ==
  /\ requests[c] = NoRequest
  /\ \E request \in Request : requests' = [requests EXCEPT ![c] = request]
  /\ UNCHANGED <<now, entries>>

Apply(c) ==
  /\ requests[c] # NoRequest
  /\ Own(requests[c].kind, requests[c].key)
  /\ Others(requests[c].kind, requests[c].key)
  /\ Decided(c)
  /\ UNCHANGED now

\* The caller is answered from what is there, or with an error.
Leave(c) ==
  /\ requests[c] # NoRequest
  /\ Decided(c)
  /\ UNCHANGED <<now, entries>>

Pass == ClockTicks /\ UNCHANGED <<entries, requests>>

ContractNext == Pass \/ \E c \in Callers : Ask(c) \/ Apply(c) \/ Leave(c)

ContractSpec == ContractInit /\ [][ContractNext]_contractVars

===============================================================================
