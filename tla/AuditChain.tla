----------------------------- MODULE AuditChain -----------------------------
(***************************************************************************)
(* The hash-chained audit trail twice: AuditStore of audit-core, which     *)
(* keeps its events in memory and appends without an await, and            *)
(* PrismaAuditRepository, whose append is three statements of an           *)
(* interactive transaction.  The wallet's verdicts append while they hold  *)
(* the row of the entity they are about; nothing else serialises appends.  *)
(***************************************************************************)
EXTENDS Integers, Sequences

CONSTANTS
  Entities,    \* (entityType, entityId) pairs
  Claimed,     \* those whose appenders hold the entity's row until they end
  Payloads,    \* event type and payload, as far as a hash tells them apart
  Appenders,   \* transactions that append
  MaxSequence, \* bound: values of the sequence, and events in memory
  Null         \* no previous hash, no holder, no job

ASSUME AuditConstants ==
  /\ Claimed \subseteq Entities
  /\ MaxSequence \in Nat
  /\ Null \notin Appenders

VARIABLES
  stored,    \* AuditStore's events, in the order of their append
  rows,      \* committed AuditEvent rows
  nextval,   \* the sequence of the table; a rollback does not give back
  holder,    \* the transaction that holds each claimed entity's row
  draft      \* what each transaction has put together so far

auditVars == <<stored, rows, nextval, holder, draft>>

AuditInit ==
  /\ stored = <<>>
  /\ rows = {}
  /\ nextval = 1
  /\ holder = [e \in Claimed |-> Null]
  /\ draft = [h \in Appenders |-> Null]

-----------------------------------------------------------------------------

\* computeAuditHash: two events have one hash exactly if these fields agree;
\* canonicalize makes the order of a payload's keys immaterial.
AuditHash(event) ==
  <<event.sequence, event.entity, event.payload, event.previous>>

Sealed(event) == [event |-> event, hash |-> AuditHash(event)]

\* The hash of the last event of an entity, in a list of sealed events.
LastHash(events, e) ==
  LET own == {i \in DOMAIN events : events[i].event.entity = e}
  IN IF own = {} THEN Null
     ELSE events[CHOOSE i \in own : \A j \in own : j <= i].hash

\* AuditStore.append: async, but it runs to its end in one turn.
StoreAppend ==
  /\ Len(stored) < MaxSequence
  /\ \E e \in Entities, p \in Payloads :
       stored' = Append(stored, Sealed(
         [sequence |-> Len(stored) + 1, entity |-> e, payload |-> p,
          previous |-> LastHash(stored, e)]))
  /\ UNCHANGED <<rows, nextval, holder, draft>>

\* AuditStore.verify.
Verified(events) ==
  \A i \in DOMAIN events :
    LET event == events[i].event IN
    /\ event.sequence = i
    /\ event.previous = LastHash(SubSeq(events, 1, i - 1), event.entity)
    /\ events[i].hash = AuditHash(event)

-----------------------------------------------------------------------------

\* The caller's transaction begins: a verdict has updated the row it is
\* about, and waits if another verdict has not ended.
AppendBegin(h) ==
  /\ draft[h] = Null
  /\ \E e \in Entities, p \in Payloads :
       /\ e \in Claimed => holder[e] = Null
       /\ holder' = [x \in Claimed |-> IF x = e THEN h ELSE holder[x]]
       /\ draft' = [draft EXCEPT ![h] = [at |-> "nextval", entity |-> e, payload |-> p]]
  /\ UNCHANGED <<stored, rows, nextval>>

\* SELECT nextval: outside the transaction's isolation.
AppendNextval(h) ==
  /\ draft[h] # Null
  /\ draft[h].at = "nextval"
  /\ nextval <= MaxSequence
  /\ draft' = [draft EXCEPT ![h] =
       [at |-> "previous", entity |-> @.entity, payload |-> @.payload,
        sequence |-> nextval]]
  /\ nextval' = nextval + 1
  /\ UNCHANGED <<stored, rows, holder>>

RowsOf(e) == {r \in rows : r.event.entity = e}
Newest(rs) == CHOOSE r \in rs : \A q \in rs : q.event.sequence <= r.event.sequence

\* Mutant: the predecessor is the newest row of any entity.
AppendPreviousAny(h) ==
  /\ draft[h] # Null
  /\ draft[h].at = "previous"
  /\ draft' = [draft EXCEPT ![h] =
       [at |-> "create", entity |-> @.entity, payload |-> @.payload,
        sequence |-> @.sequence,
        previous |-> IF rows = {} THEN Null ELSE Newest(rows).hash]]
  /\ UNCHANGED <<stored, rows, nextval, holder>>

\* findFirst, newest first: the committed rows of the entity.
AppendPrevious(h) ==
  /\ draft[h] # Null
  /\ draft[h].at = "previous"
  /\ LET own == RowsOf(draft[h].entity) IN
     draft' = [draft EXCEPT ![h] =
       [at |-> "create", entity |-> @.entity, payload |-> @.payload,
        sequence |-> @.sequence,
        previous |-> IF own = {} THEN Null ELSE Newest(own).hash]]
  /\ UNCHANGED <<stored, rows, nextval, holder>>

AppendEnd(h) ==
  /\ draft' = [draft EXCEPT ![h] = Null]
  /\ holder' = [e \in Claimed |-> IF holder[e] = h THEN Null ELSE holder[e]]
  /\ UNCHANGED <<stored, nextval>>

\* auditEvent.create, and the caller's COMMIT.
AppendCreate(h) ==
  /\ draft[h] # Null
  /\ draft[h].at = "create"
  /\ rows' = rows \cup {Sealed(
       [sequence |-> draft[h].sequence, entity |-> draft[h].entity,
        payload |-> draft[h].payload, previous |-> draft[h].previous])}
  /\ AppendEnd(h)

\* The caller fails before its COMMIT, or its connection does.
AppendRollback(h) ==
  /\ draft[h] # Null
  /\ AppendEnd(h)
  /\ UNCHANGED rows

AuditNext ==
  \/ StoreAppend
  \/ \E h \in Appenders :
       AppendBegin(h) \/ AppendNextval(h) \/ AppendPrevious(h)
       \/ AppendCreate(h) \/ AppendRollback(h)

AuditSpec == AuditInit /\ [][AuditNext]_auditVars

-----------------------------------------------------------------------------

\* forEntity: the rows in the order of their sequence are one chain.
IsChain(rs) ==
  \A r \in rs :
    LET before == {q \in rs : q.event.sequence < r.event.sequence}
    IN r.event.previous = IF before = {} THEN Null ELSE Newest(before).hash

\* What an auditor who replays the trail may rely on.  In memory every event
\* follows the last one of its entity and verify accepts the whole.  In the
\* table no sequence number is used twice, though a rolled-back append leaves
\* a gap that verify would refuse; a previous hash is always that of a row of
\* the same entity; and where the appenders hold the entity's row its events
\* are a single chain in the order of their sequence.
AuditTrailHolds ==
  /\ Verified(stored)
  /\ \A r, q \in rows : r.event.sequence = q.event.sequence => r = q
  /\ \A r \in rows :
       r.event.previous # Null =>
         \E q \in RowsOf(r.event.entity) : q.hash = r.event.previous
  /\ \A e \in Claimed : IsChain(RowsOf(e))

=============================================================================
