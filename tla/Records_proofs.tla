--------------------------- MODULE Records_proofs ---------------------------
(***************************************************************************)
(* Two parts that keep records, each for any number of those who write:    *)
(* the audit trail can be replayed (AuditInv is inductive and implies      *)
(* AuditTrailHolds), and registration, the seed and the log-in routes keep *)
(* what they owe each other (OnboardInv, OnboardingHolds).                 *)
(***************************************************************************)
EXTENDS AuditChain, Onboarding, FiniteSetTheorems, SequenceTheorems, WellFoundedInduction,
        TLAPS

-----------------------------------------------------------------------------
(***************************************************************************)
(* The audit trail's inductive invariant.                                  *)
(***************************************************************************)

Busy(h)     == draft[h] # Null
Numbered(h) == Busy(h) /\ draft[h].at # "nextval"
Ready(h)    == Busy(h) /\ draft[h].at = "create"

AuditTypeOK ==
  /\ stored \in Seq({stored[i] : i \in DOMAIN stored})
  /\ nextval \in Nat
  /\ holder = [e \in Claimed |-> holder[e]]
  /\ draft = [h \in Appenders |-> draft[h]]
  /\ \A h \in Appenders : Busy(h) => draft[h].entity \in Entities

\* A number once drawn is below the sequence, and nobody else's.
NumbersAreDistinct ==
  /\ \A r \in rows : r.event.sequence \in Nat /\ r.event.sequence < nextval
  /\ \A r, q \in rows : r.event.sequence = q.event.sequence => r = q
  /\ \A h \in Appenders : Numbered(h) =>
       /\ draft[h].sequence \in Nat /\ draft[h].sequence < nextval
       /\ \A r \in rows : r.event.sequence # draft[h].sequence
       /\ \A k \in Appenders :
            Numbered(k) /\ draft[k].sequence = draft[h].sequence => k = h

\* Whoever appends to a claimed entity holds it, so that no row of it is
\* committed between his number and his COMMIT.
ClaimsAreHeld ==
  \A h \in Appenders : Busy(h) /\ draft[h].entity \in Claimed =>
    /\ holder[draft[h].entity] = h
    /\ Numbered(h) => \A r \in rows :
         r.event.entity = draft[h].entity => r.event.sequence < draft[h].sequence

\* The predecessor that a hash names, of a set of rows.
HashBefore(before) == IF before = {} THEN Null ELSE Newest(before).hash

\* A previous hash, drafted or committed, is that of a committed row of its
\* entity; of a claimed entity it is that of its newest.
PredecessorsAreRows ==
  /\ \A r \in rows : r.event.previous # Null =>
       \E q \in RowsOf(r.event.entity) : q.hash = r.event.previous
  /\ \A h \in Appenders : Ready(h) =>
       /\ draft[h].previous # Null =>
            \E q \in RowsOf(draft[h].entity) : q.hash = draft[h].previous
       /\ draft[h].entity \in Claimed =>
            draft[h].previous = HashBefore(RowsOf(draft[h].entity))

AuditInv ==
  /\ AuditTypeOK
  /\ Verified(stored)
  /\ NumbersAreDistinct
  /\ ClaimsAreHeld
  /\ PredecessorsAreRows
  /\ \A e \in Claimed : IsChain(RowsOf(e))

-----------------------------------------------------------------------------
(***************************************************************************)
(* Lemmas about the operators.                                             *)
(***************************************************************************)

\* Newest finds a row: numbers below a bound have a greatest.
LEMMA NewestIsARow ==
  ASSUME NEW rs, rs # {}, NEW bound \in Nat,
         \A r \in rs : r.event.sequence \in Nat /\ r.event.sequence < bound
  PROVE  Newest(rs) \in rs
<1> DEFINE Gap(r) == bound - r.event.sequence
           Gaps   == {Gap(r) : r \in rs}
           Less   == OpToRel(<, Nat)
<1>1. Gaps \subseteq Nat /\ Gaps # {}
  OBVIOUS
<1>2. IsWellFoundedOn(Less, Nat)
  BY NatLessThanWellFounded, Zenon
<1>3. \A x, y \in Nat : x < y => <<x, y>> \in Less
  BY DEF OpToRel
<1>4. PICK g \in Gaps : \A x \in Gaps : ~(x < g)
  <2> HIDE DEF Gaps, Less
  <2>1. \E g \in Gaps : \A x \in Gaps : ~(<<x, g>> \in Less)
    BY <1>1, <1>2, WFMin
  <2> QED BY <1>1, <1>3, <2>1
<1>5. PICK r \in rs : g = Gap(r)
  OBVIOUS
<1>6. \A q \in rs : q.event.sequence <= r.event.sequence
  <2> TAKE q \in rs
  <2>1. ~(Gap(q) < Gap(r))
    BY <1>4, <1>5
  <2> QED BY <2>1
<1>7. \E n \in rs : \A q \in rs : q.event.sequence <= n.event.sequence
  BY <1>6
<1> QED BY <1>7 DEF Newest

\* What is in memory before an append is in memory after it, in its place.
LEMMA AppendKeepsPrefixes ==
  ASSUME NEW S, NEW events \in Seq(S), NEW x, NEW i \in 1..Len(events)
  PROVE  /\ Append(events, x)[i] = events[i]
         /\ SubSeq(Append(events, x), 1, i - 1) = SubSeq(events, 1, i - 1)
<1> DEFINE T == S \cup {x}
<1>1. events \in Seq(T) /\ x \in T
  BY SeqMonotonic
<1>2. /\ Append(events, x) \in Seq(T)
      /\ Len(Append(events, x)) = Len(events) + 1
      /\ \A j \in 1..Len(events) : Append(events, x)[j] = events[j]
  BY <1>1, AppendProperties
<1> QED BY <1>1, <1>2

-----------------------------------------------------------------------------
(***************************************************************************)
(* The trail in memory.                                                    *)
(***************************************************************************)

\* append leaves what verify found right as it was, and adds an event that
\* verify finds right.
LEMMA StoreAppendKeeps ==
  ASSUME AuditInv, StoreAppend
  PROVE  stored' \in Seq({stored'[i] : i \in DOMAIN stored'}) /\ Verified(stored)'
<1> DEFINE S == {stored[i] : i \in DOMAIN stored}
           New(e, p) == [sequence |-> Len(stored) + 1, entity |-> e, payload |-> p,
                         previous |-> LastHash(stored, e)]
<1>1. PICK e \in Entities, p \in Payloads : stored' = Append(stored, Sealed(New(e, p)))
  BY DEF StoreAppend
<1> DEFINE x == Sealed(New(e, p))
<1>2. stored \in Seq(S) /\ Verified(stored)
  BY DEF AuditInv, AuditTypeOK
<1>3. stored \in Seq(S \cup {x})
  <2> HIDE DEF S, x
  <2> QED BY <1>2, SeqMonotonic
<1>4. /\ stored' \in Seq(S \cup {x}) /\ Len(stored') = Len(stored) + 1
      /\ stored'[Len(stored) + 1] = x
  <2> HIDE DEF S
  <2>1. stored' = Append(stored, x) /\ x \in S \cup {x}
    BY <1>1
  <2> HIDE DEF x
  <2> QED BY <1>3, <2>1, AppendProperties
<1>5. \A i \in 1..Len(stored) :
        stored'[i] = stored[i] /\ SubSeq(stored', 1, i - 1) = SubSeq(stored, 1, i - 1)
  <2> HIDE DEF S
  <2>1. stored' = Append(stored, x)
    BY <1>1
  <2> HIDE DEF x
  <2> QED BY <1>2, <2>1, AppendKeepsPrefixes
<1>6. SubSeq(stored', 1, Len(stored)) = stored
  <2> HIDE DEF S, x
  <2> QED BY <1>3, <1>4, <1>5, LenProperties
<1>7. stored' \in Seq({stored'[i] : i \in DOMAIN stored'})
  <2> HIDE DEF S, x
  <2> QED BY <1>4, LenProperties
<1>8. Len(stored) \in Nat /\ DOMAIN stored = 1..Len(stored)
      /\ DOMAIN stored' = 1..(Len(stored) + 1)
  <2> HIDE DEF S, x
  <2> QED BY <1>3, <1>4, LenProperties
<1>9. ASSUME NEW i \in DOMAIN stored'
      PROVE  /\ stored'[i].event.sequence = i
             /\ stored'[i].event.previous =
                  LastHash(SubSeq(stored', 1, i - 1), stored'[i].event.entity)
             /\ stored'[i].hash = AuditHash(stored'[i].event)
  <2>1. CASE i \in 1..Len(stored)
    BY <1>2, <1>5, <1>8, <2>1 DEF Verified
  <2>2. CASE i = Len(stored) + 1
    <3>1. stored'[i] = x /\ SubSeq(stored', 1, i - 1) = stored
      BY <1>4, <1>6, <1>8, <2>2
    <3>2. x.event = New(e, p) /\ x.hash = AuditHash(x.event)
      BY DEF Sealed
    <3>3. /\ New(e, p).sequence = Len(stored) + 1 /\ New(e, p).entity = e
          /\ New(e, p).previous = LastHash(stored, e)
      OBVIOUS
    <3> HIDE DEF x, New
    <3> QED BY <2>2, <3>1, <3>2, <3>3
  <2> QED BY <1>8, <2>1, <2>2
<1> QED BY <1>7, <1>9 DEF Verified

-----------------------------------------------------------------------------
(***************************************************************************)
(* The trail in the table.                                                 *)
(***************************************************************************)

\* A step that commits no row and readies no draft disturbs no predecessor.
LEMMA PredecessorsStay ==
  ASSUME PredecessorsAreRows, rows' = rows,
         \A k \in Appenders : Ready(k)' => Ready(k) /\ draft'[k] = draft[k]
  PROVE  PredecessorsAreRows'
<1>1. \A e : RowsOf(e)' = RowsOf(e)
  BY DEF RowsOf
<1>2. \A k \in Appenders : Ready(k)' =>
        /\ draft'[k].previous # Null =>
             \E q \in RowsOf(draft'[k].entity) : q.hash = draft'[k].previous
        /\ draft'[k].entity \in Claimed =>
             draft'[k].previous = HashBefore(RowsOf(draft'[k].entity))
  BY DEF PredecessorsAreRows
<1> QED BY <1>1, <1>2 DEF PredecessorsAreRows, HashBefore

\* A transaction that begins has no number yet, and takes a free entity.
LEMMA BeginKeeps ==
  ASSUME AuditInv, NEW h \in Appenders, AppendBegin(h)
  PROVE  AuditInv'
<1>1. PICK e \in Entities, p \in Payloads :
        /\ e \in Claimed => holder[e] = Null
        /\ holder' = [x \in Claimed |-> IF x = e THEN h ELSE holder[x]]
        /\ draft' = [draft EXCEPT ![h] = [at |-> "nextval", entity |-> e, payload |-> p]]
  BY DEF AppendBegin
<1>2. draft[h] = Null /\ UNCHANGED <<stored, rows, nextval>>
  BY DEF AppendBegin
<1>3. draft'[h].at = "nextval" /\ draft'[h].entity = e
      /\ \A k \in Appenders \ {h} : draft'[k] = draft[k]
  BY <1>1 DEF AuditInv, AuditTypeOK
<1>4. AuditTypeOK'
  BY <1>1, <1>2, <1>3 DEF AuditInv, AuditTypeOK, Busy
<1>5. ~Numbered(h)' /\ \A k \in Appenders : Numbered(k)' => k # h /\ Numbered(k)
  BY <1>3 DEF Numbered, Busy
<1>6. NumbersAreDistinct'
  BY <1>2, <1>3, <1>5 DEF AuditInv, NumbersAreDistinct
<1>7. ASSUME NEW k \in Appenders, Busy(k)', draft'[k].entity \in Claimed
      PROVE  /\ holder'[draft'[k].entity] = k
             /\ Numbered(k)' => \A r \in rows' :
                  r.event.entity = draft'[k].entity => r.event.sequence < draft'[k].sequence
  <2>1. CASE k = h
    BY <1>1, <1>3, <1>5, <1>7, <2>1
  <2>2. CASE k # h
    <3>1. Busy(k) /\ draft'[k] = draft[k] /\ holder[draft[k].entity] = k
      BY <1>3, <1>7, <2>2 DEF Busy, AuditInv, ClaimsAreHeld
    <3>2. draft[k].entity # e
      BY <1>1, <1>7, <3>1, AuditConstants
    <3> QED BY <1>1, <1>2, <1>5, <1>7, <3>1, <3>2 DEF AuditInv, ClaimsAreHeld, RowsOf
  <2> QED BY <2>1, <2>2
<1>8. ClaimsAreHeld'
  BY <1>7 DEF ClaimsAreHeld
<1>9. PredecessorsAreRows'
  <2>1. \A k \in Appenders : Ready(k)' => Ready(k) /\ draft'[k] = draft[k]
    BY <1>3 DEF Ready, Busy
  <2> QED BY <1>2, <2>1, PredecessorsStay DEF AuditInv
<1> QED BY <1>2, <1>4, <1>6, <1>8, <1>9 DEF AuditInv, IsChain, RowsOf, Verified

\* A number drawn is greater than all before it.
LEMMA NextvalKeeps ==
  ASSUME AuditInv, NEW h \in Appenders, AppendNextval(h)
  PROVE  AuditInv'
<1>1. /\ Busy(h) /\ nextval' = nextval + 1 /\ UNCHANGED <<stored, rows, holder>>
      /\ draft'[h].at = "previous" /\ draft'[h].entity = draft[h].entity
      /\ draft'[h].sequence = nextval
      /\ \A k \in Appenders \ {h} : draft'[k] = draft[k]
  BY DEF AppendNextval, AuditInv, AuditTypeOK, Busy
<1>2. draft' = [k \in Appenders |-> draft'[k]] /\ nextval \in Nat
  BY DEF AppendNextval, AuditInv, AuditTypeOK
<1>3. AuditTypeOK'
  BY <1>1, <1>2 DEF AuditInv, AuditTypeOK, Busy
<1>4. NumbersAreDistinct'
  BY <1>1, <1>2 DEF AuditInv, NumbersAreDistinct, Numbered, Busy
<1>5. ClaimsAreHeld'
  BY <1>1, <1>2 DEF AuditInv, NumbersAreDistinct, ClaimsAreHeld, RowsOf, Numbered, Busy
<1>6. PredecessorsAreRows'
  <2>1. \A k \in Appenders : Ready(k)' => Ready(k) /\ draft'[k] = draft[k]
    BY <1>1 DEF Ready, Busy
  <2> QED BY <1>1, <2>1, PredecessorsStay DEF AuditInv
<1> QED BY <1>1, <1>3, <1>4, <1>5, <1>6 DEF AuditInv, IsChain, RowsOf, Verified

\* The predecessor read is a row of the entity, and its newest.
LEMMA PreviousKeeps ==
  ASSUME AuditInv, NEW h \in Appenders, AppendPrevious(h)
  PROVE  AuditInv'
<1> DEFINE own == RowsOf(draft[h].entity)
<1>1. /\ Numbered(h) /\ UNCHANGED <<stored, rows, nextval, holder>>
      /\ draft'[h].at = "create" /\ draft'[h].entity = draft[h].entity
      /\ draft'[h].sequence = draft[h].sequence
      /\ draft'[h].previous = HashBefore(own)
      /\ \A k \in Appenders \ {h} : draft'[k] = draft[k]
      /\ draft' = [k \in Appenders |-> draft'[k]]
  BY DEF AppendPrevious, AuditInv, AuditTypeOK, Numbered, Busy, HashBefore
<1>2. AuditTypeOK'
  BY <1>1 DEF AuditInv, AuditTypeOK, Numbered, Busy
<1>3. \A k \in Appenders :
        Numbered(k)' => Numbered(k) /\ draft'[k].sequence = draft[k].sequence
  BY <1>1 DEF Numbered, Busy
<1>4. NumbersAreDistinct'
  BY <1>1, <1>3 DEF AuditInv, NumbersAreDistinct
<1>5. ClaimsAreHeld'
  <2>1. \A k \in Appenders :
          Busy(k)' => Busy(k) /\ draft'[k].entity = draft[k].entity
    BY <1>1 DEF Numbered, Busy
  <2> QED BY <1>1, <1>3, <2>1 DEF AuditInv, ClaimsAreHeld, RowsOf
<1>6. own # {} => \E q \in own : q.hash = Newest(own).hash
  BY NewestIsARow DEF AuditInv, AuditTypeOK, NumbersAreDistinct, RowsOf
<1>7. PredecessorsAreRows'
  <2>1. \A k \in Appenders : Ready(k)' => k = h \/ (Ready(k) /\ draft'[k] = draft[k])
    BY <1>1 DEF Ready, Busy
  <2>2. draft'[h].previous # Null => \E q \in own : q.hash = draft'[h].previous
    BY <1>1, <1>6 DEF HashBefore
  <2>3. \A e : RowsOf(e)' = RowsOf(e)
    BY <1>1 DEF RowsOf
  <2>4. \A k \in Appenders : Ready(k)' =>
          /\ draft'[k].previous # Null =>
               \E q \in RowsOf(draft'[k].entity) : q.hash = draft'[k].previous
          /\ draft'[k].entity \in Claimed =>
               draft'[k].previous = HashBefore(RowsOf(draft'[k].entity))
    BY <1>1, <2>1, <2>2 DEF AuditInv, PredecessorsAreRows
  <2> QED BY <1>1, <2>3, <2>4 DEF AuditInv, PredecessorsAreRows, HashBefore
<1> QED BY <1>1, <1>2, <1>4, <1>5, <1>7 DEF AuditInv, IsChain, RowsOf, Verified

\* The transaction that ends lets go of its own entity; the others keep theirs.
LEMMA EndFrees ==
  ASSUME AuditInv, NEW h \in Appenders, AppendEnd(h)
  PROVE  /\ UNCHANGED <<stored, nextval>>
         /\ AuditTypeOK'
         /\ \A k \in Appenders : Busy(k)' => k # h /\ Busy(k) /\ draft'[k] = draft[k]
         /\ \A k \in Appenders : Numbered(k)' => Numbered(k)
         /\ \A k \in Appenders : Ready(k)' => Ready(k)
         /\ \A k \in Appenders : Busy(k)' /\ draft'[k].entity \in Claimed =>
              holder'[draft'[k].entity] = k
<1>1. /\ UNCHANGED <<stored, nextval>>
      /\ draft' = [draft EXCEPT ![h] = Null]
      /\ holder' = [e \in Claimed |-> IF holder[e] = h THEN Null ELSE holder[e]]
  BY DEF AppendEnd
<1>2. draft'[h] = Null /\ \A k \in Appenders \ {h} : draft'[k] = draft[k]
  BY <1>1 DEF AuditInv, AuditTypeOK
<1>3. \A k \in Appenders : Busy(k)' => k # h /\ Busy(k) /\ draft'[k] = draft[k]
  BY <1>2 DEF Busy
<1>4. AuditTypeOK'
  BY <1>1, <1>3 DEF AuditInv, AuditTypeOK, Busy
<1>5. \A k \in Appenders :
        (Numbered(k)' => Numbered(k)) /\ (Ready(k)' => Ready(k))
  BY <1>3 DEF Numbered, Ready
<1>6. ASSUME NEW k \in Appenders, Busy(k)', draft'[k].entity \in Claimed
      PROVE  holder'[draft'[k].entity] = k
  <2>1. k # h /\ draft'[k] = draft[k] /\ holder[draft[k].entity] = k
    BY <1>3, <1>6 DEF AuditInv, ClaimsAreHeld
  <2> QED BY <1>1, <1>6, <2>1
<1> QED BY <1>1, <1>3, <1>4, <1>5, <1>6

\* A rollback leaves a gap and nothing else.
LEMMA RollbackKeeps ==
  ASSUME AuditInv, NEW h \in Appenders, AppendRollback(h)
  PROVE  AuditInv'
<1>1. AppendEnd(h) /\ rows' = rows
  BY DEF AppendRollback
<1>2. NumbersAreDistinct'
  BY <1>1, EndFrees DEF AuditInv, NumbersAreDistinct, Numbered
<1>3. ClaimsAreHeld'
  BY <1>1, EndFrees DEF AuditInv, ClaimsAreHeld, Numbered
<1>4. PredecessorsAreRows'
  <2>1. \A k \in Appenders : Ready(k)' => Ready(k) /\ draft'[k] = draft[k]
    BY <1>1, EndFrees DEF Ready
  <2> QED BY <1>1, <2>1, PredecessorsStay DEF AuditInv
<1> QED BY <1>1, <1>2, <1>3, <1>4, EndFrees DEF AuditInv, IsChain, RowsOf, Verified

\* A row greater than all of a chain prolongs it by one.
LEMMA ChainGrows ==
  ASSUME NEW rs, NEW n, n \notin rs, IsChain(rs),
         \A r \in rs : r.event.sequence \in Nat /\ r.event.sequence < n.event.sequence,
         n.event.sequence \in Nat,
         n.event.previous = HashBefore(rs)
  PROVE  IsChain(rs \cup {n})
<1> DEFINE Before(r, s) == {q \in s : q.event.sequence < r.event.sequence}
<1>1. \A r \in rs : Before(r, rs \cup {n}) = Before(r, rs)
  OBVIOUS
<1>2. Before(n, rs \cup {n}) = rs
  OBVIOUS
<1>3. \A r \in rs : r.event.previous = HashBefore(Before(r, rs))
  BY DEF IsChain, HashBefore
<1>4. \A r \in rs \cup {n} : r.event.previous = HashBefore(Before(r, rs \cup {n}))
  <2> HIDE DEF Before
  <2> QED BY <1>1, <1>2, <1>3
<1> QED BY <1>4 DEF IsChain, HashBefore

\* The new row has a number of its own, names a row of its entity, and is the
\* newest of its entity if that is a claimed one.
LEMMA CreateKeeps ==
  ASSUME AuditInv, NEW h \in Appenders, AppendCreate(h)
  PROVE  AuditInv'
<1> DEFINE job == draft[h]
           new == Sealed([sequence |-> job.sequence, entity |-> job.entity,
                          payload |-> job.payload, previous |-> job.previous])
<1>1. Ready(h) /\ Numbered(h) /\ rows' = rows \cup {new} /\ AppendEnd(h)
  BY DEF AppendCreate, Ready, Numbered, Busy
<1>2. /\ new.event.sequence = job.sequence /\ new.event.entity = job.entity
      /\ new.event.previous = job.previous
  BY DEF Sealed
<1>3. /\ job.sequence \in Nat /\ job.sequence < nextval
      /\ \A r \in rows : r.event.sequence # job.sequence
      /\ \A k \in Appenders : Numbered(k) /\ draft[k].sequence = job.sequence => k = h
  BY <1>1 DEF AuditInv, NumbersAreDistinct
<1> HIDE DEF new, job
<1>4. NumbersAreDistinct'
  BY <1>1, <1>2, <1>3, EndFrees DEF AuditInv, NumbersAreDistinct, Numbered
<1>5. ASSUME NEW k \in Appenders, Busy(k)', draft'[k].entity \in Claimed
      PROVE  draft'[k].entity # job.entity
  <2>1. Busy(h) /\ k # h /\ Busy(k) /\ draft'[k] = draft[k]
    BY <1>1, <1>5, EndFrees DEF Ready
  <2> QED BY <1>5, <2>1 DEF AuditInv, ClaimsAreHeld, job
<1>6. ClaimsAreHeld'
  BY <1>1, <1>2, <1>5, EndFrees DEF AuditInv, ClaimsAreHeld, Numbered
<1>7. \A e : RowsOf(e)' = IF e = job.entity THEN RowsOf(e) \cup {new} ELSE RowsOf(e)
  BY <1>1, <1>2 DEF RowsOf
<1>8. PredecessorsAreRows'
  <2>1. \A e : \A q \in RowsOf(e) : q \in RowsOf(e)'
    BY <1>7
  <2>2. \A r \in rows' : r.event.previous # Null =>
          \E q \in RowsOf(r.event.entity)' : q.hash = r.event.previous
    <3>1. new.event.previous # Null =>
            \E q \in RowsOf(new.event.entity) : q.hash = new.event.previous
      BY <1>1, <1>2 DEF AuditInv, PredecessorsAreRows, job
    <3> QED BY <1>1, <2>1, <3>1 DEF AuditInv, PredecessorsAreRows
  <2>3. ASSUME NEW k \in Appenders, Ready(k)'
        PROVE  /\ Ready(k) /\ draft'[k] = draft[k]
               /\ draft[k].entity \in Claimed => draft[k].entity # job.entity
    BY <1>1, <1>5, <2>3, EndFrees DEF Ready
  <2>4. ASSUME NEW k \in Appenders, Ready(k)'
        PROVE  /\ draft'[k].previous # Null =>
                    \E q \in RowsOf(draft[k].entity)' : q.hash = draft'[k].previous
               /\ draft'[k].entity \in Claimed =>
                    draft'[k].previous = HashBefore(RowsOf(draft'[k].entity))
                    /\ draft'[k].entity # job.entity
    BY <2>1, <2>3, <2>4 DEF AuditInv, PredecessorsAreRows
  <2> QED BY <1>7, <2>2, <2>3, <2>4 DEF PredecessorsAreRows, HashBefore
<1>9. ASSUME NEW e \in Claimed
      PROVE  IsChain(RowsOf(e)')
  <2>1. CASE e # job.entity
    BY <1>7, <2>1 DEF AuditInv
  <2>2. CASE e = job.entity
    <3>1. job.previous = HashBefore(RowsOf(e))
      BY <1>1, <2>2 DEF AuditInv, PredecessorsAreRows, job
    <3>2. \A r \in RowsOf(e) : r.event.sequence \in Nat /\ r.event.sequence < job.sequence
      BY <1>1, <2>2 DEF AuditInv, ClaimsAreHeld, NumbersAreDistinct, RowsOf, Numbered, job
    <3>3. new \notin RowsOf(e) /\ IsChain(RowsOf(e))
      BY <1>2, <1>3, <3>2 DEF AuditInv
    <3>4. IsChain(RowsOf(e) \cup {new})
      BY <1>2, <1>3, <3>1, <3>2, <3>3, ChainGrows
    <3> QED BY <1>7, <2>2, <3>4
  <2> QED BY <2>1, <2>2
<1>10. \A e \in Claimed : IsChain(RowsOf(e))'
  BY <1>9 DEF IsChain
<1>11. stored' = stored /\ AuditTypeOK'
  BY <1>1, EndFrees
<1> QED BY <1>4, <1>6, <1>8, <1>10, <1>11 DEF AuditInv, Verified

-----------------------------------------------------------------------------
(***************************************************************************)
(* The theorems.                                                           *)
(***************************************************************************)

\* Nothing is in the trail to begin with.
LEMMA AuditInitHolds == ASSUME AuditInit PROVE AuditInv
BY EmptySeq DEF AuditInit, AuditInv, AuditTypeOK, Verified, NumbersAreDistinct,
   ClaimsAreHeld, PredecessorsAreRows, IsChain, RowsOf, Busy, Numbered, Ready

\* Every step, of any number of appenders to any entities, keeps AuditInv.
LEMMA AuditStepHolds == ASSUME AuditInv, [AuditNext]_auditVars PROVE AuditInv'
<1>1. CASE StoreAppend
  <2>1. UNCHANGED <<rows, nextval, holder, draft>>
    BY <1>1 DEF StoreAppend
  <2>2. AuditTypeOK' /\ Verified(stored)'
    BY <1>1, <2>1, StoreAppendKeeps DEF AuditInv, AuditTypeOK, Busy
  <2>3. PredecessorsAreRows'
    BY <2>1, PredecessorsStay DEF AuditInv, Ready, Busy
  <2> QED BY ZenonT(30), <2>1, <2>2, <2>3 DEF AuditInv, NumbersAreDistinct, ClaimsAreHeld,
        IsChain, RowsOf, Numbered, Busy
<1>2. CASE \E h \in Appenders :
             AppendBegin(h) \/ AppendNextval(h) \/ AppendPrevious(h)
             \/ AppendCreate(h) \/ AppendRollback(h)
  BY <1>2, BeginKeeps, NextvalKeeps, PreviousKeeps, CreateKeeps, RollbackKeeps
<1>3. CASE UNCHANGED auditVars
  <2>1. UNCHANGED <<stored, rows, nextval, holder, draft>>
    BY <1>3 DEF auditVars
  <2>2. PredecessorsAreRows'
    BY <2>1, PredecessorsStay DEF AuditInv, Ready, Busy
  <2>3. AuditTypeOK' /\ Verified(stored)'
    BY <2>1 DEF AuditInv, AuditTypeOK, Verified, Busy
  <2>4. NumbersAreDistinct' /\ ClaimsAreHeld'
    BY <2>1 DEF AuditInv, NumbersAreDistinct, ClaimsAreHeld, Numbered, Busy
  <2>5. \A e \in Claimed : IsChain(RowsOf(e))'
    BY <2>1 DEF AuditInv, IsChain, RowsOf
  <2> QED BY <2>2, <2>3, <2>4, <2>5 DEF AuditInv
<1> QED BY <1>1, <1>2, <1>3 DEF AuditNext

\* The inductive invariant: numbers are drawn once, a claimed entity has one
\* appender at a time, and what it read as its predecessor is still the newest
\* row when it commits (appendInTransaction, lines 26 to 56).
THEOREM AuditInvariant == AuditSpec => []AuditInv
<1>1. AuditInit => AuditInv
  BY AuditInitHolds
<1>2. AuditInv /\ [AuditNext]_auditVars => AuditInv'
  BY AuditStepHolds
<1> QED BY <1>1, <1>2, PTL DEF AuditSpec

\* The invariant says what the property does, and more.
LEMMA AuditInvSuffices == AuditInv => AuditTrailHolds
  BY DEF AuditInv, AuditTrailHolds, NumbersAreDistinct, PredecessorsAreRows

\* The trail can be replayed: verify accepts the events in memory, and an
\* entity whose appenders hold its row has one chain of hashes in the table.
THEOREM TrailCanBeReplayed == AuditSpec => []AuditTrailHolds
  BY AuditInvSuffices, AuditInvariant, PTL

-----------------------------------------------------------------------------
(***************************************************************************)
(* Onboarding's inductive invariant.                                       *)
(***************************************************************************)

Calls ==
  [at: {"idle", "create", "done"}, email: Emails \cup {NoUser},
   password: Passwords \cup {NoUser},
   answer: {"none", "weak", "failed", "created", "lost", "error", "refused"}]

UserRows == [password: Passwords, role: Roles]

SessionRows == [email: Emails, end: {"none", "logout", "other"}]

OnboardTypeOK ==
  /\ users \in [Emails -> UserRows \cup {NoUser}]
  /\ kyc \in Seq([email: Emails, status: STRING])
  /\ log \in Nat
  /\ registrar \in [Registrars -> Calls]
  /\ seeder \in [Seeders -> [at: Nat, absent: BOOLEAN]]
  /\ logins \in Seq(SessionRows)
  /\ jar \in [Browsers -> [access: Emails \cup {NoUser}, refresh: Nat, leaving: Nat]]

\* What a registration at the API is about is an address and a password.
RegistrarsCarry ==
  \A h \in Registrars :
    /\ registrar[h].at # "idle" /\ registrar[h].answer # "refused" =>
         registrar[h].email \in Emails /\ registrar[h].password \in Passwords
    /\ registrar[h].at = "create" => registrar[h].answer = "none"

\* A seed run has done what its earlier statements do.
SeedersAreOnTheirWay ==
  /\ \A s \in Seeders :
       /\ seeder[s].at <= AtAudit
       /\ \A i \in DOMAIN SeedUsers : i < seeder[s].at => Exists(SeedUsers[i].email)
       /\ \A j \in DOMAIN SeedAccounts : AtKyc + j < seeder[s].at => SeedAccounts[j] \in chart
  /\ chart \subseteq {SeedAccounts[j] : j \in DOMAIN SeedAccounts}

\* The runs that have inserted their KYC rows and are not in the log yet.
PastKyc == {s \in Seeders : seeder[s].at > AtKyc}

\* Every run in the log, and every one past its KYC rows, has left a set.
KycIsCounted == Len(kyc) >= (log + Cardinality(PastKyc)) * Len(SeedKyc)

\* A browser's session is its user's, and none that a log-out has revoked but
\* its own, under way; no two browsers hold one.
Backs(b) ==
  /\ jar[b].refresh \in 0..Len(logins)
  /\ jar[b].access # NoUser =>
       jar[b].refresh # 0 /\ logins[jar[b].refresh].email = jar[b].access
  /\ jar[b].refresh # 0 /\ logins[jar[b].refresh].end = "logout" =>
       jar[b].leaving = jar[b].refresh

CookiesAreBacked ==
  /\ \A b \in Browsers : Backs(b)
  /\ \A b, c \in Browsers : jar[b].refresh = jar[c].refresh /\ jar[b].refresh # 0 => b = c

OnboardInv ==
  /\ OnboardTypeOK
  /\ RegistrarsCarry
  /\ SeedersAreOnTheirWay
  /\ KycIsCounted
  /\ CookiesAreBacked
  /\ RegistrationsStand
  /\ UsersHaveOneOrigin
  /\ LogSpeaksOfFinishedWork

-----------------------------------------------------------------------------
(***************************************************************************)
(* Lemmas: the seed's data, and what growth leaves alone.                  *)
(***************************************************************************)

\* A row is a user: it is not the mark of an absent one.
LEMMA UserIsARow ==
  ASSUME NEW p \in Passwords, NEW r \in Roles
  PROVE  /\ User(p, r) \in UserRows /\ User(p, r) # NoUser
         /\ User(p, r).password = p /\ User(p, r).role = r
BY OnboardingConstants DEF User, UserRows

\* The seed's statements, in their order, and what they are about.
LEMMA SeedData ==
  /\ DOMAIN SeedUsers = 1..Len(SeedUsers) /\ Len(SeedUsers) \in Nat
  /\ \A i \in DOMAIN SeedUsers : SeedUsers[i].email \in Emails /\ SeedUsers[i].role \in Roles
  /\ DOMAIN SeedAccounts = 1..Len(SeedAccounts) /\ Len(SeedAccounts) \in Nat
  /\ SeedKyc \in Seq([email: Emails, status: STRING]) /\ Len(SeedKyc) \in Nat
  /\ AtKyc = Len(SeedUsers) + 1 /\ AtAudit = Len(SeedUsers) + 1 + Len(SeedAccounts) + 1
<1>1. \A i \in DOMAIN SeedUsers : SeedUsers[i] \in [email: Emails, role: STRING]
  BY OnboardingConstants, LenProperties, ElementOfSeq
<1>2. /\ DOMAIN SeedUsers = 1..Len(SeedUsers) /\ Len(SeedUsers) \in Nat
      /\ DOMAIN SeedAccounts = 1..Len(SeedAccounts) /\ Len(SeedAccounts) \in Nat
      /\ SeedKyc \in Seq([email: Emails, status: STRING]) /\ Len(SeedKyc) \in Nat
  BY OnboardingConstants, LenProperties
<1> QED BY <1>1, <1>2 DEF AtKyc, AtAudit, Roles

\* A registration that is done stays done, and the user it stands for his.
LEMMA RegisteredStays ==
  ASSUME \A k \in Registrars : registrar[k].at = "done" => registrar'[k] = registrar[k]
  PROVE  \A e, p : Registered(e, p) => Registered(e, p)'
BY DEF Registered, Told

\* New users take nothing away from a seed run or from the log.
LEMMA UsersOnlyGrow ==
  ASSUME OnboardTypeOK, SeedersAreOnTheirWay, LogSpeaksOfFinishedWork,
         UNCHANGED <<chart, kyc, log>>,
         \A e \in Emails : Exists(e) => Exists(e)'
  PROVE  /\ seeder' = seeder => SeedersAreOnTheirWay'
         /\ LogSpeaksOfFinishedWork'
<1>1. \A i \in DOMAIN SeedUsers : Exists(SeedUsers[i].email) => Exists(SeedUsers[i].email)'
  BY SeedData DEF Exists
<1>2. \A i \in DOMAIN kyc : kyc[i].email \in Emails
  <2>1. \A i \in DOMAIN kyc : kyc[i] \in [email: Emails, status: STRING]
    BY LenProperties, ElementOfSeq DEF OnboardTypeOK
  <2> QED BY <2>1
<1>3. seeder' = seeder => SeedersAreOnTheirWay'
  BY <1>1 DEF SeedersAreOnTheirWay, Exists
<1>4. LogSpeaksOfFinishedWork'
  BY <1>1, <1>2 DEF LogSpeaksOfFinishedWork, Exists
<1> QED BY <1>3, <1>4

-----------------------------------------------------------------------------
(***************************************************************************)
(* Registration.                                                           *)
(***************************************************************************)

\* What a registration touches, and what it may not.
LEMMA RegistrarFrame ==
  ASSUME OnboardInv, NEW h \in Registrars,
         UNCHANGED <<kyc, chart, log, runs, seeder, logins, jar>>,
         users' \in [Emails -> UserRows \cup {NoUser}],
         \A e \in Emails : Exists(e) => users'[e] = users[e],
         registrar' \in [Registrars -> Calls],
         RegistrarsCarry', RegistrationsStand', UsersHaveOneOrigin'
  PROVE  OnboardInv'
<1>1. OnboardTypeOK'
  BY DEF OnboardInv, OnboardTypeOK
<1>2. SeedersAreOnTheirWay' /\ LogSpeaksOfFinishedWork'
  BY UsersOnlyGrow DEF OnboardInv, Exists
<1>3. KycIsCounted' /\ CookiesAreBacked'
  BY DEF OnboardInv, KycIsCounted, PastKyc, CookiesAreBacked, Backs
<1> QED BY <1>1, <1>2, <1>3 DEF OnboardInv

\* A registration that ends without a user, or goes on to the create, tells
\* nobody that he is registered.
LEMMA NobodyRegistered ==
  ASSUME OnboardInv, NEW h \in Registrars,
         UNCHANGED <<users, kyc, chart, log, runs, seeder, logins, jar>>,
         registrar[h].at # "done", registrar' \in [Registrars -> Calls],
         \A k \in Registrars \ {h} : registrar'[k] = registrar[k],
         RegistrarsCarry', ~Told(h, "created")',
         Told(h, "failed")' => Exists(registrar[h].email)'
  PROVE  OnboardInv'
<1>1. RegistrationsStand'
  <2>1. \A k \in Registrars \ {h} :
          /\ Told(k, "created")' => Told(k, "created")
          /\ Told(k, "failed")' => Told(k, "failed")
    BY DEF Told
  <2>2. \A k \in Registrars \ {h} :
          /\ Told(k, "created")' => Authentic(registrar[k].email, registrar[k].password)'
          /\ Told(k, "failed")' => Exists(registrar[k].email)'
    BY <2>1 DEF OnboardInv, RegistrationsStand, Authentic, Exists
  <2>3. \A k, l \in Registrars :
          k # l /\ Told(k, "created")' /\ Told(l, "created")' =>
            registrar'[k].email # registrar'[l].email
    BY <2>1 DEF OnboardInv, RegistrationsStand
  <2> QED BY <2>2, <2>3 DEF RegistrationsStand
<1>2. UsersHaveOneOrigin'
  <2>1. \A k \in Registrars : registrar[k].at = "done" => registrar'[k] = registrar[k]
    OBVIOUS
  <2>2. \A x, q : Registered(x, q) => Registered(x, q)'
    BY <2>1, RegisteredStays
  <2> QED BY <2>2 DEF OnboardInv, UsersHaveOneOrigin, Exists
<1> QED BY <1>1, <1>2, RegistrarFrame DEF OnboardInv, OnboardTypeOK

\* The check: an address that is taken is a user's from then on.
LEMMA RegisterCheckKeeps ==
  ASSUME OnboardInv, NEW h \in Registrars, RegisterCheck(h)
  PROVE  OnboardInv'
<1>1. UNCHANGED <<users, kyc, chart, log, runs, seeder, logins, jar>>
      /\ registrar[h].at = "idle" /\ registrar \in [Registrars -> Calls]
  BY DEF RegisterCheck, userVars, OnboardInv, OnboardTypeOK
<1>2. PICK e \in Emails, p \in Passwords, next \in {"create", "done"},
           said \in {"weak", "failed", "none"} :
        /\ registrar' = [registrar EXCEPT ![h] =
             [email |-> e, password |-> p, at |-> next, answer |-> said]]
        /\ said = "failed" => Exists(e)
        /\ next = "create" => said = "none"
  BY OnboardingConstants DEF RegisterCheck
<1>3. /\ registrar'[h] = [email |-> e, password |-> p, at |-> next, answer |-> said]
      /\ \A k \in Registrars \ {h} : registrar'[k] = registrar[k]
      /\ registrar' \in [Registrars -> Calls]
  BY <1>1, <1>2 DEF Calls
<1>4. RegistrarsCarry'
  BY <1>2, <1>3 DEF OnboardInv, RegistrarsCarry
<1>5. ~Told(h, "created")' /\ (Told(h, "failed")' => Exists(registrar[h].email)')
  BY <1>1, <1>2, <1>3 DEF Told, Exists
<1> QED BY <1>1, <1>3, <1>4, <1>5, NobodyRegistered

\* A failure, at whatever statement, and the refusal of the web route.
LEMMA RegisterFailsKeeps ==
  ASSUME OnboardInv, NEW h \in Registrars, RegisterFails(h) \/ RegisterOnWeb(h)
  PROVE  OnboardInv'
<1>1. UNCHANGED <<users, kyc, chart, log, runs, seeder, logins, jar>>
      /\ registrar[h].at \in {"idle", "create"} /\ registrar \in [Registrars -> Calls]
  BY DEF RegisterFails, RegisterOnWeb, userVars, OnboardInv, OnboardTypeOK
<1>2. ASSUME NEW said \in {"error", "refused"}, Answer(h, said)
      PROVE  /\ registrar'[h].email = registrar[h].email
             /\ registrar'[h].password = registrar[h].password
             /\ registrar'[h].at = "done" /\ registrar'[h].answer = said
             /\ \A k \in Registrars \ {h} : registrar'[k] = registrar[k]
             /\ registrar' \in [Registrars -> Calls]
  BY ZenonT(30), <1>1, <1>2 DEF Answer, Calls
<1>3. /\ registrar'[h].at = "done" /\ registrar'[h].answer \in {"error", "refused"}
      /\ registrar'[h].answer = "error" =>
           registrar'[h].email \in Emails /\ registrar'[h].password \in Passwords
      /\ \A k \in Registrars \ {h} : registrar'[k] = registrar[k]
      /\ registrar' \in [Registrars -> Calls]
  <2>1. CASE registrar[h].at = "idle" /\ RegisterFails(h)
    <3>1. PICK form \in Registrations :
            registrar' = [registrar EXCEPT ![h] =
              [email |-> Lowered[form.typed], password |-> form.password,
               at |-> "done", answer |-> "error"]]
      BY <2>1 DEF RegisterFails
    <3>2. Lowered[form.typed] \in Emails /\ form.password \in Passwords
      BY OnboardingConstants
    <3> QED BY <1>1, <3>1, <3>2 DEF Calls
  <2>2. CASE registrar[h].at = "create" /\ RegisterFails(h)
    <3>1. Answer(h, "error")
      BY <2>2 DEF RegisterFails
    <3>2. registrar[h].email \in Emails /\ registrar[h].password \in Passwords
      BY <2>2 DEF OnboardInv, RegistrarsCarry
    <3> QED BY <1>2, <3>1, <3>2
  <2>3. CASE RegisterOnWeb(h)
    <3>1. Answer(h, "refused")
      BY <2>3 DEF RegisterOnWeb
    <3> QED BY <1>2, <3>1
  <2> QED BY <1>1, <2>1, <2>2, <2>3
<1>4. RegistrarsCarry'
  BY <1>3 DEF OnboardInv, RegistrarsCarry
<1>5. ~Told(h, "created")' /\ ~Told(h, "failed")'
  BY <1>3 DEF Told
<1> QED BY <1>1, <1>3, <1>4, <1>5, NobodyRegistered

\* The create: the index lets a new address in once, and the row is its own.
LEMMA RegisterCreateKeeps ==
  ASSUME OnboardInv, NEW h \in Registrars, RegisterCreate(h)
  PROVE  OnboardInv'
<1>1. PICK e \in Emails, p \in Passwords :
        e = registrar[h].email /\ p = registrar[h].password
  BY DEF RegisterCreate, OnboardInv, RegistrarsCarry
<1>2. /\ UNCHANGED <<kyc, chart, log, runs, seeder, logins, jar>>
      /\ registrar[h].at = "create" /\ registrar \in [Registrars -> Calls]
  BY DEF RegisterCreate, OnboardInv, OnboardTypeOK
<1>3. PICK said \in {"created", "lost", "error"} :
        /\ registrar' = [registrar EXCEPT ![h].at = "done", ![h].answer = said]
        /\ IF said = "error"
           THEN Exists(e) /\ users' = users
           ELSE ~Exists(e) /\ users' = [users EXCEPT ![e] = User(p, "INVESTOR")]
  BY <1>1 DEF RegisterCreate, Answer
<1>4. /\ registrar'[h] = [email |-> e, password |-> p, at |-> "done", answer |-> said]
      /\ \A k \in Registrars \ {h} : registrar'[k] = registrar[k]
      /\ registrar' \in [Registrars -> Calls]
  BY ZenonT(30), <1>1, <1>2, <1>3 DEF Calls
<1>5. /\ User(p, "INVESTOR") \in UserRows /\ User(p, "INVESTOR") # NoUser
      /\ User(p, "INVESTOR").password = p /\ User(p, "INVESTOR").role = "INVESTOR"
  <2>1. "INVESTOR" \in Roles
    BY DEF Roles
  <2> QED BY <2>1, UserIsARow
<1>6. /\ users' \in [Emails -> UserRows \cup {NoUser}]
      /\ \A x \in Emails : Exists(x) => users'[x] = users[x]
      /\ users'[e] # NoUser
      /\ \A x \in Emails \ {e} : users'[x] = users[x]
      /\ said # "error" => users'[e] = User(p, "INVESTOR")
  BY <1>3, <1>5 DEF OnboardInv, OnboardTypeOK, Exists
<1>7. RegistrarsCarry'
  BY <1>4 DEF OnboardInv, RegistrarsCarry
<1>8. RegistrationsStand'
  <2>1. \A k \in Registrars \ {h} :
          /\ Told(k, "created")' => Told(k, "created")
          /\ Told(k, "failed")' => Told(k, "failed")
    BY <1>4 DEF Told
  <2>2. Told(h, "created")' => ~Exists(e) /\ users'[e] = User(p, "INVESTOR")
    BY <1>3, <1>4, <1>6 DEF Told
  <2>3. /\ Told(h, "created")' => Authentic(registrar[h].email, registrar[h].password)'
        /\ ~Told(h, "failed")'
    BY <1>4, <1>5, <1>6, <2>2 DEF Authentic, Exists, Told
  <2>4. ASSUME NEW k \in Registrars \ {h}
        PROVE  /\ Told(k, "created")' => Authentic(registrar[k].email, registrar[k].password)'
               /\ Told(k, "failed")' => Exists(registrar[k].email)'
    <3>1. Told(k, "created") \/ Told(k, "failed") =>
            registrar[k].email \in Emails
      BY DEF Told, OnboardInv, RegistrarsCarry
    <3> QED BY <1>4, <1>6, <2>1, <3>1 DEF OnboardInv, RegistrationsStand, Authentic, Exists
  <2>5. \A k \in Registrars \ {h} :
          Told(h, "created")' /\ Told(k, "created")' => registrar[k].email # e
    BY <2>1, <2>2 DEF OnboardInv, RegistrationsStand, Authentic
  <2>6. \A k, l \in Registrars :
          k # l /\ Told(k, "created")' /\ Told(l, "created")' =>
            registrar'[k].email # registrar'[l].email
    BY <1>4, <2>1, <2>5 DEF OnboardInv, RegistrationsStand
  <2> QED BY <2>3, <2>4, <2>6 DEF RegistrationsStand
<1>9. UsersHaveOneOrigin'
  <2>1. \A x, q : Registered(x, q) => Registered(x, q)'
    BY <1>2, <1>4, RegisteredStays
  <2>2. said # "error" => Registered(e, p)'
    BY <1>4 DEF Registered, Told
  <2>3. ASSUME NEW x \in Emails, Exists(x)'
        PROVE  \/ Exists(x) /\ users'[x] = users[x]
               \/ x = e /\ said # "error"
    BY <1>3, <1>6, <2>3 DEF Exists
  <2> QED BY <1>5, <1>6, <2>1, <2>2, <2>3 DEF OnboardInv, UsersHaveOneOrigin, Exists
<1> QED BY <1>2, <1>4, <1>6, <1>7, <1>8, <1>9, RegistrarFrame

-----------------------------------------------------------------------------
(***************************************************************************)
(* The seed.                                                               *)
(***************************************************************************)

\* What a statement of the seed may not touch.
LEMMA SeedFrame ==
  ASSUME OnboardInv, UNCHANGED <<registrar, logins, jar>>,
         OnboardTypeOK', SeedersAreOnTheirWay', KycIsCounted',
         \A e \in Emails : Exists(e) => users'[e] = users[e],
         UsersHaveOneOrigin', LogSpeaksOfFinishedWork'
  PROVE  OnboardInv'
<1>1. RegistrarsCarry' /\ CookiesAreBacked'
  BY DEF OnboardInv, RegistrarsCarry, CookiesAreBacked, Backs
<1>2. \A h \in Registrars, a \in {"created", "failed", "error"} :
        Told(h, a) => registrar[h].email \in Emails
  BY DEF OnboardInv, RegistrarsCarry, Told
<1>3. RegistrationsStand'
  BY <1>2 DEF OnboardInv, RegistrationsStand, Told, Authentic, Exists
<1> QED BY <1>1, <1>3 DEF OnboardInv

\* A run goes to another statement, and has done what comes before it.
LEMMA RunMoves ==
  ASSUME OnboardInv, NEW s \in Seeders, NEW n \in 0..AtAudit, Goto(s, n),
         \A e \in Emails : Exists(e) => Exists(e)',
         chart \subseteq chart',
         chart' \subseteq {SeedAccounts[j] : j \in DOMAIN SeedAccounts},
         \A i \in DOMAIN SeedUsers : i < n => Exists(SeedUsers[i].email)',
         \A j \in DOMAIN SeedAccounts : AtKyc + j < n => SeedAccounts[j] \in chart'
  PROVE  /\ seeder' \in [Seeders -> [at: Nat, absent: BOOLEAN]]
         /\ SeedersAreOnTheirWay'
         /\ PastKyc' = IF n > AtKyc THEN PastKyc \cup {s} ELSE PastKyc \ {s}
<1>1. AtAudit \in Nat /\ AtKyc \in Nat
  BY SeedData
<1>2. /\ seeder' \in [Seeders -> [at: Nat, absent: BOOLEAN]]
      /\ seeder'[s].at = n /\ \A t \in Seeders \ {s} : seeder'[t] = seeder[t]
  BY <1>1 DEF Goto, OnboardInv, OnboardTypeOK
<1>3. SeedersAreOnTheirWay'
  <2>1. ASSUME NEW t \in Seeders
        PROVE  /\ seeder'[t].at <= AtAudit
               /\ \A i \in DOMAIN SeedUsers : i < seeder'[t].at => Exists(SeedUsers[i].email)'
               /\ \A j \in DOMAIN SeedAccounts :
                    AtKyc + j < seeder'[t].at => SeedAccounts[j] \in chart'
    <3>1. CASE t = s
      BY <1>1, <1>2, <3>1
    <3>2. CASE t # s
      BY <1>2, <3>2, SeedData DEF OnboardInv, SeedersAreOnTheirWay
    <3> QED BY <3>1, <3>2
  <2> QED BY <2>1 DEF SeedersAreOnTheirWay, Exists
<1>4. PastKyc' = IF n > AtKyc THEN PastKyc \cup {s} ELSE PastKyc \ {s}
  BY <1>2 DEF PastKyc
<1> QED BY <1>2, <1>3, <1>4

\* The runs past their KYC rows are finitely many.
LEMMA PastKycIsFinite == IsFiniteSet(PastKyc) /\ Cardinality(PastKyc) \in Nat
BY OnboardingConstants, FS_Subset, FS_CardinalityType DEF PastKyc

\* An element more or less changes a count by one at most.
LEMMA OneMoreOrLess ==
  ASSUME NEW S, NEW x, IsFiniteSet(S)
  PROVE  /\ Cardinality(S \ {x}) \in Nat /\ Cardinality(S \ {x}) <= Cardinality(S)
         /\ x \in S => Cardinality(S \ {x}) = Cardinality(S) - 1
         /\ Cardinality(S \cup {x}) \in Nat /\ Cardinality(S \cup {x}) <= Cardinality(S) + 1
<1>1. Cardinality(S) \in Nat
  BY FS_CardinalityType
<1>2. /\ IsFiniteSet(S \ {x})
      /\ Cardinality(S \ {x}) = IF x \in S THEN Cardinality(S) - 1 ELSE Cardinality(S)
  BY FS_RemoveElement
<1>3. /\ IsFiniteSet(S \cup {x})
      /\ Cardinality(S \cup {x}) = IF x \in S THEN Cardinality(S) ELSE Cardinality(S) + 1
  BY FS_AddElement
<1>4. Cardinality(S \ {x}) \in Nat
  BY <1>2, FS_CardinalityType
<1>5. Cardinality(S \cup {x}) \in Nat
  BY <1>3, FS_CardinalityType
<1> QED BY <1>1, <1>2, <1>3, <1>4, <1>5

\* A run that comes to have inserted its rows, or to be in the log, keeps the
\* count; so does one that stops.
LEMMA CountKept ==
  ASSUME OnboardInv, log' \in Nat, Len(kyc') \in Nat, NEW s \in Seeders,
         \/ PastKyc' = PastKyc /\ log' = log /\ kyc' = kyc
         \/ PastKyc' = PastKyc \ {s} /\ log' = log /\ kyc' = kyc
         \/ /\ PastKyc' = PastKyc \cup {s} /\ log' = log
            /\ Len(kyc') = Len(kyc) + Len(SeedKyc)
         \/ PastKyc' = PastKyc \ {s} /\ s \in PastKyc /\ log' = log + 1 /\ kyc' = kyc
  PROVE  KycIsCounted'
<1> DEFINE past == Cardinality(PastKyc)
           next == Cardinality(PastKyc')
           perRun == Len(SeedKyc)
<1>1. past \in Nat /\ perRun \in Nat /\ log \in Nat /\ Len(kyc) \in Nat
      /\ Len(kyc) >= (log + past) * perRun
  BY PastKycIsFinite, SeedData, LenProperties DEF OnboardInv, OnboardTypeOK, KycIsCounted
<1>2. \/ next \in Nat /\ next <= past /\ log' = log /\ kyc' = kyc
      \/ /\ next \in Nat /\ next <= past + 1 /\ log' = log
         /\ Len(kyc') = Len(kyc) + perRun
      \/ next = past - 1 /\ next \in Nat /\ log' = log + 1 /\ kyc' = kyc
  <2>1. /\ Cardinality(PastKyc \ {s}) \in Nat /\ Cardinality(PastKyc \ {s}) <= past
        /\ s \in PastKyc => Cardinality(PastKyc \ {s}) = past - 1
        /\ Cardinality(PastKyc \cup {s}) \in Nat
        /\ Cardinality(PastKyc \cup {s}) <= past + 1
    BY PastKycIsFinite, OneMoreOrLess
  <2>2. CASE PastKyc' = PastKyc /\ log' = log /\ kyc' = kyc
    BY <1>1, <2>2
  <2>3. CASE PastKyc' = PastKyc \ {s} /\ log' = log /\ kyc' = kyc
    BY <2>1, <2>3
  <2>4. CASE /\ PastKyc' = PastKyc \cup {s} /\ log' = log
             /\ Len(kyc') = Len(kyc) + Len(SeedKyc)
    BY <2>1, <2>4
  <2>5. CASE PastKyc' = PastKyc \ {s} /\ s \in PastKyc /\ log' = log + 1 /\ kyc' = kyc
    BY <2>1, <2>5
  <2> QED BY <2>2, <2>3, <2>4, <2>5
<1> HIDE DEF past, next, perRun
<1>3. Len(kyc') >= (log' + next) * perRun
  <2>1. \A x, y \in Nat : x <= y => x * perRun <= y * perRun
    BY <1>1
  <2>2. (log + past + 1) * perRun = (log + past) * perRun + perRun
    BY <1>1
  <2>3. CASE next \in Nat /\ next <= past /\ log' = log /\ kyc' = kyc
    <3>1. (log + next) * perRun <= (log + past) * perRun
      BY <1>1, <2>1, <2>3
    <3> QED BY <1>1, <2>3, <3>1
  <2>4. CASE /\ next \in Nat /\ next <= past + 1 /\ log' = log
             /\ Len(kyc') = Len(kyc) + perRun
    <3>1. (log + next) * perRun <= (log + past + 1) * perRun
      BY <1>1, <2>1, <2>4
    <3> QED BY <1>1, <2>2, <2>4, <3>1
  <2>5. CASE next = past - 1 /\ next \in Nat /\ log' = log + 1 /\ kyc' = kyc
    <3>1. log' + next = log + past
      BY <1>1, <2>5
    <3> QED BY <1>1, <2>5, <3>1
  <2> QED BY <1>2, <2>3, <2>4, <2>5
<1> QED BY <1>3 DEF KycIsCounted, next, perRun

\* A statement that moves its run on, or ends it, and writes no user.
LEMMA SeedWrites ==
  ASSUME OnboardInv, NEW s \in Seeders, NEW n \in 0..AtAudit, Goto(s, n),
         UNCHANGED <<users, registrar, logins, jar>>,
         kyc' \in Seq([email: Emails, status: STRING]), log' \in Nat,
         chart \subseteq chart',
         chart' \subseteq {SeedAccounts[j] : j \in DOMAIN SeedAccounts},
         \A i \in DOMAIN SeedUsers : i < n => Exists(SeedUsers[i].email),
         \A j \in DOMAIN SeedAccounts : AtKyc + j < n => SeedAccounts[j] \in chart',
         n > AtKyc =>
           \/ seeder[s].at > AtKyc /\ log' = log /\ kyc' = kyc
           \/ log' = log /\ Len(kyc') = Len(kyc) + Len(SeedKyc),
         n <= AtKyc =>
           \/ log' = log /\ kyc' = kyc
           \/ seeder[s].at > AtKyc /\ log' = log + 1 /\ kyc' = kyc,
         LogSpeaksOfFinishedWork'
  PROVE  OnboardInv'
<1>1. /\ seeder' \in [Seeders -> [at: Nat, absent: BOOLEAN]]
      /\ SeedersAreOnTheirWay'
      /\ PastKyc' = IF n > AtKyc THEN PastKyc \cup {s} ELSE PastKyc \ {s}
  BY RunMoves DEF Exists
<1>2. OnboardTypeOK'
  BY <1>1 DEF OnboardInv, OnboardTypeOK
<1>3. Len(kyc') \in Nat /\ AtKyc \in Nat /\ n \in Nat /\ seeder[s].at \in Nat
  BY SeedData, LenProperties DEF OnboardInv, OnboardTypeOK
<1>4. seeder[s].at > AtKyc <=> s \in PastKyc
  BY DEF PastKyc
<1>5. KycIsCounted'
  <2>1. CASE n > AtKyc
    <3>1. CASE s \in PastKyc /\ log' = log /\ kyc' = kyc
      <4>1. PastKyc' = PastKyc
        BY <1>1, <2>1, <3>1
      <4> QED BY <1>3, <3>1, <4>1, CountKept
    <3>2. CASE log' = log /\ Len(kyc') = Len(kyc) + Len(SeedKyc)
      BY <1>1, <1>3, <2>1, <3>2, CountKept
    <3> QED BY <1>4, <2>1, <3>1, <3>2
  <2>2. CASE n <= AtKyc
    <3>1. PastKyc' = PastKyc \ {s}
      BY <1>1, <1>3, <2>2
    <3> QED BY <1>3, <1>4, <2>2, <3>1, CountKept
  <2> QED BY <1>3, <2>1, <2>2
<1>6. UsersHaveOneOrigin'
  BY DEF OnboardInv, UsersHaveOneOrigin, Registered, Told, Exists
<1> QED BY <1>1, <1>2, <1>5, <1>6, SeedFrame

\* A run begins, or stops between two statements: all it did remains.
LEMMA StartAndStopKeep ==
  ASSUME OnboardInv, NEW s \in Seeders, SeedStart(s) \/ SeedStops(s)
  PROVE  OnboardInv'
<1>1. PICK n \in {0, 1} :
        Goto(s, n) /\ UNCHANGED <<users, kyc, chart, log, registrar, logins, jar>>
  BY DEF SeedStart, SeedStops, userVars
<1>2. /\ n \in 0..AtAudit /\ n <= AtKyc /\ ~(n > AtKyc)
      /\ \A i \in DOMAIN SeedUsers : ~(i < n)
      /\ \A j \in DOMAIN SeedAccounts : ~(AtKyc + j < n)
  BY SeedData
<1>3. LogSpeaksOfFinishedWork'
  BY <1>1 DEF OnboardInv, LogSpeaksOfFinishedWork, Exists
<1> QED BY <1>1, <1>2, <1>3, SeedWrites DEF OnboardInv, OnboardTypeOK, SeedersAreOnTheirWay

\* The upsert that finds its user goes on; the one that does not remembers.
LEMMA SeedUserFindKeeps ==
  ASSUME OnboardInv, NEW s \in Seeders, SeedUserFind(s)
  PROVE  OnboardInv'
<1> DEFINE n == seeder[s].at
<1>1. n \in DOMAIN SeedUsers /\ UNCHANGED <<users, kyc, chart, log, registrar, logins, jar>>
  BY DEF SeedUserFind, userVars
<1>2. n \in Nat /\ n + 1 \in 0..AtAudit /\ n + 1 <= AtKyc /\ ~(n + 1 > AtKyc)
      /\ \A j \in DOMAIN SeedAccounts : ~(AtKyc + j < n + 1)
  BY <1>1, SeedData
<1>3. LogSpeaksOfFinishedWork'
  BY <1>1 DEF OnboardInv, LogSpeaksOfFinishedWork, Exists
<1>4. CASE Exists(SeedUsers[n].email)
  <2>1. Goto(s, n + 1)
    BY <1>4 DEF SeedUserFind, Proceed
  <2>2. \A i \in DOMAIN SeedUsers : i < n + 1 => Exists(SeedUsers[i].email)
    BY <1>2, <1>4, SeedData DEF OnboardInv, SeedersAreOnTheirWay
  <2> QED BY <1>1, <1>2, <1>3, <2>1, <2>2, SeedWrites
        DEF OnboardInv, OnboardTypeOK, SeedersAreOnTheirWay
<1>5. CASE ~Exists(SeedUsers[n].email)
  <2>1. /\ seeder' \in [Seeders -> [at: Nat, absent: BOOLEAN]]
        /\ \A t \in Seeders : seeder'[t].at = seeder[t].at
    <3>1. seeder' = [seeder EXCEPT ![s].absent = TRUE]
      BY <1>5 DEF SeedUserFind
    <3>2. seeder \in [Seeders -> [at: Nat, absent: BOOLEAN]]
      BY DEF OnboardInv, OnboardTypeOK
    <3> QED BY <3>1, <3>2
  <2>2. OnboardTypeOK' /\ SeedersAreOnTheirWay' /\ PastKyc' = PastKyc
    BY <1>1, <2>1 DEF OnboardInv, OnboardTypeOK, SeedersAreOnTheirWay, Exists, PastKyc
  <2>3. KycIsCounted' /\ UsersHaveOneOrigin'
    BY <1>1, <2>2 DEF OnboardInv, KycIsCounted, UsersHaveOneOrigin, Registered, Told, Exists
  <2> QED BY <1>1, <1>3, <2>2, <2>3, SeedFrame
<1> QED BY <1>4, <1>5

\* The create: the seed's user, unless somebody was quicker.
LEMMA SeedUserCreateKeeps ==
  ASSUME OnboardInv, NEW s \in Seeders, SeedUserCreate(s)
  PROVE  OnboardInv'
<1>1. PICK n \in DOMAIN SeedUsers : n = seeder[s].at
  BY DEF SeedUserCreate
<1>2. PICK e \in Emails, r \in Roles : e = SeedUsers[n].email /\ r = SeedUsers[n].role
  BY SeedData
<1>3. UNCHANGED <<kyc, chart, log, registrar, logins, jar>>
      /\ n \in Nat /\ 0 \in 0..AtAudit /\ n + 1 \in 0..AtAudit /\ n + 1 <= AtKyc
      /\ AtKyc \in Nat
      /\ \A j \in DOMAIN SeedAccounts : ~(AtKyc + j < n + 1)
  BY SeedData DEF SeedUserCreate
<1>4. CASE Exists(e)
  <2>1. Goto(s, 0) /\ users' = users
    BY <1>1, <1>2, <1>4 DEF SeedUserCreate
  <2>2. LogSpeaksOfFinishedWork'
    BY <1>3, <2>1 DEF OnboardInv, LogSpeaksOfFinishedWork, Exists
  <2>3. /\ \A i \in DOMAIN SeedUsers : ~(i < 0)
        /\ \A j \in DOMAIN SeedAccounts : ~(AtKyc + j < 0)
        /\ ~(0 > AtKyc)
    BY SeedData
  <2> QED BY <1>3, <2>1, <2>2, <2>3, SeedWrites
        DEF OnboardInv, OnboardTypeOK, SeedersAreOnTheirWay
<1>5. CASE ~Exists(e)
  <2>1. Goto(s, n + 1) /\ users' = [users EXCEPT ![e] = User(SeedPassword, r)]
    BY <1>1, <1>2, <1>5 DEF SeedUserCreate, Proceed
  <2>2. User(SeedPassword, r) \in UserRows /\ User(SeedPassword, r) # NoUser
    BY OnboardingConstants, UserIsARow
  <2>3. /\ users' \in [Emails -> UserRows \cup {NoUser}]
        /\ \A x \in Emails : Exists(x) => users'[x] = users[x]
        /\ \A x \in Emails : Exists(x)' => x = e \/ (Exists(x) /\ users'[x] = users[x])
        /\ users'[e] = User(SeedPassword, r) /\ Exists(e)'
    BY <1>5, <2>1, <2>2 DEF OnboardInv, OnboardTypeOK, Exists
  <2>4. \A x \in Emails : Exists(x) => Exists(x)'
    BY <2>3 DEF Exists
  <2>5. LogSpeaksOfFinishedWork'
    BY <1>3, <2>4, UsersOnlyGrow DEF OnboardInv
  <2>6. \A i \in DOMAIN SeedUsers : i < n + 1 => Exists(SeedUsers[i].email)'
    <3>1. \A i \in DOMAIN SeedUsers : i < n => Exists(SeedUsers[i].email)
      BY <1>1 DEF OnboardInv, SeedersAreOnTheirWay
    <3>2. \A i \in DOMAIN SeedUsers : Exists(SeedUsers[i].email) => Exists(SeedUsers[i].email)'
      BY <2>4, SeedData
    <3>3. Exists(SeedUsers[n].email)'
      BY <1>2, <2>3
    <3> QED BY <1>3, <3>1, <3>2, <3>3, SeedData
  <2>7. /\ seeder' \in [Seeders -> [at: Nat, absent: BOOLEAN]] /\ SeedersAreOnTheirWay'
        /\ PastKyc' = PastKyc \ {s}
    BY <1>3, <2>1, <2>4, <2>6, RunMoves DEF OnboardInv, SeedersAreOnTheirWay
  <2>8. OnboardTypeOK'
    BY <1>3, <2>3, <2>7 DEF OnboardInv, OnboardTypeOK
  <2>9. KycIsCounted'
    BY <1>3, <2>7, CountKept, LenProperties DEF OnboardInv, OnboardTypeOK
  <2>10. UsersHaveOneOrigin'
    <3>1. \A x, q : Registered(x, q)' = Registered(x, q)
      BY <1>3 DEF Registered, Told
    <3> QED BY <1>2, <2>3, <3>1 DEF OnboardInv, UsersHaveOneOrigin, Exists
  <2> QED BY <1>3, <2>3, <2>5, <2>7, <2>8, <2>9, <2>10, SeedFrame
<1> QED BY <1>4, <1>5

\* The KYC rows: all their users are there, for their statements come first.
LEMMA SeedKycKeeps ==
  ASSUME OnboardInv, NEW s \in Seeders, SeedKycRecords(s)
  PROVE  OnboardInv'
<1>1. /\ seeder[s].at = AtKyc /\ kyc' = kyc \o SeedKyc /\ Goto(s, AtKyc + 1)
      /\ UNCHANGED <<users, chart, log, registrar, logins, jar>>
  BY DEF SeedKycRecords, Proceed
<1>2. /\ AtKyc \in Nat /\ AtKyc + 1 \in 0..AtAudit /\ ~(AtKyc + 1 <= AtKyc)
      /\ \A j \in DOMAIN SeedAccounts : ~(AtKyc + j < AtKyc + 1)
      /\ \A i \in DOMAIN SeedUsers : i < AtKyc
  BY SeedData
<1>3. \A i \in DOMAIN SeedUsers : Exists(SeedUsers[i].email)
  BY <1>1, <1>2 DEF OnboardInv, SeedersAreOnTheirWay
<1>4. /\ kyc \in Seq([email: Emails, status: STRING])
      /\ kyc' \in Seq([email: Emails, status: STRING])
      /\ Len(kyc') = Len(kyc) + Len(SeedKyc)
      /\ \A i \in 1..Len(kyc') :
           kyc'[i] = IF i <= Len(kyc) THEN kyc[i] ELSE SeedKyc[i - Len(kyc)]
  BY <1>1, SeedData, ConcatProperties DEF OnboardInv, OnboardTypeOK
<1>5. /\ DOMAIN kyc = 1..Len(kyc) /\ Len(kyc) \in Nat /\ DOMAIN kyc' = 1..Len(kyc')
      /\ DOMAIN SeedKyc = 1..Len(SeedKyc) /\ Len(SeedKyc) \in Nat
  BY <1>4, SeedData, LenProperties
<1>6. LogSpeaksOfFinishedWork'
  <2>1. log * Len(SeedKyc) <= Len(kyc')
    BY <1>4, <1>5 DEF OnboardInv, OnboardTypeOK, LogSpeaksOfFinishedWork
  <2>2. ASSUME NEW i \in DOMAIN kyc'
        PROVE  Exists(kyc'[i].email)
    <3>1. CASE i <= Len(kyc)
      BY <1>4, <1>5, <3>1 DEF OnboardInv, LogSpeaksOfFinishedWork
    <3>2. CASE i > Len(kyc)
      <4>1. kyc'[i] = SeedKyc[i - Len(kyc)] /\ i - Len(kyc) \in DOMAIN SeedKyc
        BY <1>4, <1>5, <3>2
      <4>2. PICK j \in DOMAIN SeedUsers : SeedUsers[j].email = kyc'[i].email
        BY <4>1, OnboardingConstants
      <4> QED BY <1>3, <4>2
    <3> QED BY <1>5, <3>1, <3>2
  <2>3. Len(kyc') \in Nat /\ log * Len(SeedKyc) \in Nat
    BY <1>4, <1>5 DEF OnboardInv, OnboardTypeOK
  <2> QED BY <1>1, <2>1, <2>2, <2>3 DEF OnboardInv, LogSpeaksOfFinishedWork, Exists
<1> QED BY <1>1, <1>2, <1>3, <1>4, <1>6, SeedWrites
      DEF OnboardInv, OnboardTypeOK, SeedersAreOnTheirWay

\* An account is one of the seed's, and there for the statements after it.
LEMMA SeedAccountKeeps ==
  ASSUME OnboardInv, NEW s \in Seeders, SeedAccount(s)
  PROVE  OnboardInv'
<1>1. PICK n \in Nat :
        /\ n = seeder[s].at /\ n > AtKyc /\ n < AtAudit /\ Goto(s, n + 1)
        /\ chart' = chart \cup {SeedAccounts[n - AtKyc]}
        /\ UNCHANGED <<users, kyc, log, registrar, logins, jar>>
  BY DEF SeedAccount, Proceed, OnboardInv, OnboardTypeOK
<1>2. /\ n + 1 \in 0..AtAudit /\ ~(n + 1 <= AtKyc) /\ n - AtKyc \in DOMAIN SeedAccounts
      /\ \A j \in DOMAIN SeedAccounts : AtKyc + j < n + 1 => AtKyc + j < n \/ j = n - AtKyc
      /\ \A i \in DOMAIN SeedUsers : i < n
  <2>1. AtKyc \in Nat /\ AtAudit \in Nat /\ AtAudit = AtKyc + Len(SeedAccounts) + 1
        /\ Len(SeedAccounts) \in Nat /\ DOMAIN SeedAccounts = 1..Len(SeedAccounts)
    BY SeedData
  <2>2. n + 1 \in 0..AtAudit /\ ~(n + 1 <= AtKyc) /\ n - AtKyc \in DOMAIN SeedAccounts
    BY <1>1, <2>1
  <2>3. \A j \in DOMAIN SeedAccounts : AtKyc + j < n + 1 => AtKyc + j < n \/ j = n - AtKyc
    BY <1>1, <2>1
  <2>4. \A i \in DOMAIN SeedUsers : i < n
    <3>1. \A i \in DOMAIN SeedUsers : i \in Nat /\ i < AtKyc
      BY SeedData
    <3> QED BY <1>1, <2>1, <3>1
  <2> QED BY <2>2, <2>3, <2>4
<1>3. /\ chart' \subseteq {SeedAccounts[j] : j \in DOMAIN SeedAccounts}
      /\ \A i \in DOMAIN SeedUsers : Exists(SeedUsers[i].email)
      /\ \A j \in DOMAIN SeedAccounts : AtKyc + j < n + 1 => SeedAccounts[j] \in chart'
  BY <1>1, <1>2 DEF OnboardInv, SeedersAreOnTheirWay
<1>4. LogSpeaksOfFinishedWork'
  <2>1. log > 0 => chart' = chart
    BY <1>1, <1>2 DEF OnboardInv, LogSpeaksOfFinishedWork
  <2> QED BY <1>1, <2>1 DEF OnboardInv, LogSpeaksOfFinishedWork, Exists
<1> QED BY <1>1, <1>2, <1>3, <1>4, SeedWrites DEF OnboardInv, OnboardTypeOK

\* The log: all statements before it have been carried out, by this run or
\* by others, and this run's KYC rows were still to be counted.
LEMMA SeedAuditKeeps ==
  ASSUME OnboardInv, NEW s \in Seeders, SeedAudit(s)
  PROVE  OnboardInv'
<1>1. /\ seeder[s].at = AtAudit /\ log' = log + 1 /\ Goto(s, 0)
      /\ UNCHANGED <<users, kyc, chart, registrar, logins, jar>>
  BY DEF SeedAudit
<1>2. /\ AtAudit \in Nat /\ AtKyc \in Nat /\ AtAudit > AtKyc /\ 0 \in 0..AtAudit /\ ~(0 > AtKyc)
      /\ \A i \in DOMAIN SeedUsers : i < AtAudit /\ ~(i < 0)
      /\ \A j \in DOMAIN SeedAccounts : AtKyc + j < AtAudit /\ ~(AtKyc + j < 0)
  BY SeedData
<1>3. /\ \A i \in DOMAIN SeedUsers : Exists(SeedUsers[i].email)
      /\ chart = {SeedAccounts[j] : j \in DOMAIN SeedAccounts}
  BY <1>1, <1>2 DEF OnboardInv, SeedersAreOnTheirWay
<1>4. Len(kyc) >= (log + 1) * Len(SeedKyc)
  <2>1. s \in PastKyc
    BY <1>1, <1>2 DEF PastKyc
  <2>2. Cardinality(PastKyc) \in Nat /\ Cardinality(PastKyc) # 0
    BY <2>1, PastKycIsFinite, FS_EmptySet
  <2>3. log \in Nat /\ Len(SeedKyc) \in Nat /\ Len(kyc) \in Nat
        /\ Len(kyc) >= (log + Cardinality(PastKyc)) * Len(SeedKyc)
    BY SeedData, LenProperties DEF OnboardInv, OnboardTypeOK, KycIsCounted
  <2>4. \A c, l, n \in Nat : c # 0 => (l + c) * n >= (l + 1) * n
    <3>1. \A x, y, n \in Nat : x <= y => x * n <= y * n
      OBVIOUS
    <3> QED BY <3>1
  <2>5. (log + Cardinality(PastKyc)) * Len(SeedKyc) >= (log + 1) * Len(SeedKyc)
    BY <2>2, <2>3, <2>4
  <2> QED BY <2>2, <2>3, <2>5
<1>5. LogSpeaksOfFinishedWork'
  BY <1>1, <1>3, <1>4 DEF OnboardInv, LogSpeaksOfFinishedWork, Exists
<1>6. /\ kyc' \in Seq([email: Emails, status: STRING]) /\ log' \in Nat
      /\ chart \subseteq chart'
      /\ chart' \subseteq {SeedAccounts[j] : j \in DOMAIN SeedAccounts}
      /\ seeder[s].at > AtKyc
  BY <1>1, <1>2, <1>3 DEF OnboardInv, OnboardTypeOK
<1>7. \A i \in DOMAIN SeedUsers : i < 0 => Exists(SeedUsers[i].email)
  BY <1>2
<1>8. \A j \in DOMAIN SeedAccounts : AtKyc + j < 0 => SeedAccounts[j] \in chart'
  BY <1>2
<1> QED BY <1>1, <1>2, <1>5, <1>6, <1>7, <1>8, SeedWrites

-----------------------------------------------------------------------------
(***************************************************************************)
(* Browsers.                                                               *)
(***************************************************************************)

\* What a browser's step may not touch.
LEMMA BrowserFrame ==
  ASSUME OnboardInv, UNCHANGED <<users, kyc, chart, log, registrar, seeder>>,
         logins' \in Seq(SessionRows),
         jar' \in [Browsers -> [access: Emails \cup {NoUser}, refresh: Nat, leaving: Nat]],
         CookiesAreBacked'
  PROVE  OnboardInv'
<1>1. OnboardTypeOK' /\ RegistrarsCarry' /\ SeedersAreOnTheirWay'
  BY DEF OnboardInv, OnboardTypeOK, RegistrarsCarry, SeedersAreOnTheirWay, Exists
<1>2. KycIsCounted' /\ LogSpeaksOfFinishedWork'
  BY DEF OnboardInv, KycIsCounted, PastKyc, LogSpeaksOfFinishedWork, Exists
<1>3. RegistrationsStand' /\ UsersHaveOneOrigin'
  BY DEF OnboardInv, RegistrationsStand, UsersHaveOneOrigin, Registered, Told, Authentic, Exists
<1> QED BY <1>1, <1>2, <1>3 DEF OnboardInv

\* Cookies that expire or are cleared back less than before.
LEMMA CookiesGo ==
  ASSUME OnboardInv, NEW b \in Browsers,
         AccessExpires(b) \/ RefreshExpires(b) \/ WebLogoutAnswer(b) \/ ClientLogout(b)
  PROVE  OnboardInv'
<1>1. /\ UNCHANGED <<users, kyc, chart, log, registrar, seeder, logins>>
      /\ \/ jar' = [jar EXCEPT ![b].access = NoUser]
         \/ jar[b].access = NoUser /\ jar' = [jar EXCEPT ![b].refresh = 0]
         \/ jar' = [jar EXCEPT ![b] = [access |-> NoUser, refresh |-> 0, leaving |-> 0]]
  BY DEF AccessExpires, RefreshExpires, WebLogoutAnswer, ClientLogout, ClearCookies, userVars
<1>2. jar \in [Browsers -> [access: Emails \cup {NoUser}, refresh: Nat, leaving: Nat]]
      /\ logins \in Seq(SessionRows) /\ Len(logins) \in Nat
  BY LenProperties DEF OnboardInv, OnboardTypeOK
<1>3. /\ jar' \in [Browsers -> [access: Emails \cup {NoUser}, refresh: Nat, leaving: Nat]]
      /\ jar'[b].access = NoUser
      /\ jar'[b].refresh = 0 \/ (jar'[b].refresh = jar[b].refresh /\ jar'[b].leaving = jar[b].leaving)
      /\ \A c \in Browsers \ {b} : jar'[c] = jar[c]
  <2>1. CASE jar' = [jar EXCEPT ![b].access = NoUser]
    BY <1>2, <2>1
  <2>2. CASE jar' = [jar EXCEPT ![b] = [access |-> NoUser, refresh |-> 0, leaving |-> 0]]
    BY <1>2, <2>2
  <2>3. CASE jar[b].access = NoUser /\ jar' = [jar EXCEPT ![b].refresh = 0]
    BY <1>2, <2>3
  <2> QED BY <1>1, <2>1, <2>2, <2>3
<1>4. CookiesAreBacked'
  <2>1. ASSUME NEW c \in Browsers
        PROVE  Backs(c)'
    <3>1. CASE c = b
      <4>1. Backs(b) /\ logins' = logins /\ jar'[b].access = NoUser
        BY <1>1, <1>3 DEF OnboardInv, CookiesAreBacked
      <4>2. CASE jar'[b].refresh = 0
        BY <1>2, <3>1, <4>1, <4>2 DEF Backs
      <4>3. CASE jar'[b].refresh = jar[b].refresh /\ jar'[b].leaving = jar[b].leaving
        BY <3>1, <4>1, <4>3 DEF Backs
      <4> QED BY <1>3, <4>2, <4>3
    <3>2. CASE c # b
      BY <1>1, <1>3, <3>2 DEF OnboardInv, CookiesAreBacked, Backs
    <3> QED BY <3>1, <3>2
  <2>2. ASSUME NEW c \in Browsers
        PROVE  jar'[c].refresh = 0 \/ jar'[c].refresh = jar[c].refresh
    BY <1>3
  <2>3. \A c, d \in Browsers :
          jar'[c].refresh = jar'[d].refresh /\ jar'[c].refresh # 0 => c = d
    BY <2>2 DEF OnboardInv, CookiesAreBacked
  <2> QED BY <2>1, <2>3 DEF CookiesAreBacked
<1> QED BY <1>1, <1>2, <1>3, <1>4, BrowserFrame

\* A log-in's session is new: no other browser has it, and no log-out had it.
LEMMA SignInKeeps ==
  ASSUME OnboardInv, NEW b \in Browsers, SignIn(b)
  PROVE  OnboardInv'
<1>1. PICK e \in Emails :
        /\ logins' = Append(logins, [email |-> e, end |-> "none"])
        /\ \/ jar' = [jar EXCEPT ![b].access = e, ![b].refresh = Len(logins) + 1]
           \/ jar' = jar
        /\ UNCHANGED <<users, kyc, chart, log, registrar, seeder>>
  BY OnboardingConstants DEF SignIn, userVars
<1>2. jar \in [Browsers -> [access: Emails \cup {NoUser}, refresh: Nat, leaving: Nat]]
      /\ logins \in Seq(SessionRows) /\ Len(logins) \in Nat
  BY LenProperties DEF OnboardInv, OnboardTypeOK
<1>3. /\ logins' \in Seq(SessionRows) /\ Len(logins') = Len(logins) + 1
      /\ \A i \in 1..Len(logins) : logins'[i] = logins[i]
      /\ logins'[Len(logins) + 1] = [email |-> e, end |-> "none"]
  <2>1. [email |-> e, end |-> "none"] \in SessionRows
    BY DEF SessionRows
  <2> QED BY <1>1, <1>2, <2>1, AppendProperties
<1>4. /\ jar' \in [Browsers -> [access: Emails \cup {NoUser}, refresh: Nat, leaving: Nat]]
      /\ \/ jar'[b] = jar[b]
         \/ jar'[b].access = e /\ jar'[b].refresh = Len(logins) + 1
      /\ \A c \in Browsers \ {b} : jar'[c] = jar[c]
  <2>1. CASE jar' = jar
    BY <1>2, <2>1
  <2>2. CASE jar' = [jar EXCEPT ![b].access = e, ![b].refresh = Len(logins) + 1]
    <3> DEFINE x == [jar[b] EXCEPT !.access = e, !.refresh = Len(logins) + 1]
    <3>1. x \in [access: Emails \cup {NoUser}, refresh: Nat, leaving: Nat]
          /\ x.access = e /\ x.refresh = Len(logins) + 1
      <4>1. jar[b] \in [access: Emails \cup {NoUser}, refresh: Nat, leaving: Nat]
            /\ Len(logins) + 1 \in Nat
        BY <1>2
      <4>2. \A y \in [access: Emails \cup {NoUser}, refresh: Nat, leaving: Nat], n \in Nat :
              LET z == [y EXCEPT !.access = e, !.refresh = n]
              IN /\ z \in [access: Emails \cup {NoUser}, refresh: Nat, leaving: Nat]
                 /\ z.access = e /\ z.refresh = n
        OBVIOUS
      <4> QED BY <4>1, <4>2
    <3>2. jar' = [jar EXCEPT ![b] = x]
      BY <1>2, <2>2
    <3> HIDE DEF x
    <3> QED BY <1>2, <3>1, <3>2
  <2> QED BY <1>1, <2>1, <2>2
<1>5. CookiesAreBacked'
  <2>1. ASSUME NEW c \in Browsers
        PROVE  Backs(c)'
    <3>1. CASE jar'[c] = jar[c]
      BY SMTT(30), <1>2, <1>3, <3>1 DEF OnboardInv, CookiesAreBacked, Backs
    <3>2. CASE jar'[c].access = e /\ jar'[c].refresh = Len(logins) + 1
      BY <1>2, <1>3, <3>2 DEF Backs
    <3> QED BY <1>4, <3>1, <3>2
  <2>2. \A c \in Browsers : jar[c].refresh <= Len(logins) /\ jar[c].refresh \in Nat
    BY <1>2 DEF OnboardInv, CookiesAreBacked, Backs
  <2>3. ASSUME NEW c \in Browsers
        PROVE  \/ jar'[c].refresh = jar[c].refresh
               \/ c = b /\ jar'[c].refresh = Len(logins) + 1
    BY <1>4
  <2>4. \A c, d \in Browsers :
          jar'[c].refresh = jar'[d].refresh /\ jar'[c].refresh # 0 => c = d
    BY <1>2, <2>2, <2>3 DEF OnboardInv, CookiesAreBacked
  <2> QED BY <2>1, <2>4 DEF CookiesAreBacked
<1> QED BY <1>1, <1>3, <1>4, <1>5, BrowserFrame

\* A revocation is of one session, and not of its user.
LEMMA SessionRevoked ==
  ASSUME logins \in Seq(SessionRows), NEW r \in 1..Len(logins),
         NEW how \in {"none", "logout", "other"},
         logins' = [logins EXCEPT ![r].end = how]
  PROVE  /\ logins' \in Seq(SessionRows) /\ Len(logins') = Len(logins)
         /\ logins'[r].end = how
         /\ \A i \in 1..Len(logins) :
              /\ logins'[i].email = logins[i].email
              /\ i # r => logins'[i] = logins[i]
<1> DEFINE x == [logins[r] EXCEPT !.end = how]
<1>1. logins[r] \in SessionRows
  BY ElementOfSeq
<1>2. x \in SessionRows /\ x.email = logins[r].email /\ x.end = how
  BY <1>1 DEF SessionRows
<1>3. logins' = [logins EXCEPT ![r] = x]
  OBVIOUS
<1> HIDE DEF x
<1>4. /\ logins' \in Seq(SessionRows) /\ Len(logins') = Len(logins)
      /\ \A i \in 1..Len(logins) : logins'[i] = IF i = r THEN x ELSE logins[i]
  BY <1>2, <1>3, ExceptSeq
<1> QED BY <1>2, <1>4

\* A session that ends elsewhere stays in its browser's jar, not as one that a
\* log-out revoked.
LEMMA SessionEndsKeeps ==
  ASSUME OnboardInv, NEW i \in DOMAIN logins, SessionEnds(i)
  PROVE  OnboardInv'
<1>1. /\ UNCHANGED <<users, kyc, chart, log, registrar, seeder, jar>>
      /\ logins' = [logins EXCEPT ![i].end = "other"]
  BY DEF SessionEnds, Revoke, userVars
<1>2. /\ jar \in [Browsers -> [access: Emails \cup {NoUser}, refresh: Nat, leaving: Nat]]
      /\ logins \in Seq(SessionRows) /\ Len(logins) \in Nat /\ i \in 1..Len(logins)
  BY LenProperties DEF OnboardInv, OnboardTypeOK
<1>3. /\ logins' \in Seq(SessionRows) /\ Len(logins') = Len(logins)
      /\ logins'[i].end = "other"
      /\ \A j \in 1..Len(logins) :
           /\ logins'[j].email = logins[j].email
           /\ j # i => logins'[j] = logins[j]
  BY <1>1, <1>2, SessionRevoked
<1>4. CookiesAreBacked'
  <2>1. ASSUME NEW c \in Browsers
        PROVE  Backs(c)'
    <3>1. Backs(c) /\ jar'[c] = jar[c] /\ jar[c].refresh \in Nat
      BY <1>1, <1>2 DEF OnboardInv, CookiesAreBacked
    <3>2. CASE jar[c].refresh = 0
      BY <1>2, <1>3, <3>1, <3>2 DEF Backs
    <3>3. CASE jar[c].refresh # 0
      <4>1. jar[c].refresh \in 1..Len(logins)
        BY <1>2, <3>1, <3>3 DEF Backs
      <4> QED BY <1>2, <1>3, <3>1, <3>3, <4>1 DEF Backs
    <3> QED BY <3>2, <3>3
  <2> QED BY <1>1, <2>1 DEF OnboardInv, CookiesAreBacked
<1> QED BY <1>1, <1>2, <1>3, <1>4, BrowserFrame

\* The log-out revokes its own browser's session and no other's.
LEMMA WebLogoutKeeps ==
  ASSUME OnboardInv, NEW b \in Browsers, WebLogout(b)
  PROVE  OnboardInv'
<1>1. /\ UNCHANGED <<users, kyc, chart, log, registrar, seeder>>
      /\ jar[b].refresh # 0 /\ jar' = [jar EXCEPT ![b].leaving = jar[b].refresh]
      /\ logins' = logins \/ logins' = [logins EXCEPT ![jar[b].refresh].end = "logout"]
  BY DEF WebLogout, Revoke, userVars
<1>2. jar \in [Browsers -> [access: Emails \cup {NoUser}, refresh: Nat, leaving: Nat]]
      /\ logins \in Seq(SessionRows)
      /\ Len(logins) \in Nat /\ DOMAIN logins = 1..Len(logins)
      /\ \A i \in 1..Len(logins) : logins[i] \in SessionRows
  BY LenProperties, ElementOfSeq DEF OnboardInv, OnboardTypeOK
<1>3. jar[b].refresh \in 1..Len(logins)
  BY <1>1, <1>2 DEF OnboardInv, CookiesAreBacked, Backs
<1>4. /\ logins' \in Seq(SessionRows) /\ Len(logins') = Len(logins)
      /\ \A i \in 1..Len(logins) :
           /\ logins'[i].email = logins[i].email
           /\ i # jar[b].refresh => logins'[i] = logins[i]
  BY <1>1, <1>2, <1>3, SessionRevoked
<1>5. /\ jar' \in [Browsers -> [access: Emails \cup {NoUser}, refresh: Nat, leaving: Nat]]
      /\ jar'[b].access = jar[b].access /\ jar'[b].refresh = jar[b].refresh
      /\ jar'[b].leaving = jar[b].refresh
      /\ \A c \in Browsers \ {b} : jar'[c] = jar[c]
  <2> DEFINE x == [jar[b] EXCEPT !.leaving = jar[b].refresh]
  <2>1. jar[b] \in [access: Emails \cup {NoUser}, refresh: Nat, leaving: Nat]
    BY <1>2
  <2>2. /\ x \in [access: Emails \cup {NoUser}, refresh: Nat, leaving: Nat]
        /\ x.access = jar[b].access /\ x.refresh = jar[b].refresh /\ x.leaving = jar[b].refresh
    BY <2>1
  <2>3. jar' = [jar EXCEPT ![b] = x]
    BY <1>1
  <2> HIDE DEF x
  <2>4. jar'[b] = x /\ \A c \in Browsers \ {b} : jar'[c] = jar[c]
    BY <1>2, <2>3
  <2>5. jar' \in [Browsers -> [access: Emails \cup {NoUser}, refresh: Nat, leaving: Nat]]
    BY <1>2, <2>2, <2>3
  <2> QED BY <2>2, <2>4, <2>5
<1>6. CookiesAreBacked'
  <2>1. ASSUME NEW c \in Browsers
        PROVE  jar'[c].refresh = jar[c].refresh /\ Backs(c)'
    <3>1. CASE c = b
      BY <1>2, <1>3, <1>4, <1>5, <3>1 DEF OnboardInv, CookiesAreBacked, Backs
    <3>2. CASE c # b
      <4>1. jar'[c] = jar[c] /\ jar[c].refresh # jar[b].refresh
        BY <1>1, <1>5, <3>2 DEF OnboardInv, CookiesAreBacked
      <4> QED BY <1>2, <1>4, <4>1 DEF OnboardInv, CookiesAreBacked, Backs
    <3> QED BY <3>1, <3>2
  <2> QED BY <2>1 DEF OnboardInv, CookiesAreBacked
<1> QED BY <1>1, <1>4, <1>5, <1>6, BrowserFrame

-----------------------------------------------------------------------------
(***************************************************************************)
(* The theorems.                                                           *)
(***************************************************************************)

\* Nobody is there to begin with.
LEMMA OnboardInitHolds == ASSUME OnboardInit PROVE OnboardInv
<1>1. OnboardTypeOK /\ RegistrarsCarry
  BY EmptySeq DEF OnboardInit, OnboardTypeOK, RegistrarsCarry, Calls
<1>2. SeedersAreOnTheirWay
  BY SeedData DEF OnboardInit, SeedersAreOnTheirWay
<1>3. PastKyc = {}
  BY SeedData DEF OnboardInit, PastKyc
<1>4. KycIsCounted /\ LogSpeaksOfFinishedWork
  BY <1>3, FS_EmptySet, SeedData, EmptySeq
     DEF OnboardInit, KycIsCounted, LogSpeaksOfFinishedWork
<1>5. CookiesAreBacked
  BY EmptySeq DEF OnboardInit, CookiesAreBacked, Backs
<1>6. RegistrationsStand /\ UsersHaveOneOrigin
  BY DEF OnboardInit, RegistrationsStand, UsersHaveOneOrigin, Told, Exists
<1> QED BY <1>1, <1>2, <1>4, <1>5, <1>6 DEF OnboardInv

\* Every step of a registration, a seed run or a browser keeps OnboardInv.
LEMMA OnboardStepHolds == ASSUME OnboardInv, [OnboardNext]_onboardVars PROVE OnboardInv'
<1>1. CASE \E h \in Registrars :
             RegisterCheck(h) \/ RegisterCreate(h) \/ RegisterFails(h) \/ RegisterOnWeb(h)
  BY <1>1, RegisterCheckKeeps, RegisterCreateKeeps, RegisterFailsKeeps
<1>2. CASE \E s \in Seeders :
             \/ SeedStart(s) \/ SeedUserFind(s) \/ SeedUserCreate(s) \/ SeedKycRecords(s)
             \/ SeedAccount(s) \/ SeedAudit(s) \/ SeedStops(s)
  BY <1>2, StartAndStopKeep, SeedUserFindKeeps, SeedUserCreateKeeps, SeedKycKeeps,
     SeedAccountKeeps, SeedAuditKeeps
<1>3. CASE \/ \E b \in Browsers : SignIn(b) \/ AccessExpires(b) \/ RefreshExpires(b)
           \/ \E b \in WebBrowsers : WebLogout(b) \/ WebLogoutAnswer(b)
           \/ \E b \in ClientBrowsers : ClientLogout(b)
           \/ \E i \in DOMAIN logins : SessionEnds(i)
  BY <1>3, SignInKeeps, CookiesGo, WebLogoutKeeps, SessionEndsKeeps DEF Browsers
<1>4. CASE UNCHANGED onboardVars
  <2>1. UNCHANGED <<users, kyc, chart, log, registrar, seeder, logins, jar>>
    BY <1>4 DEF onboardVars, userVars
  <2>2. CookiesAreBacked'
    BY <2>1 DEF OnboardInv, CookiesAreBacked, Backs
  <2> QED BY <2>1, <2>2, BrowserFrame DEF OnboardInv, OnboardTypeOK
<1> QED BY <1>1, <1>2, <1>3, <1>4 DEF OnboardNext

\* The inductive invariant: a seed run has done what its earlier statements
\* do, its KYC rows are counted from their insertion on, and no two browsers
\* hold one session.
THEOREM OnboardInvariant == OnboardSpec => []OnboardInv
<1>1. OnboardInit => OnboardInv
  BY OnboardInitHolds
<1>2. OnboardInv /\ [OnboardNext]_onboardVars => OnboardInv'
  BY OnboardStepHolds
<1> QED BY <1>1, <1>2, PTL DEF OnboardSpec

\* The invariant says what the property does, and more.
LEMMA OnboardInvSuffices == OnboardInv => OnboardingHolds
<1>1. OnboardInv => AccountsAreSignedIn
  BY DEF OnboardInv, CookiesAreBacked, Backs, AccountsAreSignedIn, Account, TokenUser
<1> QED BY <1>1 DEF OnboardInv, OnboardingHolds

\* Registrations stand, every user has one origin, the log speaks of finished
\* work and an account on a screen is that of the session its browser holds
\* (register, lines 23-33 of auth.service.ts; seed.ts; the log-in and log-out
\* routes of both apps).
THEOREM OnboardingIsHonoured == OnboardSpec => []OnboardingHolds
  BY OnboardInvSuffices, OnboardInvariant, PTL

=============================================================================
