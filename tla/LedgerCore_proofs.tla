-------------------------- MODULE LedgerCore_proofs --------------------------
(***************************************************************************)
(* The package keeps its promises however its calls interleave, for every  *)
(* number of callers, keys and ids: LedgerInv is inductive.                *)
(***************************************************************************)
EXTENDS LedgerCore, FiniteSetTheorems, TLAPS

-----------------------------------------------------------------------------
(***************************************************************************)
(* Results, jobs and entries.                                              *)
(***************************************************************************)

\* A Result is refused, or granted with an entry.
LEMMA ResultShapes ==
  /\ \A r \in Results : r.ok \in BOOLEAN
  /\ \A r \in Results : r.ok = TRUE => r.entry \in LedgerEntries
  /\ \A e \in LedgerEntries :
       Granted(e) \in Results /\ Granted(e).ok = TRUE /\ Granted(e).entry = e
  /\ \A error \in LedgerErrors : Refused(error) \in Results /\ Refused(error).ok = FALSE
  BY DEF Results, Granted, Refused

\* The three services' jobs differ in their call.
LEMMA JobShapes ==
  /\ \A j \in PostJobs : j.call = "post" /\ j.key \in KeySet /\ j.lines \in Seq(LedgerLines)
  /\ \A j \in GuardJobs : j.call = "guard" /\ j.key \in KeySet /\ j.lines \in Seq(LedgerLines)
  /\ \A j \in ReverseJobs : /\ j.call = "reverse" /\ j.key \in KeySet
                            /\ j.original \in EntryIds \cup {Nil}
  BY DEF PostJobs, GuardJobs, ReverseJobs

LEMMA MirroredLines ==
  ASSUME NEW lines \in Seq(LedgerLines)
  PROVE  Mirrored(lines) \in Seq(LedgerLines)
<1> DEFINE m(i) == [lines[i] EXCEPT !.direction = Opposite(@)]
<1>1. Len(lines) \in Nat /\ DOMAIN lines = 1 .. Len(lines)
  OBVIOUS
<1>2. ASSUME NEW i \in 1 .. Len(lines) PROVE m(i) \in LedgerLines
  <2>1. lines[i] \in LedgerLines
    OBVIOUS
  <2> QED BY <2>1 DEF LedgerLines, Opposite
<1>3. Mirrored(lines) = [i \in 1 .. Len(lines) |-> m(i)]
  BY <1>1 DEF Mirrored
<1> HIDE DEF m
<1> QED BY <1>1, <1>2, <1>3

\* Two entries that differ in nothing but the reversal mark.
Alike(e, f) ==
  e.id = f.id /\ e.key = f.key /\ e.lines = f.lines /\ e.reversalOf = f.reversalOf

LEMMA AlikeEntries ==
  ASSUME NEW e \in LedgerEntries, NEW f \in LedgerEntries
  PROVE  /\ [e EXCEPT !.reversedBy = Nil] = [f EXCEPT !.reversedBy = Nil] <=> Alike(e, f)
         /\ Alike(e, f) /\ e.reversedBy = f.reversedBy => e = f
  BY DEF LedgerEntries, Alike

LEMMA EntryShapes ==
  ASSUME NEW e \in LedgerEntries
  PROVE  /\ e.id \in EntryIds /\ e.key \in KeySet /\ e.lines \in Seq(LedgerLines)
         /\ e.reversalOf \in EntryIds \cup {Nil} /\ e.reversedBy \in EntryIds \cup {Nil}
         /\ e # Nil
  BY NilIsNone DEF LedgerEntries

\* The reversal that ReverseSave makes, and the mark it leaves.
LEMMA ReversalShapes ==
  ASSUME NEW o \in LedgerEntries, NEW id \in EntryIds, NEW key \in KeySet
  PROVE  LET r == [id |-> id, key |-> key, lines |-> Mirrored(o.lines),
                   reversalOf |-> o.id, reversedBy |-> Nil]
             m == [o EXCEPT !.reversedBy = id]
         IN /\ r \in LedgerEntries
            /\ r.id = id /\ r.key = key /\ r.lines = Mirrored(o.lines)
            /\ r.reversalOf = o.id /\ r.reversedBy = Nil
            /\ m \in LedgerEntries /\ Alike(m, o) /\ m.reversedBy = id
<1>1. o.lines \in Seq(LedgerLines) /\ o.id \in EntryIds
  BY EntryShapes
<1>2. Mirrored(o.lines) \in Seq(LedgerLines)
  BY <1>1, MirroredLines
<1> QED BY <1>1, <1>2 DEF LedgerEntries, Alike

-----------------------------------------------------------------------------
(***************************************************************************)
(* The repository.                                                         *)
(***************************************************************************)

RepoTyped ==
  /\ byId \in [EntryIds -> LedgerEntries \cup {Nil}]
  /\ \A id \in EntryIds : byId[id] # Nil => byId[id].id = id
  /\ byKey \in [KeySet -> LedgerEntries \cup {Nil}]
  /\ \A k \in KeySet : byKey[k] # Nil => byKey[k].key = k

RepoHolds == RepoTyped /\ MapsAgree /\ ReversalsPair

Books == {e \in LedgerEntries : IsPersisted(e)}

\* What the rest of a step needs to know of what it does to the repository:
\* what is there stays, and no id but "id" is taken.
EntriesAge(id) ==
  /\ Books \subseteq Books'
  /\ \A i \in EntryIds \ {id} : byId[i] = Nil => byId'[i] = Nil

\* Persistence, read field by field.
LEMMA PersistedShape ==
  ASSUME RepoTyped, NEW e \in LedgerEntries
  PROVE  IsPersisted(e) <=> byId[e.id] # Nil /\ Alike(byId[e.id], e)
<1>1. e.id \in EntryIds
  BY EntryShapes
<1>2. CASE byId[e.id] = Nil
  BY <1>2 DEF IsPersisted
<1>3. CASE byId[e.id] # Nil
  <2>1. byId[e.id] \in LedgerEntries
    BY <1>1, <1>3 DEF RepoTyped
  <2> QED BY <2>1, <1>3, AlikeEntries DEF IsPersisted
<1> QED BY <1>2, <1>3

\* An entry that is found under an id or a key is the one that is persisted.
LEMMA FoundIsPersisted ==
  ASSUME RepoTyped, MapsAgree
  PROVE  /\ \A id \in EntryIds : byId[id] # Nil =>
              /\ byId[id] \in LedgerEntries /\ byId[id].id = id
              /\ byId[id].key \in KeySet /\ byKey[byId[id].key] = byId[id]
              /\ byId[id] \in Books
         /\ \A k \in KeySet : byKey[k] # Nil =>
              /\ byKey[k] \in LedgerEntries /\ byKey[k].key = k
              /\ byKey[k].id \in EntryIds /\ byId[byKey[k].id] = byKey[k]
              /\ byKey[k] \in Books
<1>1. ASSUME NEW id \in EntryIds, byId[id] # Nil
      PROVE  /\ byId[id] \in LedgerEntries /\ byId[id].id = id
             /\ byId[id].key \in KeySet /\ byKey[byId[id].key] = byId[id]
             /\ byId[id] \in Books
  <2>1. byId[id] \in LedgerEntries /\ byId[id].id = id
    BY <1>1 DEF RepoTyped
  <2>2. byId[id].key \in KeySet
    BY <2>1, EntryShapes
  <2>3. byKey[byId[id].key] = byId[id]
    BY <1>1 DEF MapsAgree
  <2>4. byId[id] \in Books
    BY <1>1, <2>1 DEF IsPersisted, Books
  <2> QED BY <2>1, <2>2, <2>3, <2>4
<1>2. ASSUME NEW k \in KeySet, byKey[k] # Nil
      PROVE  /\ byKey[k] \in LedgerEntries /\ byKey[k].key = k
             /\ byKey[k].id \in EntryIds /\ byId[byKey[k].id] = byKey[k]
             /\ byKey[k] \in Books
  <2>1. byKey[k] \in LedgerEntries /\ byKey[k].key = k
    BY <1>2 DEF RepoTyped
  <2>2. byKey[k].id \in EntryIds
    BY <2>1, EntryShapes
  <2>3. byId[byKey[k].id] = byKey[k]
    BY <1>2 DEF MapsAgree
  <2>4. byKey[k] \in Books
    BY <1>2, <2>1, <2>3 DEF IsPersisted, Books
  <2> QED BY <2>1, <2>2, <2>3, <2>4
<1> QED BY <1>1, <1>2

\* A step that leaves the repository alone.
LEMMA RepoUnchanged ==
  ASSUME RepoHolds, UNCHANGED repoVars, NEW id
  PROVE  RepoHolds' /\ EntriesAge(id)
  BY DEF RepoHolds, RepoTyped, MapsAgree, ReversalsPair, EntriesAge, Books, IsPersisted, repoVars

\* A first entry of a key, under a new id, that reverses nothing.
LEMMA PutKeepsRepo ==
  ASSUME RepoHolds, NEW e \in LedgerEntries, byId[e.id] = Nil, byKey[e.key] = Nil,
         e.reversalOf = Nil, e.reversedBy = Nil, Put(e)
  PROVE  RepoHolds' /\ EntriesAge(e.id) /\ e \in Books'
<1>e. e.id \in EntryIds /\ e.key \in KeySet /\ e # Nil
  BY EntryShapes
<1>i. /\ byId' \in [EntryIds -> LedgerEntries \cup {Nil}]
      /\ \A i \in EntryIds : byId'[i] = IF i = e.id THEN e ELSE byId[i]
  BY <1>e DEF Put, RepoHolds, RepoTyped
<1>k. /\ byKey' \in [KeySet -> LedgerEntries \cup {Nil}]
      /\ \A k \in KeySet : byKey'[k] = IF k = e.key THEN e ELSE byKey[k]
  BY <1>e DEF Put, RepoHolds, RepoTyped
<1>f. /\ \A id \in EntryIds : byId[id] # Nil =>
           /\ byId[id] \in LedgerEntries /\ byId[id].id = id
           /\ byId[id].key \in KeySet /\ byKey[byId[id].key] = byId[id]
      /\ \A k \in KeySet : byKey[k] # Nil =>
           /\ byKey[k] \in LedgerEntries /\ byKey[k].key = k
           /\ byKey[k].id \in EntryIds /\ byId[byKey[k].id] = byKey[k]
  BY FoundIsPersisted DEF RepoHolds
<1>1. RepoTyped'
  BY <1>i, <1>k, <1>f DEF RepoTyped
<1>2. MapsAgree'
  <2>1. ASSUME NEW i \in EntryIds, byId'[i] # Nil
        PROVE  byKey'[byId'[i].key] = byId'[i]
    BY <2>1, <1>e, <1>i, <1>k, <1>f
  <2>2. ASSUME NEW k \in KeySet, byKey'[k] # Nil
        PROVE  byId'[byKey'[k].id] = byKey'[k]
    BY <2>2, <1>e, <1>i, <1>k, <1>f
  <2> QED BY <2>1, <2>2 DEF MapsAgree
<1>3. ReversalsPair'
  <2>1. ASSUME NEW i \in EntryIds, byId'[i] # Nil, byId'[i].reversedBy # Nil
        PROVE  LET r == byId'[i].reversedBy IN
               /\ byId'[r] # Nil /\ byId'[r].reversalOf = i
               /\ byId'[r].lines = Mirrored(byId'[i].lines)
    <3>1. i # e.id /\ byId'[i] = byId[i]
      BY <2>1, <1>i
    <3>2. byId[i].reversedBy \in EntryIds
      BY <3>1, <2>1, <1>f, EntryShapes
    <3>3. LET r == byId[i].reversedBy IN
          byId[r] # Nil /\ byId[r].reversalOf = i /\ byId[r].lines = Mirrored(byId[i].lines)
      BY <3>1, <2>1 DEF RepoHolds, ReversalsPair
    <3> QED BY <3>1, <3>2, <3>3, <1>i
  <2>2. ASSUME NEW i \in EntryIds, byId'[i] # Nil, byId'[i].reversalOf # Nil
        PROVE  LET o == byId'[i].reversalOf IN byId'[o] # Nil /\ byId'[o].reversedBy = i
    <3>1. i # e.id /\ byId'[i] = byId[i]
      BY <2>2, <1>i
    <3>2. byId[i].reversalOf \in EntryIds
      BY <3>1, <2>2, <1>f, EntryShapes
    <3>3. LET o == byId[i].reversalOf IN byId[o] # Nil /\ byId[o].reversedBy = i
      BY <3>1, <2>2 DEF RepoHolds, ReversalsPair
    <3> QED BY <3>1, <3>2, <3>3, <1>i
  <2> QED BY <2>1, <2>2 DEF ReversalsPair
<1>4. ASSUME NEW f \in LedgerEntries, IsPersisted(f)
      PROVE  IsPersisted(f)'
  <2>1. f.id \in EntryIds /\ byId[f.id] # Nil
    BY <1>4, EntryShapes DEF IsPersisted
  <2>2. byId'[f.id] = byId[f.id]
    BY <2>1, <1>i
  <2> QED BY <1>4, <2>2 DEF IsPersisted
<1>5. IsPersisted(e)'
  BY <1>e, <1>i DEF IsPersisted
<1>6. \A i \in EntryIds \ {e.id} : byId[i] = Nil => byId'[i] = Nil
  BY <1>i
<1> QED BY <1>1, <1>2, <1>3, <1>4, <1>5, <1>6 DEF RepoHolds, EntriesAge, Books

\* The original is marked, and its reversal is kept, in both maps.
LEMMA ReversalKeepsRepo ==
  ASSUME RepoHolds, NEW o \in LedgerEntries, NEW r \in LedgerEntries,
         byId[o.id] = o, o.reversedBy = Nil,
         byId[r.id] = Nil, byKey[r.key] = Nil,
         r.reversalOf = o.id, r.reversedBy = Nil, r.lines = Mirrored(o.lines),
         SaveReversal(o, r)
  PROVE  RepoHolds' /\ EntriesAge(r.id) /\ r \in Books'
<1> DEFINE m == [o EXCEPT !.reversedBy = r.id]
<1>r. r.id \in EntryIds /\ r.key \in KeySet /\ r # Nil
  BY EntryShapes
<1>o. o.id \in EntryIds /\ o.key \in KeySet /\ o # Nil
  BY EntryShapes
<1>m. m \in LedgerEntries /\ Alike(m, o) /\ m.reversedBy = r.id /\ m # Nil
  BY <1>r, EntryShapes DEF LedgerEntries, Alike
<1>f. /\ \A id \in EntryIds : byId[id] # Nil =>
           /\ byId[id] \in LedgerEntries /\ byId[id].id = id
           /\ byId[id].key \in KeySet /\ byKey[byId[id].key] = byId[id]
      /\ \A k \in KeySet : byKey[k] # Nil =>
           /\ byKey[k] \in LedgerEntries /\ byKey[k].key = k
           /\ byKey[k].id \in EntryIds /\ byId[byKey[k].id] = byKey[k]
  BY FoundIsPersisted DEF RepoHolds
<1>d. o.id # r.id /\ o.key # r.key /\ byKey[o.key] = o
  BY <1>o, <1>f
<1>i. /\ byId' \in [EntryIds -> LedgerEntries \cup {Nil}]
      /\ \A i \in EntryIds :
           byId'[i] = IF i = r.id THEN r ELSE IF i = o.id THEN m ELSE byId[i]
  <2>1. byId' = [byId EXCEPT ![o.id] = m, ![r.id] = r]
    BY <1>o DEF SaveReversal, RepoHolds, RepoTyped
  <2> HIDE DEF m
  <2> QED BY <2>1, <1>r, <1>o, <1>m, <1>d DEF RepoHolds, RepoTyped
<1>k. /\ byKey' \in [KeySet -> LedgerEntries \cup {Nil}]
      /\ \A k \in KeySet :
           byKey'[k] = IF k = r.key THEN r ELSE IF k = o.key THEN m ELSE byKey[k]
  <2>1. byKey' = [byKey EXCEPT ![o.key] = m, ![r.key] = r]
    BY <1>o, <1>d DEF SaveReversal, RepoHolds, RepoTyped
  <2> HIDE DEF m
  <2> QED BY <2>1, <1>r, <1>o, <1>m, <1>d DEF RepoHolds, RepoTyped
<1> HIDE DEF m
<1>a. m.id = o.id /\ m.key = o.key /\ m.lines = o.lines /\ m.reversalOf = o.reversalOf
  BY <1>m DEF Alike
<1>1. RepoTyped'
  BY <1>i, <1>k, <1>f, <1>a DEF RepoTyped
<1>2. MapsAgree'
  <2>1. ASSUME NEW i \in EntryIds, byId'[i] # Nil
        PROVE  byKey'[byId'[i].key] = byId'[i]
    <3>1. CASE i = r.id
      BY <3>1, <1>i, <1>k, <1>r
    <3>2. CASE i = o.id
      BY <3>2, <1>i, <1>k, <1>o, <1>a, <1>d
    <3>3. CASE i # r.id /\ i # o.id
      <4>1. byId'[i] = byId[i] /\ byId[i].id = i /\ byId[i].key \in KeySet
            /\ byKey[byId[i].key] = byId[i]
        BY <3>3, <2>1, <1>i, <1>f
      <4>2. byId[i].key # r.key
        BY <4>1, <2>1
      <4>3. byId[i].key # o.key
        BY <4>1, <1>d, <3>3
      <4> QED BY <4>1, <4>2, <4>3, <1>k
    <3> QED BY <3>1, <3>2, <3>3
  <2>2. ASSUME NEW k \in KeySet, byKey'[k] # Nil
        PROVE  byId'[byKey'[k].id] = byKey'[k]
    <3>1. CASE k = r.key
      BY <3>1, <1>i, <1>k, <1>r
    <3>2. CASE k = o.key
      BY <3>2, <1>i, <1>k, <1>o, <1>a, <1>d
    <3>3. CASE k # r.key /\ k # o.key
      <4>1. byKey'[k] = byKey[k] /\ byKey[k].key = k /\ byKey[k].id \in EntryIds
            /\ byId[byKey[k].id] = byKey[k]
        BY <3>3, <2>2, <1>k, <1>f
      <4>2. byKey[k].id # r.id /\ byKey[k].id # o.id
        BY <4>1, <2>2, <1>d, <3>3
      <4> QED BY <4>1, <4>2, <1>i
    <3> QED BY <3>1, <3>2, <3>3
  <2> QED BY <2>1, <2>2 DEF MapsAgree
<1>p. \A i \in EntryIds : byId[i] # Nil =>
        /\ byId[i].reversedBy # Nil =>
             /\ byId[i].reversedBy \in EntryIds
             /\ byId[byId[i].reversedBy] # Nil
             /\ byId[byId[i].reversedBy].reversalOf = i
             /\ byId[byId[i].reversedBy].lines = Mirrored(byId[i].lines)
        /\ byId[i].reversalOf # Nil =>
             /\ byId[i].reversalOf \in EntryIds
             /\ byId[byId[i].reversalOf] # Nil
             /\ byId[byId[i].reversalOf].reversedBy = i
  BY <1>f, EntryShapes DEF RepoHolds, ReversalsPair
<1>n. \A i \in EntryIds : i # Nil
  BY NilIsNone
<1>3. ReversalsPair'
  <2>1. ASSUME NEW i \in EntryIds, byId'[i] # Nil, byId'[i].reversedBy # Nil
        PROVE  LET q == byId'[i].reversedBy IN
               /\ byId'[q] # Nil /\ byId'[q].reversalOf = i
               /\ byId'[q].lines = Mirrored(byId'[i].lines)
    <3>1. i # r.id
      BY <2>1, <1>i
    <3>2. CASE i = o.id
      BY <3>1, <3>2, <1>i, <1>m, <1>a, <1>r
    <3>3. CASE i # o.id
      <4>1. byId'[i] = byId[i]
        BY <3>1, <3>3, <1>i
      <4> DEFINE q == byId[i].reversedBy
      <4>2. /\ q \in EntryIds /\ byId[q] # Nil /\ byId[q].reversalOf = i
            /\ byId[q].lines = Mirrored(byId[i].lines)
        BY <4>1, <2>1, <1>p
      <4>3. q # r.id
        BY <4>2
      <4> HIDE DEF q
      <4>4. byId'[q] # Nil /\ byId'[q].reversalOf = i
            /\ byId'[q].lines = Mirrored(byId[i].lines)
        BY <4>2, <4>3, <1>i, <1>a, <1>m
      <4> QED BY <4>1, <4>4 DEF q
    <3> QED BY <3>2, <3>3
  <2>2. ASSUME NEW i \in EntryIds, byId'[i] # Nil, byId'[i].reversalOf # Nil
        PROVE  LET q == byId'[i].reversalOf IN byId'[q] # Nil /\ byId'[q].reversedBy = i
    <3>1. CASE i = r.id
      BY <3>1, <1>i, <1>m, <1>o, <1>d
    <3>2. CASE i # r.id
      <4>1. byId[i] # Nil /\ byId'[i].reversalOf = byId[i].reversalOf
        BY <3>2, <2>2, <1>i, <1>a, <1>o
      <4> DEFINE q == byId[i].reversalOf
      <4>2. q \in EntryIds /\ byId[q] # Nil /\ byId[q].reversedBy = i
        BY <4>1, <2>2, <1>p
      <4>3. q # r.id /\ q # o.id
        BY <4>2, <1>n
      <4> HIDE DEF q
      <4>4. byId'[q] # Nil /\ byId'[q].reversedBy = i
        BY <4>2, <4>3, <1>i
      <4> QED BY <4>1, <4>4 DEF q
    <3> QED BY <3>1, <3>2
  <2> QED BY <2>1, <2>2 DEF ReversalsPair
<1>4. ASSUME NEW f \in LedgerEntries, IsPersisted(f)
      PROVE  IsPersisted(f)'
  <2>1. f.id \in EntryIds /\ byId[f.id] # Nil /\ Alike(byId[f.id], f)
    BY <1>4, EntryShapes, PersistedShape DEF RepoHolds
  <2>2. byId'[f.id] # Nil /\ Alike(byId'[f.id], f)
    BY <2>1, <1>i, <1>a, <1>m DEF Alike
  <2>3. byId'[f.id] \in LedgerEntries
    BY <2>1, <2>2, <1>i
  <2>4. [byId'[f.id] EXCEPT !.reversedBy = Nil] = [f EXCEPT !.reversedBy = Nil]
    BY <2>2, <2>3, AlikeEntries
  <2> QED BY <2>2, <2>4 DEF IsPersisted
<1>5. IsPersisted(r)'
  BY <1>r, <1>i DEF IsPersisted
<1>6. \A i \in EntryIds \ {r.id} : byId[i] = Nil => byId'[i] = Nil
  BY <1>i, <1>o
<1> QED BY <1>1, <1>2, <1>3, <1>4, <1>5, <1>6 DEF RepoHolds, EntriesAge, Books

-----------------------------------------------------------------------------
(***************************************************************************)
(* randomUUID: an id is left, because an id in use is the id of a key's    *)
(* entry, or of the entry that a key's one holder has built.               *)
(***************************************************************************)

\* At most one caller is past acquire under a key.
LEMMA OneHolderPerKey ==
  ASSUME OneHolder, NEW c \in Callers, NEW d \in Callers,
         lpc[c] \in HolderPcs, lpc[d] \in HolderPcs, ljob[c].key = ljob[d].key,
         ljob[c].key \in KeySet
  PROVE  c = d
  BY DEF OneHolder

Builds(c) == lpc[c] \in {"built", "saved"} /\ lseen[c].ok = TRUE

\* Callers whose entry is built hold different keys.
LEMMA BuildersHoldKeys ==
  ASSUME LedgerTypeOK, OneHolder
  PROVE  /\ \A c \in Callers : Builds(c) =>
              ljob[c].key \in KeySet /\ lseen[c].entry \in LedgerEntries
         /\ \A c, d \in Callers :
              Builds(c) /\ Builds(d) /\ ljob[c].key = ljob[d].key => c = d
<1>1. ASSUME NEW c \in Callers, Builds(c)
      PROVE  ljob[c].key \in KeySet /\ lseen[c].entry \in LedgerEntries
  <2>1. lpc[c] \in {"queued"} \cup HolderPcs /\ lpc[c] \in {"built", "saved"}
    BY <1>1 DEF Builds, HolderPcs
  <2>2. ljob[c] \in GuardJobs /\ lseen[c] \in Results
    BY <2>1 DEF LedgerTypeOK
  <2> QED BY <2>2, <1>1, JobShapes, ResultShapes DEF Builds
<1>2. ASSUME NEW c \in Callers, NEW d \in Callers, Builds(c), Builds(d),
             ljob[c].key = ljob[d].key
      PROVE  c = d
  <2>1. lpc[c] \in HolderPcs /\ lpc[d] \in HolderPcs
    BY <1>2 DEF Builds, HolderPcs
  <2> QED BY <2>1, <1>1, <1>2, OneHolderPerKey
<1> QED BY <1>1, <1>2

LEMMA FreshIdExists ==
  ASSUME LedgerTypeOK, MapsAgree, OneHolder
  PROVE  /\ FreshId \in EntryIds /\ byId[FreshId] = Nil
         /\ \A c \in Callers : Builds(c) => lseen[c].entry.id # FreshId
<1> DEFINE kept == {id \in EntryIds : byId[id] # Nil}
           built == {id \in EntryIds : \E c \in Callers : Builds(c) /\ lseen[c].entry.id = id}
           keyOf == [id \in kept |-> byId[id].key]
           builder(id) == CHOOSE c \in Callers : Builds(c) /\ lseen[c].entry.id = id
           heldBy == [id \in built |-> ljob[builder(id)].key]
<1>k. IsFiniteSet(KeySet) /\ IsFiniteSet(EntryIds) /\ Cardinality(KeySet) \in Nat
      /\ Cardinality(EntryIds) \in Nat
  BY EnoughIds, FS_CardinalityType
<1>1. keyOf \in Injection(kept, KeySet)
  <2>1. \A id \in kept : byId[id].key \in KeySet /\ byKey[byId[id].key] = byId[id]
                         /\ byId[id].id = id
    BY FoundIsPersisted DEF RepoTyped, LedgerTypeOK
  <2>2. \A i, j \in kept : byId[i].key = byId[j].key => i = j
    BY <2>1
  <2> QED BY <2>1, <2>2 DEF Injection, IsInjective
<1>2. heldBy \in Injection(built, KeySet)
  <2>1. ASSUME NEW id \in built
        PROVE  builder(id) \in Callers /\ Builds(builder(id))
               /\ lseen[builder(id)].entry.id = id
    BY <2>1
  <2> HIDE DEF builder, built
  <2>2. \A id \in built : ljob[builder(id)].key \in KeySet
    BY <2>1, BuildersHoldKeys
  <2>3. \A i, j \in built : ljob[builder(i)].key = ljob[builder(j)].key => i = j
    <3> TAKE i, j \in built
    <3> HAVE ljob[builder(i)].key = ljob[builder(j)].key
    <3>1. builder(i) = builder(j)
      BY <2>1, BuildersHoldKeys
    <3> QED BY <2>1, <3>1
  <2> QED BY <2>2, <2>3 DEF Injection, IsInjective
<1> HIDE DEF keyOf, heldBy, builder
<1>3. /\ IsFiniteSet(kept) /\ Cardinality(kept) <= Cardinality(KeySet)
      /\ IsFiniteSet(built) /\ Cardinality(built) <= Cardinality(KeySet)
  <2> HIDE DEF kept, built
  <2>1. IsFiniteSet(kept) /\ Cardinality(kept) <= Cardinality(KeySet)
    BY <1>1, <1>k, FS_Injection
  <2>2. IsFiniteSet(built) /\ Cardinality(built) <= Cardinality(KeySet)
    BY <1>2, <1>k, FS_Injection
  <2> QED BY <2>1, <2>2
<1>4. kept \cup built # EntryIds
  <2> HIDE DEF kept, built
  <2>1. Cardinality(kept) \in Nat /\ Cardinality(built) \in Nat
        /\ Cardinality(kept \cap built) \in Nat
    <3>1. IsFiniteSet(kept \cap built)
      BY <1>3, FS_Subset
    <3> QED BY <1>3, <3>1, FS_CardinalityType
  <2>2. Cardinality(kept \cup built)
          = Cardinality(kept) + Cardinality(built) - Cardinality(kept \cap built)
    BY <1>3, FS_Union
  <2>3. Cardinality(kept \cup built) <= 2 * Cardinality(KeySet)
    BY <2>1, <2>2, <1>3, <1>k
  <2>4. Cardinality(EntryIds) > 2 * Cardinality(KeySet)
    BY EnoughIds
  <2>5. kept \cup built = EntryIds => Cardinality(kept \cup built) = Cardinality(EntryIds)
    OBVIOUS
  <2> QED BY <2>1, <2>2, <2>3, <2>4, <2>5, <1>k
<1>5. PICK id \in EntryIds : id \notin kept \cup built
  BY <1>4
<1>6. byId[id] = Nil /\ \A c \in Callers : Builds(c) => lseen[c].entry.id # id
  BY <1>5
<1>7. FreshId = CHOOSE i \in EntryIds :
                  byId[i] = Nil /\ \A c \in Callers : Builds(c) => lseen[c].entry.id # i
  BY DEF FreshId, Builds
<1> QED BY <1>6, <1>7

\* buildEntry refuses, or grants an entry under a new id that reverses nothing.
LEMMA BuiltEntry ==
  ASSUME NEW key \in KeySet, NEW lines \in Seq(LedgerLines), FreshId \in EntryIds
  PROVE  LET built == BuildEntry(key, lines) IN
         /\ built \in Results
         /\ built.ok = TRUE =>
              /\ built.entry \in LedgerEntries
              /\ built.entry.id = FreshId /\ built.entry.key = key
              /\ built.entry.reversalOf = Nil /\ built.entry.reversedBy = Nil
<1> DEFINE built == BuildEntry(key, lines)
           e == [id |-> FreshId, key |-> key, lines |-> lines,
                 reversalOf |-> Nil, reversedBy |-> Nil]
<1>1. e \in LedgerEntries /\ e.id = FreshId /\ e.key = key
      /\ e.reversalOf = Nil /\ e.reversedBy = Nil
  BY DEF LedgerEntries
<1> HIDE DEF e
<1>2. \/ built = Granted(e)
      \/ built \in {Refused("EMPTY_LINES"), Refused("ZERO_AMOUNT"), Refused("UNBALANCED_ENTRY")}
  BY DEF BuildEntry, e
<1>3. {"EMPTY_LINES", "ZERO_AMOUNT", "UNBALANCED_ENTRY"} \subseteq LedgerErrors
  BY DEF LedgerErrors
<1> HIDE DEF built
<1>4. CASE built = Granted(e)
  BY <1>4, <1>1, ResultShapes DEF built
<1>5. CASE built # Granted(e)
  <2>1. built \in Results /\ built.ok = FALSE
    BY <1>5, <1>2, <1>3, ResultShapes
  <2> QED BY <2>1 DEF built
<1> QED BY <1>4, <1>5

-----------------------------------------------------------------------------
(***************************************************************************)
(* KeyedMutex.                                                             *)
(***************************************************************************)

\* Whom a queue holds, when one more is appended.
LEMMA AppendedQueue ==
  ASSUME NEW S, NEW q \in Seq(S), NEW c \in S, c \notin ToSet(q), IsInjective(q)
  PROVE  ToSet(Append(q, c)) = ToSet(q) \cup {c} /\ IsInjective(Append(q, c))
<1> DEFINE a == Append(q, c)
           n == Len(q)
<1>1. n \in Nat /\ DOMAIN q = 1 .. n
  OBVIOUS
<1>2. /\ DOMAIN a = 1 .. (n + 1) /\ \A i \in 1 .. n : a[i] = q[i]
      /\ a[n + 1] = c
  OBVIOUS
<1> HIDE DEF a, n
<1>3. /\ \A i \in 1 .. (n + 1) : i \in 1 .. n \/ i = n + 1
      /\ \A i \in 1 .. n : i \in 1 .. (n + 1)
      /\ n + 1 \in 1 .. (n + 1)
  BY <1>1
<1>4. ToSet(a) = ToSet(q) \cup {c}
  BY <1>1, <1>2, <1>3 DEF ToSet
<1>5. ASSUME NEW i \in DOMAIN a, NEW j \in DOMAIN a, a[i] = a[j]
      PROVE  i = j
  <2>1. \A k \in 1 .. n : a[k] # c
    BY <1>1, <1>2 DEF ToSet
  <2>2. CASE i = n + 1 \/ j = n + 1
    BY <2>1, <2>2, <1>2, <1>3, <1>5
  <2>3. CASE i \in 1 .. n /\ j \in 1 .. n
    BY <2>3, <1>1, <1>2, <1>5 DEF IsInjective
  <2> QED BY <2>2, <2>3, <1>2, <1>3
<1> QED BY <1>4, <1>5 DEF IsInjective, a

\* And when its head is taken.
LEMMA TakenQueue ==
  ASSUME NEW S, NEW q \in Seq(S), q # <<>>, IsInjective(q)
  PROVE  /\ Head(q) \in S /\ Head(q) \in ToSet(q)
         /\ ToSet(Tail(q)) = ToSet(q) \ {Head(q)} /\ IsInjective(Tail(q))
<1> DEFINE t == Tail(q)
           n == Len(q)
           h == Head(q)
<1>1. n \in Nat \ {0} /\ DOMAIN q = 1 .. n
  OBVIOUS
<1>2. /\ DOMAIN t = 1 .. (n - 1) /\ \A i \in 1 .. (n - 1) : t[i] = q[i + 1]
      /\ h = q[1] /\ h \in S
  OBVIOUS
<1> HIDE DEF t, n, h
<1>3. /\ \A i \in 1 .. n : i = 1 \/ (i - 1 \in 1 .. (n - 1) /\ (i - 1) + 1 = i)
      /\ \A i \in 1 .. (n - 1) : i + 1 \in 1 .. n /\ i + 1 # 1
      /\ 1 \in 1 .. n
  BY <1>1
<1>4. h \in ToSet(q)
  BY <1>1, <1>2, <1>3 DEF ToSet
<1>5. \A i \in 1 .. n : i # 1 => q[i] # h
  BY <1>1, <1>2, <1>3 DEF IsInjective
<1>6. ASSUME NEW x \in ToSet(q) \ {h} PROVE x \in ToSet(t)
  <2>1. PICK i \in 1 .. n : q[i] = x
    BY <1>1 DEF ToSet
  <2>2. i # 1
    BY <2>1, <1>2
  <2>3. i - 1 \in DOMAIN t /\ t[i - 1] = x
    BY <2>1, <2>2, <1>2, <1>3
  <2> QED BY <2>3 DEF ToSet
<1>7. ASSUME NEW x \in ToSet(t) PROVE x \in ToSet(q) \ {h}
  <2>1. PICK i \in 1 .. (n - 1) : t[i] = x
    BY <1>2 DEF ToSet
  <2>2. i + 1 \in DOMAIN q /\ q[i + 1] = x /\ i + 1 # 1
    BY <2>1, <1>1, <1>2, <1>3
  <2>3. x \in ToSet(q)
    BY <2>2 DEF ToSet
  <2> QED BY <2>2, <2>3, <1>1, <1>5
<1>8. ASSUME NEW i \in DOMAIN t, NEW j \in DOMAIN t, t[i] = t[j] PROVE i = j
  <2>1. i + 1 \in DOMAIN q /\ j + 1 \in DOMAIN q /\ q[i + 1] = q[j + 1]
    BY <1>1, <1>2, <1>3, <1>8
  <2>2. i + 1 = j + 1
    BY <2>1 DEF IsInjective
  <2> QED BY <2>2, <1>1, <1>2
<1> QED BY <1>2, <1>4, <1>6, <1>7, <1>8 DEF IsInjective, h, t

Inside(k) == {c \in Callers : lpc[c] \in HolderPcs /\ ljob[c].key = k}
Waiting(k) == {c \in Callers : lpc[c] = "queued" /\ ljob[c].key = k}

\* OneHolder of one key.
KeyHolds(k) ==
  /\ \A c, d \in Inside(k) : c = d
  /\ k \in held <=> Inside(k) # {}
  /\ Waiting(k) # {} => Inside(k) # {}
  /\ ToSet(queues[k]) = Waiting(k) /\ IsInjective(queues[k])

EveryKeyHolds == \A k \in KeySet : KeyHolds(k)

LEMMA MutexShape == OneHolder <=> EveryKeyHolds
  BY Zenon DEF OneHolder, EveryKeyHolds, KeyHolds, Inside, Waiting

\* A key that a step does not touch.
LEMMA KeyUntouched ==
  ASSUME NEW k \in KeySet, KeyHolds(k), Inside(k)' = Inside(k), Waiting(k)' = Waiting(k),
         k \in held' <=> k \in held, queues'[k] = queues[k]
  PROVE  KeyHolds(k)'
  BY DEF KeyHolds

\* A step of one caller that neither takes a key, waits for one nor leaves one.
LEMMA MutexMove ==
  ASSUME OneHolder, NEW c \in Callers, UNCHANGED mutexVars,
         \A d \in Callers \ {c} : lpc'[d] = lpc[d] /\ ljob'[d] = ljob[d],
         \/ /\ lpc[c] \in HolderPcs /\ lpc'[c] \in HolderPcs
            /\ ljob'[c] = ljob[c]
         \/ lpc[c] \notin {"queued"} \cup HolderPcs /\ lpc'[c] \notin {"queued"} \cup HolderPcs
  PROVE  OneHolder'
<1>1. ASSUME NEW k \in KeySet PROVE Inside(k)' = Inside(k) /\ Waiting(k)' = Waiting(k)
  BY DEF Inside, Waiting, HolderPcs
<1>2. ASSUME NEW k \in KeySet PROVE KeyHolds(k)'
  BY <1>1, KeyUntouched, MutexShape DEF mutexVars, EveryKeyHolds
<1>3. EveryKeyHolds'
  BY <1>2 DEF EveryKeyHolds
<1> QED BY <1>3, MutexShape, PTL

\* The first takes the key.
LEMMA MutexTake ==
  ASSUME OneHolder, NEW c \in Callers, NEW key \in KeySet,
         lpc[c] \notin {"queued"} \cup HolderPcs, key \notin held,
         held' = held \cup {key}, queues' = queues,
         \A d \in Callers \ {c} : lpc'[d] = lpc[d] /\ ljob'[d] = ljob[d],
         lpc'[c] = "holding", ljob'[c].key = key
  PROVE  OneHolder'
<1>1. ASSUME NEW k \in KeySet PROVE Waiting(k)' = Waiting(k)
  BY DEF Waiting
<1>2. ASSUME NEW k \in KeySet, k # key PROVE Inside(k)' = Inside(k)
  BY <1>2 DEF Inside
<1>3. Inside(key)' = Inside(key) \cup {c}
  BY DEF Inside, HolderPcs
<1>4. KeyHolds(key)
  BY MutexShape DEF EveryKeyHolds
<1>5. KeyHolds(key)'
  BY <1>1, <1>3, <1>4 DEF KeyHolds
<1>6. ASSUME NEW k \in KeySet, k # key PROVE KeyHolds(k)'
  BY <1>1, <1>2, <1>6, KeyUntouched, MutexShape DEF EveryKeyHolds
<1>7. EveryKeyHolds'
  BY <1>5, <1>6 DEF EveryKeyHolds
<1> QED BY <1>7, MutexShape, PTL

\* The others queue.
LEMMA MutexQueue ==
  ASSUME OneHolder, queues \in [KeySet -> Seq(Callers)],
         NEW c \in Callers, NEW key \in KeySet,
         lpc[c] \notin {"queued"} \cup HolderPcs, key \in held,
         held' = held, queues' = [queues EXCEPT ![key] = Append(@, c)],
         \A d \in Callers \ {c} : lpc'[d] = lpc[d] /\ ljob'[d] = ljob[d],
         lpc'[c] = "queued", ljob'[c].key = key
  PROVE  OneHolder'
<1>1. ASSUME NEW k \in KeySet PROVE Inside(k)' = Inside(k)
  BY DEF Inside, HolderPcs
<1>2. ASSUME NEW k \in KeySet, k # key
      PROVE  Waiting(k)' = Waiting(k) /\ queues'[k] = queues[k]
  BY <1>2 DEF Waiting
<1>3. Waiting(key)' = Waiting(key) \cup {c} /\ c \notin Waiting(key)
  BY DEF Waiting
<1>4. KeyHolds(key)
  BY MutexShape DEF EveryKeyHolds
<1>5. /\ ToSet(Append(queues[key], c)) = ToSet(queues[key]) \cup {c}
      /\ IsInjective(Append(queues[key], c))
  <2>1. queues[key] \in Seq(Callers)
    OBVIOUS
  <2> QED BY <2>1, <1>3, <1>4, AppendedQueue DEF KeyHolds
<1>6. queues'[key] = Append(queues[key], c)
  OBVIOUS
<1>7. KeyHolds(key)'
  BY <1>1, <1>3, <1>4, <1>5, <1>6 DEF KeyHolds
<1>8. ASSUME NEW k \in KeySet, k # key PROVE KeyHolds(k)'
  BY <1>1, <1>2, <1>8, KeyUntouched, MutexShape DEF EveryKeyHolds
<1>9. EveryKeyHolds'
  BY <1>7, <1>8 DEF EveryKeyHolds
<1> QED BY <1>9, MutexShape, PTL

\* The holder leaves, and hands the key on if somebody waits.
LEMMA MutexRelease ==
  ASSUME OneHolder, queues \in [KeySet -> Seq(Callers)], lpc \in [Callers -> LedgerPcs],
         NEW c \in Callers, NEW key \in KeySet,
         lpc[c] \in HolderPcs, ljob[c].key = key, ljob' = ljob,
         ReleaseKey(c, key)
  PROVE  /\ OneHolder'
         /\ lpc'[c] = "answered"
         /\ lpc' \in [Callers -> LedgerPcs] /\ held' \subseteq held
         /\ queues' \in [KeySet -> Seq(Callers)]
         /\ \A d \in Callers \ {c} :
              lpc'[d] = lpc[d] \/ (lpc[d] = "queued" /\ lpc'[d] = "holding")
<1>1. KeyHolds(key) /\ c \in Inside(key)
  BY MutexShape DEF Inside, EveryKeyHolds
<1>2. CASE queues[key] = <<>>
  <2>1. /\ held' = held \ {key} /\ lpc' = [lpc EXCEPT ![c] = "answered"] /\ queues' = queues
    BY <1>2 DEF ReleaseKey
  <2>2. ASSUME NEW k \in KeySet PROVE Waiting(k)' = Waiting(k)
    BY <2>1 DEF Waiting, HolderPcs
  <2>3. ASSUME NEW k \in KeySet, k # key PROVE Inside(k)' = Inside(k)
    BY <2>1, <2>3 DEF Inside
  <2>4. Inside(key)' = Inside(key) \ {c}
    BY <2>1 DEF Inside, HolderPcs
  <2>5. Waiting(key) = {}
    BY <1>1, <1>2 DEF KeyHolds, ToSet
  <2>6. KeyHolds(key)'
    BY <1>1, <2>1, <2>2, <2>4, <2>5 DEF KeyHolds
  <2>7. ASSUME NEW k \in KeySet, k # key PROVE KeyHolds(k)'
    BY <2>1, <2>2, <2>3, <2>7, KeyUntouched, MutexShape DEF EveryKeyHolds
  <2>8. EveryKeyHolds'
    BY <2>6, <2>7 DEF EveryKeyHolds
  <2>9. OneHolder'
    BY <2>8, MutexShape, PTL
  <2> QED BY <2>1, <2>9 DEF LedgerPcs
<1>3. CASE queues[key] # <<>>
  <2> DEFINE h == Head(queues[key])
  <2>1. /\ held' = held /\ queues' = [queues EXCEPT ![key] = Tail(queues[key])]
        /\ lpc' = [lpc EXCEPT ![c] = "answered", ![h] = "holding"]
    BY <1>3 DEF ReleaseKey
  <2>2. /\ h \in Callers /\ h \in ToSet(queues[key])
        /\ ToSet(Tail(queues[key])) = ToSet(queues[key]) \ {h}
        /\ IsInjective(Tail(queues[key])) /\ Tail(queues[key]) \in Seq(Callers)
    <3>1. queues[key] \in Seq(Callers) /\ Tail(queues[key]) \in Seq(Callers)
      BY <1>3
    <3> QED BY <3>1, <1>1, <1>3, TakenQueue DEF KeyHolds
  <2> HIDE DEF h
  <2>3. h \in Waiting(key) /\ lpc[h] = "queued" /\ ljob[h].key = key /\ h # c
    BY <1>1, <2>2 DEF KeyHolds, Waiting, HolderPcs
  <2>4. /\ lpc'[c] = "answered" /\ lpc'[h] = "holding" /\ lpc' \in [Callers -> LedgerPcs]
        /\ \A d \in Callers \ {c, h} : lpc'[d] = lpc[d]
    BY <2>1, <2>2, <2>3 DEF LedgerPcs
  <2>5. /\ queues'[key] = Tail(queues[key]) /\ queues' \in [KeySet -> Seq(Callers)]
        /\ \A k \in KeySet \ {key} : queues'[k] = queues[k]
    BY <2>1, <2>2
  <2>6. Inside(key)' = (Inside(key) \ {c}) \cup {h}
    BY <2>3, <2>4, <2>2 DEF Inside, HolderPcs
  <2>7. Waiting(key)' = Waiting(key) \ {h}
    BY <2>3, <2>4 DEF Waiting, HolderPcs
  <2>8. ASSUME NEW k \in KeySet, k # key
        PROVE  Inside(k)' = Inside(k) /\ Waiting(k)' = Waiting(k)
    BY <2>3, <2>4, <2>8 DEF Inside, Waiting
  <2>9. KeyHolds(key)'
    BY <1>1, <2>1, <2>2, <2>3, <2>5, <2>6, <2>7 DEF KeyHolds
  <2>10. ASSUME NEW k \in KeySet, k # key PROVE KeyHolds(k)'
    BY <2>1, <2>5, <2>8, <2>10, KeyUntouched, MutexShape DEF EveryKeyHolds
  <2>11. EveryKeyHolds'
    BY <2>9, <2>10 DEF EveryKeyHolds
  <2>12. OneHolder'
    BY <2>11, MutexShape, PTL
  <2> QED BY <2>1, <2>3, <2>4, <2>5, <2>12
<1> QED BY <1>2, <1>3

-----------------------------------------------------------------------------
(***************************************************************************)
(* The invariant, part by part.                                            *)
(***************************************************************************)

CallersTyped ==
  /\ held \subseteq KeySet
  /\ queues \in [KeySet -> Seq(Callers)]
  /\ lpc \in [Callers -> LedgerPcs]
  /\ ljob \in [Callers -> PostJobs \cup GuardJobs \cup ReverseJobs \cup {Nil}]
  /\ lseen \in [Callers -> LedgerEntries \cup Results \cup {Nil}]
  /\ lanswer \in [Callers -> Results \cup {Nil}]

\* An entry that a caller has built and not saved yet.
Pending(c) == lpc[c] = "built" /\ lseen[c].ok = TRUE

PendingDiffer ==
  \A c, d \in Callers :
    c # d /\ Pending(c) /\ Pending(d) => lseen[c].entry.id # lseen[d].entry.id

\* All that the invariant says of one caller.
CallerHolds(c) ==
  /\ lpc[c] = "post-found" => ljob[c] \in PostJobs
  /\ lpc[c] \in {"queued"} \cup HolderPcs => ljob[c] \in GuardJobs
  /\ lpc[c] \in ReversePcs => ljob[c] \in ReverseJobs
  /\ lpc[c] \in FoundPcs /\ lseen[c] # Nil =>
       /\ lseen[c] \in Books
       /\ lpc[c] = "reverse-found" => lseen[c].id = ljob[c].original
       /\ lpc[c] # "reverse-found" => lseen[c].key = ljob[c].key
  /\ lpc[c] \in {"built", "saved"} => lseen[c] \in Results
  /\ Builds(c) => lseen[c].entry.key = ljob[c].key
  /\ Pending(c) => /\ byId[lseen[c].entry.id] = Nil
                   /\ lseen[c].entry.reversalOf = Nil /\ lseen[c].entry.reversedBy = Nil
  /\ lpc[c] = "answered" =>
       ljob[c] \in PostJobs \cup GuardJobs \cup ReverseJobs /\ lanswer[c] \in Results
  /\ lpc[c] = "answered" /\ ljob[c].call # "guard" /\ lanswer[c].ok = TRUE =>
       lanswer[c].entry \in Books /\ lanswer[c].entry.key = ljob[c].key

Parts ==
  /\ CallersTyped
  /\ RepoHolds
  /\ OneHolder
  /\ PendingDiffer
  /\ \A c \in Callers : CallerHolds(c)

LEMMA PartsOfInv == LedgerInv <=> Parts
<1>1. ASSUME LedgerInv PROVE Parts
  <2>1. CallersTyped /\ RepoHolds /\ OneHolder
    BY <1>1 DEF LedgerInv, LedgerTypeOK, CallersTyped, RepoHolds, RepoTyped
  <2>2. PendingDiffer
    BY <1>1 DEF LedgerInv, BuiltAreFresh, PendingDiffer, Pending
  <2>3. ASSUME NEW c \in Callers PROVE CallerHolds(c)
    <3>1. /\ lpc[c] = "post-found" => ljob[c] \in PostJobs
          /\ lpc[c] \in {"queued"} \cup HolderPcs => ljob[c] \in GuardJobs
          /\ lpc[c] \in ReversePcs => ljob[c] \in ReverseJobs
          /\ lpc[c] \in FoundPcs => lseen[c] \in LedgerEntries \cup {Nil}
          /\ lpc[c] \in {"built", "saved"} => lseen[c] \in Results
          /\ lpc[c] = "answered" =>
               ljob[c] \in PostJobs \cup GuardJobs \cup ReverseJobs /\ lanswer[c] \in Results
      BY <1>1 DEF LedgerInv, LedgerTypeOK
    <3>2. lpc[c] \in FoundPcs /\ lseen[c] # Nil =>
            /\ IsPersisted(lseen[c])
            /\ lpc[c] = "reverse-found" => lseen[c].id = ljob[c].original
            /\ lpc[c] # "reverse-found" => lseen[c].key = ljob[c].key
      BY <1>1 DEF LedgerInv, SnapshotsHold
    <3>3. /\ Builds(c) => lseen[c].entry.key = ljob[c].key
          /\ Pending(c) => /\ byId[lseen[c].entry.id] = Nil
                           /\ lseen[c].entry.reversalOf = Nil
                           /\ lseen[c].entry.reversedBy = Nil
      BY <1>1 DEF LedgerInv, BuiltAreFresh, Builds, Pending
    <3>4. lpc[c] = "answered" /\ ljob[c].call # "guard" /\ lanswer[c].ok = TRUE =>
            lanswer[c].entry.key = ljob[c].key /\ IsPersisted(lanswer[c].entry)
      BY <1>1 DEF LedgerInv, AnswersArePersisted
    <3>5. lpc[c] = "answered" /\ lanswer[c].ok = TRUE => lanswer[c].entry \in LedgerEntries
      BY <3>1, ResultShapes
    <3> QED BY <3>1, <3>2, <3>3, <3>4, <3>5 DEF CallerHolds, Books
  <2> QED BY <2>1, <2>2, <2>3 DEF Parts
<1>2. ASSUME Parts PROVE LedgerInv
  <2>1. \A c \in Callers : CallerHolds(c)
    BY <1>2 DEF Parts
  <2>2. LedgerTypeOK
    <3>1. \A c \in Callers :
            /\ lpc[c] = "post-found" => ljob[c] \in PostJobs
            /\ lpc[c] \in {"queued"} \cup HolderPcs => ljob[c] \in GuardJobs
            /\ lpc[c] \in ReversePcs => ljob[c] \in ReverseJobs
            /\ lpc[c] \in FoundPcs => lseen[c] \in LedgerEntries \cup {Nil}
            /\ lpc[c] \in {"built", "saved"} => lseen[c] \in Results
            /\ lpc[c] = "answered" =>
                 ljob[c] \in PostJobs \cup GuardJobs \cup ReverseJobs /\ lanswer[c] \in Results
      BY <2>1 DEF CallerHolds, Books
    <3> QED BY <1>2, <3>1 DEF Parts, CallersTyped, RepoHolds, RepoTyped, LedgerTypeOK
  <2>3. SnapshotsHold
    BY <2>1 DEF CallerHolds, Books, SnapshotsHold
  <2>4. AnswersArePersisted
    <3>1. ASSUME NEW c \in Callers, lpc[c] = "answered", ljob[c].call # "guard", lanswer[c].ok
          PROVE  lanswer[c].entry.key = ljob[c].key /\ IsPersisted(lanswer[c].entry)
      <4>1. lanswer[c].ok = TRUE
        BY <3>1, <2>1, ResultShapes DEF CallerHolds
      <4> QED BY <4>1, <3>1, <2>1 DEF CallerHolds, Books
    <3> QED BY <3>1 DEF AnswersArePersisted
  <2>5. BuiltAreFresh
    <3>1. \A c \in Callers :
            lpc[c] \in {"built", "saved"} => (lseen[c].ok <=> lseen[c].ok = TRUE)
      BY <2>1, ResultShapes DEF CallerHolds
    <3>2. \A c \in Callers :
            lpc[c] \in {"built", "saved"} /\ lseen[c].ok => lseen[c].entry.key = ljob[c].key
      BY <2>1, <3>1 DEF CallerHolds, Builds
    <3>3. \A c \in Callers :
            lpc[c] = "built" /\ lseen[c].ok =>
              /\ byId[lseen[c].entry.id] = Nil
              /\ lseen[c].entry.reversalOf = Nil /\ lseen[c].entry.reversedBy = Nil
      BY <2>1, <3>1 DEF CallerHolds, Pending
    <3>4. \A c, d \in Callers :
            c # d /\ lpc[c] = "built" /\ lseen[c].ok /\ lpc[d] = "built" /\ lseen[d].ok =>
              lseen[d].entry.id # lseen[c].entry.id
      BY <1>2, <3>1 DEF Parts, PendingDiffer, Pending
    <3> QED BY <3>2, <3>3, <3>4 DEF BuiltAreFresh
  <2> QED BY <1>2, <2>2, <2>3, <2>4, <2>5 DEF Parts, RepoHolds, LedgerInv
<1> QED BY <1>1, <1>2

\* What one call of one caller comes to.
Outcome(c) ==
  /\ CallersTyped' /\ RepoHolds' /\ OneHolder'
  /\ \A d \in Callers \ {c} :
       /\ ljob'[d] = ljob[d] /\ lseen'[d] = lseen[d] /\ lanswer'[d] = lanswer[d]
       /\ lpc'[d] = lpc[d] \/ (lpc[d] = "queued" /\ lpc'[d] = "holding")
  /\ \E id : /\ EntriesAge(id)
             /\ \A d \in Callers \ {c} : Pending(d) => lseen[d].entry.id # id
  /\ CallerHolds(c)'
  /\ Pending(c)' => \A d \in Callers \ {c} : Pending(d) => lseen[d].entry.id # lseen'[c].entry.id

\* The other callers are not disturbed.
LEMMA OthersHold ==
  ASSUME NEW d \in Callers, CallerHolds(d), NEW id, EntriesAge(id),
         Pending(d) => lseen[d].entry.id # id,
         ljob'[d] = ljob[d], lseen'[d] = lseen[d], lanswer'[d] = lanswer[d],
         lpc'[d] = lpc[d] \/ (lpc[d] = "queued" /\ lpc'[d] = "holding")
  PROVE  CallerHolds(d)'
<1>1. CASE lpc[d] = "queued" /\ lpc'[d] = "holding"
  BY <1>1 DEF CallerHolds, Builds, Pending, HolderPcs, FoundPcs, ReversePcs
<1>2. CASE lpc'[d] = lpc[d]
  <2>1. Pending(d) => byId'[lseen[d].entry.id] = Nil
    <3>1. Pending(d) => lseen[d].entry \in LedgerEntries
      BY ResultShapes DEF CallerHolds, Pending
    <3>2. Pending(d) => lseen[d].entry.id \in EntryIds \ {id}
      BY <3>1, EntryShapes
    <3> QED BY <3>2 DEF CallerHolds, EntriesAge
  <2>2. Books \subseteq Books'
    BY DEF EntriesAge
  <2>3. (Pending(d)' <=> Pending(d)) /\ (Builds(d)' <=> Builds(d))
    BY <1>2 DEF Pending, Builds
  <2> QED BY <1>2, <2>1, <2>2, <2>3 DEF CallerHolds
<1> QED BY <1>1, <1>2

LEMMA OutcomeKeeps ==
  ASSUME Parts, NEW c \in Callers, Outcome(c)
  PROVE  Parts'
<1>1. PICK id : /\ EntriesAge(id)
                /\ \A d \in Callers \ {c} : Pending(d) => lseen[d].entry.id # id
  BY DEF Outcome
<1>2. \A d \in Callers \ {c} :
        /\ ljob'[d] = ljob[d] /\ lseen'[d] = lseen[d] /\ lanswer'[d] = lanswer[d]
        /\ lpc'[d] = lpc[d] \/ (lpc[d] = "queued" /\ lpc'[d] = "holding")
  BY DEF Outcome
<1>3. ASSUME NEW d \in Callers \ {c} PROVE CallerHolds(d)'
  <2>1. CallerHolds(d)
    BY DEF Parts
  <2> QED BY <1>1, <1>2, <2>1, OthersHold
<1>4. PendingDiffer'
  <2>1. \A d \in Callers \ {c} : Pending(d)' => Pending(d)
    BY <1>2 DEF Pending
  <2>2. Pending(c)' => \A d \in Callers \ {c} : Pending(d) => lseen[d].entry.id # lseen'[c].entry.id
    BY DEF Outcome
  <2> QED BY <1>2, <2>1, <2>2 DEF PendingDiffer, Parts
<1>5. CallerHolds(c)'
  BY DEF Outcome
<1> QED BY <1>3, <1>4, <1>5 DEF Parts, Outcome

-----------------------------------------------------------------------------
(***************************************************************************)
(* The steps.                                                              *)
(***************************************************************************)

\* A step that does nothing to the repository.
LEMMA QuietOutcome ==
  ASSUME Parts, NEW c \in Callers, UNCHANGED repoVars,
         CallersTyped', OneHolder', CallerHolds(c)',
         Pending(c)' => \A d \in Callers \ {c} : Pending(d) => lseen[d].entry.id # lseen'[c].entry.id,
         \A d \in Callers \ {c} :
           /\ ljob'[d] = ljob[d] /\ lseen'[d] = lseen[d] /\ lanswer'[d] = lanswer[d]
           /\ lpc'[d] = lpc[d] \/ (lpc[d] = "queued" /\ lpc'[d] = "holding")
  PROVE  Outcome(c)
<1>1. RepoHolds' /\ EntriesAge(Nil)
  BY RepoUnchanged DEF Parts
<1>2. ASSUME NEW d \in Callers, Pending(d) PROVE lseen[d].entry.id # Nil
  <2>1. lseen[d] \in Results /\ lseen[d].ok = TRUE
    BY <1>2 DEF Parts, CallerHolds, Pending
  <2>2. lseen[d].entry.id \in EntryIds
    BY <2>1, ResultShapes, EntryShapes
  <2> QED BY <2>2, NilIsNone
<1> QED BY <1>1, <1>2 DEF Outcome

\* What is in the books stays there when the repository is left alone.
LEMMA BooksStay ==
  ASSUME UNCHANGED repoVars
  PROVE  Books' = Books
  BY DEF Books, IsPersisted, repoVars

\* A caller is answered, and holds no key.
LEMMA AnswerOutcome ==
  ASSUME Parts, NEW c \in Callers, NEW result \in Results, NEW id,
         lpc[c] \notin {"queued"} \cup HolderPcs,
         ljob[c] \in PostJobs \cup GuardJobs \cup ReverseJobs,
         LedgerAnswer(c, result), UNCHANGED mutexVars,
         RepoHolds', EntriesAge(id),
         \A d \in Callers \ {c} : Pending(d) => lseen[d].entry.id # id,
         result.ok = TRUE => result.entry \in Books' /\ result.entry.key = ljob[c].key
  PROVE  Outcome(c)
<1>1. /\ lpc' = [lpc EXCEPT ![c] = "answered"] /\ lanswer' = [lanswer EXCEPT ![c] = result]
      /\ lseen' = [lseen EXCEPT ![c] = Nil] /\ ljob' = ljob
  BY DEF LedgerAnswer, Answered
<1>2. CallersTyped
  BY DEF Parts
<1>3. CallersTyped'
  BY <1>1, <1>2 DEF CallersTyped, mutexVars, LedgerPcs
<1>4. /\ \A d \in Callers \ {c} :
           /\ ljob'[d] = ljob[d] /\ lseen'[d] = lseen[d] /\ lanswer'[d] = lanswer[d]
           /\ lpc'[d] = lpc[d]
      /\ lpc'[c] = "answered" /\ lanswer'[c] = result /\ ljob'[c] = ljob[c]
  BY <1>1, <1>2 DEF CallersTyped
<1>5. OneHolder'
  BY <1>4, MutexMove DEF Parts, HolderPcs
<1>6. CallerHolds(c)' /\ ~Pending(c)'
  BY <1>4 DEF CallerHolds, Pending, Builds, HolderPcs, FoundPcs, ReversePcs
<1> QED BY <1>3, <1>4, <1>5, <1>6 DEF Outcome

\* The same, of a step that does nothing to the repository.
LEMMA QuietAnswer ==
  ASSUME Parts, NEW c \in Callers, NEW result \in Results,
         lpc[c] \notin {"queued"} \cup HolderPcs,
         ljob[c] \in PostJobs \cup GuardJobs \cup ReverseJobs,
         LedgerAnswer(c, result), UNCHANGED mutexVars, UNCHANGED repoVars,
         result.ok = TRUE => result.entry \in Books /\ result.entry.key = ljob[c].key
  PROVE  Outcome(c)
<1>1. RepoHolds' /\ EntriesAge(Nil)
  BY RepoUnchanged DEF Parts
<1>2. ASSUME NEW d \in Callers, Pending(d) PROVE lseen[d].entry.id # Nil
  <2>1. lseen[d] \in Results /\ lseen[d].ok = TRUE
    BY <1>2 DEF Parts, CallerHolds, Pending
  <2>2. lseen[d].entry.id \in EntryIds
    BY <2>1, ResultShapes, EntryShapes
  <2> QED BY <2>2, NilIsNone
<1> QED BY <1>1, <1>2, BooksStay, AnswerOutcome

\* A holder is answered, and its key is released.
LEMMA ReturnOutcome ==
  ASSUME Parts, NEW c \in Callers, NEW result \in Results, lpc[c] \in HolderPcs,
         GuardReturn(c, result), UNCHANGED repoVars
  PROVE  Outcome(c)
<1>1. ljob[c] \in GuardJobs
  BY DEF Parts, CallerHolds
<1>2. PICK key \in KeySet : key = ljob[c].key
  BY <1>1, JobShapes
<1>3. /\ ReleaseKey(c, key) /\ lanswer' = [lanswer EXCEPT ![c] = result]
      /\ lseen' = [lseen EXCEPT ![c] = Nil] /\ ljob' = ljob
  BY <1>2 DEF GuardReturn, Answered
<1>4. CallersTyped
  BY DEF Parts
<1>5. /\ OneHolder' /\ lpc'[c] = "answered"
      /\ lpc' \in [Callers -> LedgerPcs] /\ held' \subseteq held
      /\ queues' \in [KeySet -> Seq(Callers)]
      /\ \A d \in Callers \ {c} :
           lpc'[d] = lpc[d] \/ (lpc[d] = "queued" /\ lpc'[d] = "holding")
  BY <1>2, <1>3, <1>4, MutexRelease DEF Parts, CallersTyped
<1>6. CallersTyped'
  BY <1>3, <1>4, <1>5 DEF CallersTyped
<1>7. /\ \A d \in Callers \ {c} :
           ljob'[d] = ljob[d] /\ lseen'[d] = lseen[d] /\ lanswer'[d] = lanswer[d]
      /\ lanswer'[c] = result /\ ljob'[c] = ljob[c]
  BY <1>3, <1>4 DEF CallersTyped
<1>8. ljob[c].call = "guard"
  BY <1>1, JobShapes
<1>9. CallerHolds(c)' /\ ~Pending(c)'
  BY <1>1, <1>5, <1>7, <1>8 DEF CallerHolds, Pending, Builds, HolderPcs, FoundPcs, ReversePcs
<1> QED BY <1>5, <1>6, <1>7, <1>9, QuietOutcome

LEMMA PostCallOutcome ==
  ASSUME Parts, NEW c \in Callers, PostCall(c)
  PROVE  Outcome(c)
<1>1. PICK command \in PostCommands :
        LedgerCall(c, [call |-> "post", key |-> command.key, lines |-> command.lines],
                   "post-found", byKey[command.key])
  BY DEF PostCall
<1> DEFINE key == command.key
           job == [call |-> "post", key |-> command.key, lines |-> command.lines]
<1>2. key \in KeySet /\ command.lines \in Seq(LedgerLines)
  BY LedgerCommands
<1>3. job \in PostJobs /\ job.key = key
  BY <1>2 DEF PostJobs
<1>4. /\ lpc[c] = "idle" /\ lpc' = [lpc EXCEPT ![c] = "post-found"]
      /\ ljob' = [ljob EXCEPT ![c] = job] /\ lseen' = [lseen EXCEPT ![c] = byKey[key]]
      /\ lanswer' = lanswer /\ UNCHANGED repoVars /\ UNCHANGED mutexVars
  BY <1>1 DEF LedgerCall, PostCall
<1> HIDE DEF key, job
<1>5. byKey[key] # Nil => byKey[key] \in Books /\ byKey[key] \in LedgerEntries /\ byKey[key].key = key
  BY <1>2, FoundIsPersisted DEF Parts, RepoHolds
<1>6. CallersTyped
  BY DEF Parts
<1>7. CallersTyped'
  BY <1>3, <1>4, <1>5, <1>6 DEF CallersTyped, mutexVars, LedgerPcs
<1>8. /\ \A d \in Callers \ {c} :
           /\ ljob'[d] = ljob[d] /\ lseen'[d] = lseen[d] /\ lanswer'[d] = lanswer[d]
           /\ lpc'[d] = lpc[d]
      /\ lpc'[c] = "post-found" /\ ljob'[c] = job /\ lseen'[c] = byKey[key]
  BY <1>4, <1>6 DEF CallersTyped
<1>9. OneHolder'
  BY <1>4, <1>8, MutexMove DEF Parts, HolderPcs
<1>10. CallerHolds(c)' /\ ~Pending(c)'
  <2>1. Books' = Books
    BY <1>4, BooksStay
  <2> QED BY <2>1, <1>3, <1>5, <1>8 DEF CallerHolds, Pending, Builds, HolderPcs, FoundPcs, ReversePcs
<1> QED BY <1>4, <1>7, <1>8, <1>9, <1>10, QuietOutcome

LEMMA PostSaveOutcome ==
  ASSUME Parts, NEW c \in Callers, PostSave(c)
  PROVE  Outcome(c)
<1>1. lpc[c] = "post-found" /\ ljob[c] \in PostJobs /\ UNCHANGED mutexVars
  BY DEF PostSave, Parts, CallerHolds
<1>2. PICK key \in KeySet, lines \in Seq(LedgerLines) : key = ljob[c].key /\ lines = ljob[c].lines
  BY <1>1, JobShapes
<1>3. PICK b : b = BuildEntry(key, lines)
  OBVIOUS
<1>4. PICK fresh : fresh = FreshId
  OBVIOUS
<1>5. /\ fresh \in EntryIds /\ byId[fresh] = Nil
      /\ \A d \in Callers : Builds(d) => lseen[d].entry.id # fresh
  <2>1. LedgerTypeOK /\ MapsAgree /\ OneHolder
    BY PartsOfInv DEF LedgerInv
  <2> QED BY <2>1, <1>4, FreshIdExists
<1>6. /\ b \in Results
      /\ b.ok = TRUE => /\ b.entry \in LedgerEntries
                        /\ b.entry.id = fresh /\ b.entry.key = key
                        /\ b.entry.reversalOf = Nil /\ b.entry.reversedBy = Nil
  BY <1>3, <1>4, <1>5, BuiltEntry
<1>7. lpc[c] \notin {"queued"} \cup HolderPcs
  BY <1>1 DEF HolderPcs
<1>8. CASE lseen[c] # Nil /\ LedgerAnswer(c, Granted(lseen[c])) /\ UNCHANGED repoVars
  <2>1. PICK e : e = lseen[c]
    OBVIOUS
  <2>2. e \in Books /\ e \in LedgerEntries /\ e.key = key
    BY <2>1, <1>1, <1>2, <1>8 DEF Parts, CallerHolds, FoundPcs, Books
  <2>3. Granted(e) \in Results /\ Granted(e).entry = e
    BY <2>2, ResultShapes
  <2> QED BY <1>1, <1>2, <1>7, <1>8, <2>1, <2>2, <2>3, QuietAnswer
<1>9. CASE ~b.ok /\ LedgerAnswer(c, b) /\ UNCHANGED repoVars
  <2>1. b.ok # TRUE
    BY <1>9
  <2> QED BY <1>1, <1>6, <1>7, <1>9, <2>1, QuietAnswer
<1>10. CASE b.ok /\ SaveEntry(b.entry) /\ LedgerAnswer(c, Granted(Persisted(b.entry)))
  <2>1. b.ok = TRUE
    BY <1>6, <1>10, ResultShapes
  <2>2. PICK e \in LedgerEntries : /\ e = b.entry /\ e.id = fresh /\ e.key = key
                                   /\ e.reversalOf = Nil /\ e.reversedBy = Nil
    BY <2>1, <1>6
  <2>3. CASE byKey[key] = Nil
    <3>1. Put(e)
      BY <2>2, <2>3, <1>10 DEF SaveEntry
    <3>2. RepoHolds' /\ EntriesAge(fresh) /\ e \in Books'
      BY <3>1, <2>2, <2>3, <1>5, PutKeepsRepo DEF Parts
    <3>3. LedgerAnswer(c, Granted(e))
      BY <1>10, <2>2, <2>3 DEF Persisted
    <3>4. Granted(e) \in Results /\ Granted(e).entry = e
      BY ResultShapes
    <3>5. \A d \in Callers \ {c} : Pending(d) => lseen[d].entry.id # fresh
      BY <1>5 DEF Pending, Builds
    <3> QED BY <1>1, <1>2, <1>7, <2>2, <3>2, <3>3, <3>4, <3>5, AnswerOutcome
  <2>4. CASE byKey[key] # Nil
    <3>1. PICK f : f = byKey[key]
      OBVIOUS
    <3>2. f \in LedgerEntries /\ f \in Books /\ f.key = key
      BY <3>1, <2>4, FoundIsPersisted DEF Parts, RepoHolds
    <3>3. LedgerAnswer(c, Granted(f)) /\ UNCHANGED repoVars
      BY <1>10, <2>2, <2>4, <3>1 DEF Persisted, SaveEntry
    <3>4. Granted(f) \in Results /\ Granted(f).entry = f
      BY <3>2, ResultShapes
    <3> QED BY <1>1, <1>2, <1>7, <3>2, <3>3, <3>4, QuietAnswer
  <2> QED BY <2>3, <2>4
<1> QED BY <1>2, <1>3, <1>8, <1>9, <1>10 DEF PostSave

LEMMA GuardAcquireOutcome ==
  ASSUME Parts, NEW c \in Callers, GuardAcquire(c)
  PROVE  Outcome(c)
<1>1. PICK command \in GuardCommands :
        LET key == command.key
            job == [call |-> "guard", key |-> key, lines |-> command.lines]
        IN \/ /\ key \notin held
              /\ held' = held \cup {key}
              /\ LedgerCall(c, job, "holding", Nil)
              /\ UNCHANGED queues
           \/ /\ key \in held
              /\ queues' = [queues EXCEPT ![key] = Append(@, c)]
              /\ LedgerCall(c, job, "queued", Nil)
              /\ UNCHANGED held
  BY DEF GuardAcquire
<1> DEFINE key == command.key
           job == [call |-> "guard", key |-> key, lines |-> command.lines]
<1>2. key \in KeySet /\ command.lines \in Seq(LedgerLines)
  BY LedgerCommands
<1>3. job \in GuardJobs /\ job.key = key
  BY <1>2 DEF GuardJobs
<1>4. /\ lpc[c] = "idle" /\ ljob' = [ljob EXCEPT ![c] = job]
      /\ lseen' = [lseen EXCEPT ![c] = Nil] /\ lanswer' = lanswer /\ UNCHANGED repoVars
  BY <1>1 DEF LedgerCall, GuardAcquire
<1>5. \/ /\ key \notin held /\ held' = held \cup {key} /\ queues' = queues
         /\ lpc' = [lpc EXCEPT ![c] = "holding"]
      \/ /\ key \in held /\ held' = held /\ queues' = [queues EXCEPT ![key] = Append(@, c)]
         /\ lpc' = [lpc EXCEPT ![c] = "queued"]
  BY <1>1 DEF LedgerCall
<1> HIDE DEF key, job
<1>6. CallersTyped
  BY DEF Parts
<1>7. /\ \A d \in Callers \ {c} :
           /\ ljob'[d] = ljob[d] /\ lseen'[d] = lseen[d] /\ lanswer'[d] = lanswer[d]
           /\ lpc'[d] = lpc[d]
      /\ ljob'[c] = job /\ lseen'[c] = Nil
      /\ lpc'[c] \in {"holding", "queued"}
  BY <1>4, <1>5, <1>6 DEF CallersTyped
<1>8. /\ ljob' \in [Callers -> PostJobs \cup GuardJobs \cup ReverseJobs \cup {Nil}]
      /\ lseen' \in [Callers -> LedgerEntries \cup Results \cup {Nil}]
      /\ lanswer' \in [Callers -> Results \cup {Nil}]
      /\ lpc' \in [Callers -> LedgerPcs]
  BY <1>3, <1>4, <1>5, <1>6 DEF CallersTyped, LedgerPcs
<1>9. CallerHolds(c)' /\ ~Pending(c)'
  BY <1>3, <1>7 DEF CallerHolds, Pending, Builds, HolderPcs, FoundPcs, ReversePcs
<1>10. lpc[c] \notin {"queued"} \cup HolderPcs
  BY <1>4 DEF HolderPcs
<1>11. OneHolder' /\ CallersTyped'
  <2>1. CASE key \notin held /\ held' = held \cup {key} /\ queues' = queues
             /\ lpc' = [lpc EXCEPT ![c] = "holding"]
    <3>1. lpc'[c] = "holding"
      BY <2>1, <1>6 DEF CallersTyped
    <3>2. OneHolder'
      BY <3>1, <2>1, <1>2, <1>3, <1>7, <1>10, MutexTake DEF Parts
    <3> QED BY <3>2, <2>1, <1>2, <1>6, <1>8 DEF CallersTyped
  <2>2. CASE key \in held /\ held' = held /\ queues' = [queues EXCEPT ![key] = Append(@, c)]
             /\ lpc' = [lpc EXCEPT ![c] = "queued"]
    <3>1. lpc'[c] = "queued"
      BY <2>2, <1>6 DEF CallersTyped
    <3>2. OneHolder'
      BY <3>1, <2>2, <1>2, <1>3, <1>6, <1>7, <1>10, MutexQueue DEF Parts, CallersTyped
    <3>3. queues' \in [KeySet -> Seq(Callers)]
      BY <2>2, <1>2, <1>6 DEF CallersTyped
    <3> QED BY <3>2, <3>3, <2>2, <1>6, <1>8 DEF CallersTyped
  <2> QED BY <1>5, <2>1, <2>2
<1> QED BY <1>4, <1>7, <1>9, <1>11, QuietOutcome

LEMMA GuardFindOutcome ==
  ASSUME Parts, NEW c \in Callers, GuardFind(c)
  PROVE  Outcome(c)
<1>1. lpc[c] = "holding" /\ ljob[c] \in GuardJobs
  BY DEF GuardFind, Parts, CallerHolds, HolderPcs
<1>2. PICK key \in KeySet : key = ljob[c].key
  BY <1>1, JobShapes
<1>3. /\ lpc' = [lpc EXCEPT ![c] = "guard-found"] /\ ljob' = ljob /\ lanswer' = lanswer
      /\ lseen' = [lseen EXCEPT ![c] = byKey[key]] /\ UNCHANGED repoVars /\ UNCHANGED mutexVars
  BY <1>2 DEF GuardFind, LedgerGoto
<1>4. byKey[key] # Nil => byKey[key] \in Books /\ byKey[key] \in LedgerEntries /\ byKey[key].key = key
  BY <1>2, FoundIsPersisted DEF Parts, RepoHolds
<1>5. CallersTyped
  BY DEF Parts
<1>6. CallersTyped'
  BY <1>3, <1>4, <1>5 DEF CallersTyped, mutexVars, LedgerPcs
<1>7. /\ \A d \in Callers \ {c} :
           /\ ljob'[d] = ljob[d] /\ lseen'[d] = lseen[d] /\ lanswer'[d] = lanswer[d]
           /\ lpc'[d] = lpc[d]
      /\ lpc'[c] = "guard-found" /\ ljob'[c] = ljob[c] /\ lseen'[c] = byKey[key]
  BY <1>3, <1>5 DEF CallersTyped
<1>8. OneHolder'
  BY <1>1, <1>3, <1>7, MutexMove DEF Parts, HolderPcs
<1>9. CallerHolds(c)' /\ ~Pending(c)'
  <2>1. Books' = Books
    BY <1>3, BooksStay
  <2> QED BY <2>1, <1>1, <1>2, <1>4, <1>7
          DEF CallerHolds, Pending, Builds, HolderPcs, FoundPcs, ReversePcs
<1> QED BY <1>3, <1>6, <1>7, <1>8, <1>9, QuietOutcome

LEMMA GuardOperateOutcome ==
  ASSUME Parts, NEW c \in Callers, GuardOperate(c)
  PROVE  Outcome(c)
<1>1. /\ lpc[c] = "guard-found" /\ lpc[c] \in HolderPcs /\ ljob[c] \in GuardJobs
      /\ UNCHANGED repoVars
  BY DEF GuardOperate, Parts, CallerHolds, HolderPcs
<1>2. PICK key \in KeySet, lines \in Seq(LedgerLines) : key = ljob[c].key /\ lines = ljob[c].lines
  BY <1>1, JobShapes
<1>3. CASE lseen[c] # Nil /\ GuardReturn(c, Granted(lseen[c]))
  <2>1. PICK e : e = lseen[c]
    OBVIOUS
  <2>2. e \in LedgerEntries
    BY <2>1, <1>1, <1>3 DEF Parts, CallerHolds, FoundPcs, Books
  <2>3. Granted(e) \in Results
    BY <2>2, ResultShapes
  <2> QED BY <1>1, <1>3, <2>1, <2>3, ReturnOutcome
<1>4. CASE GuardReturn(c, Refused("REJECTED"))
  <2>1. Refused("REJECTED") \in Results
    BY ResultShapes DEF LedgerErrors
  <2> QED BY <1>1, <1>4, <2>1, ReturnOutcome
<1>5. CASE /\ LedgerGoto(c, "built")
           /\ lseen' = [lseen EXCEPT ![c] = BuildEntry(key, lines)]
           /\ UNCHANGED mutexVars
  <2>1. PICK b : b = BuildEntry(key, lines)
    OBVIOUS
  <2>2. PICK fresh : fresh = FreshId
    OBVIOUS
  <2>3. /\ fresh \in EntryIds /\ byId[fresh] = Nil
        /\ \A d \in Callers : Builds(d) => lseen[d].entry.id # fresh
    <3>1. LedgerTypeOK /\ MapsAgree /\ OneHolder
      BY PartsOfInv DEF LedgerInv
    <3> QED BY <3>1, <2>2, FreshIdExists
  <2>4. /\ b \in Results
        /\ b.ok = TRUE => /\ b.entry \in LedgerEntries
                          /\ b.entry.id = fresh /\ b.entry.key = key
                          /\ b.entry.reversalOf = Nil /\ b.entry.reversedBy = Nil
    BY <2>1, <2>2, <2>3, BuiltEntry
  <2>5. /\ lpc' = [lpc EXCEPT ![c] = "built"] /\ ljob' = ljob /\ lanswer' = lanswer
        /\ lseen' = [lseen EXCEPT ![c] = b]
    BY <1>5, <2>1 DEF LedgerGoto
  <2>6. CallersTyped
    BY DEF Parts
  <2>7. CallersTyped'
    BY <1>5, <2>4, <2>5, <2>6 DEF CallersTyped, mutexVars, LedgerPcs
  <2>8. /\ \A d \in Callers \ {c} :
             /\ ljob'[d] = ljob[d] /\ lseen'[d] = lseen[d] /\ lanswer'[d] = lanswer[d]
             /\ lpc'[d] = lpc[d]
        /\ lpc'[c] = "built" /\ ljob'[c] = ljob[c] /\ lseen'[c] = b
    BY <2>5, <2>6 DEF CallersTyped
  <2>9. OneHolder'
    BY <1>1, <1>5, <2>8, MutexMove DEF Parts, HolderPcs
  <2>10. CallerHolds(c)'
    <3>1. byId' = byId
      BY <1>1 DEF repoVars
    <3>2. /\ lseen'[c] \in Results /\ ljob'[c] \in GuardJobs
          /\ lseen'[c].ok = TRUE =>
               /\ lseen'[c].entry.key = ljob'[c].key
               /\ byId'[lseen'[c].entry.id] = Nil
               /\ lseen'[c].entry.reversalOf = Nil /\ lseen'[c].entry.reversedBy = Nil
      BY <3>1, <1>1, <1>2, <2>3, <2>4, <2>8
    <3> QED BY <3>2, <2>8 DEF CallerHolds, Pending, Builds, HolderPcs, FoundPcs, ReversePcs
  <2>11. Pending(c)' => \A d \in Callers \ {c} : Pending(d) => lseen[d].entry.id # lseen'[c].entry.id
    BY <2>3, <2>4, <2>8 DEF Pending, Builds
  <2> QED BY <1>1, <2>7, <2>8, <2>9, <2>10, <2>11, QuietOutcome
<1> QED BY <1>2, <1>3, <1>4, <1>5 DEF GuardOperate

LEMMA GuardSaveOutcome ==
  ASSUME Parts, NEW c \in Callers, GuardSave(c)
  PROVE  Outcome(c)
<1>1. /\ lpc[c] = "built" /\ lpc[c] \in HolderPcs /\ ljob[c] \in GuardJobs
      /\ lseen[c] \in Results
  BY DEF GuardSave, Parts, CallerHolds, HolderPcs
<1>2. PICK b \in Results : b = lseen[c]
  BY <1>1
<1>3. CASE GuardReturn(c, lseen[c]) /\ UNCHANGED repoVars
  BY <1>1, <1>2, <1>3, ReturnOutcome
<1>4. CASE b.ok /\ SaveEntry(b.entry) /\ LedgerGoto(c, "saved") /\ UNCHANGED <<lseen, mutexVars>>
  <2>1. b.ok = TRUE /\ Pending(c) /\ Builds(c)
    <3>1. b.ok = TRUE
      BY <1>4, ResultShapes
    <3> QED BY <3>1, <1>1, <1>2 DEF Pending, Builds
  <2>2. PICK e \in LedgerEntries : e = b.entry
    BY <2>1, ResultShapes
  <2>3. /\ byId[e.id] = Nil /\ e.reversalOf = Nil /\ e.reversedBy = Nil
        /\ e.key = ljob[c].key
    BY <2>1, <2>2, <1>2 DEF Parts, CallerHolds
  <2>4. \A d \in Callers \ {c} : Pending(d) => lseen[d].entry.id # e.id
    BY <2>1, <2>2, <1>2 DEF Parts, PendingDiffer
  <2>5. RepoHolds' /\ EntriesAge(e.id)
    <3>1. CASE byKey[e.key] = Nil /\ Put(e)
      BY <3>1, <2>3, PutKeepsRepo DEF Parts
    <3>2. CASE UNCHANGED repoVars
      BY <3>2, RepoUnchanged DEF Parts
    <3> QED BY <3>1, <3>2, <1>4, <2>2 DEF SaveEntry
  <2>6. lpc' = [lpc EXCEPT ![c] = "saved"] /\ ljob' = ljob /\ lanswer' = lanswer /\ lseen' = lseen
    BY <1>4 DEF LedgerGoto
  <2>7. CallersTyped
    BY DEF Parts
  <2>8. CallersTyped'
    BY <1>4, <2>6, <2>7 DEF CallersTyped, mutexVars, LedgerPcs
  <2>9. /\ \A d \in Callers \ {c} :
             /\ ljob'[d] = ljob[d] /\ lseen'[d] = lseen[d] /\ lanswer'[d] = lanswer[d]
             /\ lpc'[d] = lpc[d]
        /\ lpc'[c] = "saved" /\ ljob'[c] = ljob[c] /\ lseen'[c] = lseen[c]
    BY <2>6, <2>7 DEF CallersTyped
  <2>10. OneHolder'
    BY <1>1, <1>4, <2>9, MutexMove DEF Parts, HolderPcs
  <2>11. CallerHolds(c)' /\ ~Pending(c)'
    BY <1>1, <1>2, <2>2, <2>3, <2>9
       DEF CallerHolds, Pending, Builds, HolderPcs, FoundPcs, ReversePcs
  <2> QED BY <2>4, <2>5, <2>8, <2>9, <2>10, <2>11 DEF Outcome
<1> QED BY <1>2, <1>3, <1>4 DEF GuardSave

LEMMA GuardReleaseOutcome ==
  ASSUME Parts, NEW c \in Callers, GuardRelease(c)
  PROVE  Outcome(c)
<1>1. /\ lpc[c] = "saved" /\ lpc[c] \in HolderPcs /\ lseen[c] \in Results
      /\ UNCHANGED repoVars /\ GuardReturn(c, lseen[c])
  BY DEF GuardRelease, Parts, CallerHolds, HolderPcs
<1>2. PICK b \in Results : b = lseen[c]
  BY <1>1
<1> QED BY <1>1, <1>2, ReturnOutcome

LEMMA ReverseCallOutcome ==
  ASSUME Parts, NEW c \in Callers, ReverseCall(c)
  PROVE  Outcome(c)
<1>1. PICK key \in KeySet, id \in {e \in EntryIds : byId[e] # Nil} \cup {Nil} :
        LedgerCall(c, [call |-> "reverse", key |-> key, original |-> id],
                   "reverse-lookup", byKey[key])
  BY DEF ReverseCall
<1> DEFINE job == [call |-> "reverse", key |-> key, original |-> id]
<1>2. job \in ReverseJobs /\ job.key = key
  BY DEF ReverseJobs
<1>3. /\ lpc[c] = "idle" /\ lpc' = [lpc EXCEPT ![c] = "reverse-lookup"]
      /\ ljob' = [ljob EXCEPT ![c] = job] /\ lseen' = [lseen EXCEPT ![c] = byKey[key]]
      /\ lanswer' = lanswer /\ UNCHANGED repoVars /\ UNCHANGED mutexVars
  BY <1>1 DEF LedgerCall, ReverseCall
<1> HIDE DEF job
<1>4. byKey[key] # Nil => byKey[key] \in Books /\ byKey[key] \in LedgerEntries /\ byKey[key].key = key
  BY FoundIsPersisted DEF Parts, RepoHolds
<1>5. CallersTyped
  BY DEF Parts
<1>6. CallersTyped'
  BY <1>2, <1>3, <1>4, <1>5 DEF CallersTyped, mutexVars, LedgerPcs
<1>7. /\ \A d \in Callers \ {c} :
           /\ ljob'[d] = ljob[d] /\ lseen'[d] = lseen[d] /\ lanswer'[d] = lanswer[d]
           /\ lpc'[d] = lpc[d]
      /\ lpc'[c] = "reverse-lookup" /\ ljob'[c] = job /\ lseen'[c] = byKey[key]
  BY <1>3, <1>5 DEF CallersTyped
<1>8. OneHolder'
  BY <1>3, <1>7, MutexMove DEF Parts, HolderPcs
<1>9. CallerHolds(c)' /\ ~Pending(c)'
  <2>1. Books' = Books
    BY <1>3, BooksStay
  <2> QED BY <2>1, <1>2, <1>4, <1>7 DEF CallerHolds, Pending, Builds, HolderPcs, FoundPcs, ReversePcs
<1> QED BY <1>3, <1>6, <1>7, <1>8, <1>9, QuietOutcome

LEMMA ReverseFindOutcome ==
  ASSUME Parts, NEW c \in Callers, ReverseFind(c)
  PROVE  Outcome(c)
<1>1. /\ lpc[c] = "reverse-lookup" /\ ljob[c] \in ReverseJobs
      /\ UNCHANGED repoVars /\ UNCHANGED mutexVars
  BY DEF ReverseFind, Parts, CallerHolds, ReversePcs
<1>2. PICK key \in KeySet, original \in EntryIds \cup {Nil} :
        key = ljob[c].key /\ original = ljob[c].original
  BY <1>1, JobShapes
<1>3. CASE lseen[c] # Nil /\ LedgerAnswer(c, Granted(lseen[c]))
  <2>1. PICK e : e = lseen[c]
    OBVIOUS
  <2>2. e \in Books /\ e \in LedgerEntries /\ e.key = key
    BY <2>1, <1>1, <1>2, <1>3 DEF Parts, CallerHolds, FoundPcs, ReversePcs, Books
  <2>3. Granted(e) \in Results /\ Granted(e).entry = e
    BY <2>2, ResultShapes
  <2>4. lpc[c] \notin {"queued"} \cup HolderPcs
    BY <1>1 DEF HolderPcs
  <2> QED BY <1>1, <1>2, <1>3, <2>1, <2>2, <2>3, <2>4, QuietAnswer
<1>4. CASE LedgerGoto(c, "reverse-found") /\ lseen' = [lseen EXCEPT ![c] = Lookup(original)]
  <2>1. PICK f : f = Lookup(original)
    OBVIOUS
  <2>2. f # Nil => f \in Books /\ f \in LedgerEntries /\ f.id = original
    BY <2>1, FoundIsPersisted DEF Lookup, Parts, RepoHolds
  <2>3. /\ lpc' = [lpc EXCEPT ![c] = "reverse-found"] /\ ljob' = ljob /\ lanswer' = lanswer
        /\ lseen' = [lseen EXCEPT ![c] = f]
    BY <1>4, <2>1 DEF LedgerGoto
  <2>4. CallersTyped
    BY DEF Parts
  <2>5. CallersTyped'
    BY <1>1, <2>2, <2>3, <2>4 DEF CallersTyped, mutexVars, LedgerPcs
  <2>6. /\ \A d \in Callers \ {c} :
             /\ ljob'[d] = ljob[d] /\ lseen'[d] = lseen[d] /\ lanswer'[d] = lanswer[d]
             /\ lpc'[d] = lpc[d]
        /\ lpc'[c] = "reverse-found" /\ ljob'[c] = ljob[c] /\ lseen'[c] = f
    BY <2>3, <2>4 DEF CallersTyped
  <2>7. OneHolder'
    BY <1>1, <2>6, MutexMove DEF Parts, HolderPcs
  <2>8. CallerHolds(c)' /\ ~Pending(c)'
    <3>1. Books' = Books
      BY <1>1, BooksStay
    <3> QED BY <3>1, <1>1, <1>2, <2>2, <2>6
            DEF CallerHolds, Pending, Builds, HolderPcs, FoundPcs, ReversePcs
  <2> QED BY <1>1, <2>5, <2>6, <2>7, <2>8, QuietOutcome
<1> QED BY <1>2, <1>3, <1>4 DEF ReverseFind

LEMMA ReverseSaveOutcome ==
  ASSUME Parts, NEW c \in Callers, ReverseSave(c)
  PROVE  Outcome(c)
<1>1. lpc[c] = "reverse-found" /\ ljob[c] \in ReverseJobs /\ UNCHANGED mutexVars
  BY DEF ReverseSave, Parts, CallerHolds, ReversePcs
<1>2. PICK key \in KeySet, id \in EntryIds \cup {Nil} :
        key = ljob[c].key /\ id = ljob[c].original
  BY <1>1, JobShapes
<1>3. PICK o, fresh, error :
        o = lseen[c] /\ fresh = FreshId /\ error = SaveReversalError(id, key)
  OBVIOUS
<1>4. lpc[c] \notin {"queued"} \cup HolderPcs
  BY <1>1 DEF HolderPcs
<1>5. ASSUME NEW e \in LedgerErrors, LedgerAnswer(c, Refused(e)), UNCHANGED repoVars
      PROVE  Outcome(c)
  <2>1. Refused(e) \in Results /\ Refused(e).ok # TRUE
    BY ResultShapes
  <2> QED BY <1>1, <1>4, <1>5, <2>1, QuietAnswer
<1>6. CASE /\ o # Nil /\ o.reversedBy = Nil /\ error = "NONE"
           /\ LET reversal == [id |-> fresh, key |-> key, lines |-> Mirrored(o.lines),
                               reversalOf |-> o.id, reversedBy |-> Nil]
              IN SaveReversal(o, reversal) /\ LedgerAnswer(c, Granted(reversal))
  <2>1. o \in Books /\ o \in LedgerEntries /\ o.id = id
    BY <1>1, <1>2, <1>3, <1>6 DEF Parts, CallerHolds, FoundPcs, ReversePcs, Books
  <2>2. id \in EntryIds /\ byId[id] # Nil /\ byId[id].reversedBy = Nil /\ byKey[key] = Nil
    BY <1>3, <1>6 DEF SaveReversalError, Lookup
  <2>3. byId[id] = o
    <3>1. RepoTyped
      BY DEF Parts, RepoHolds
    <3>2. byId[id] \in LedgerEntries
      BY <2>2, <3>1 DEF RepoTyped
    <3>3. Alike(byId[id], o)
      BY <2>1, <3>1, PersistedShape DEF Books
    <3> QED BY <3>2, <3>3, <2>1, <2>2, <1>6, AlikeEntries
  <2>4. /\ fresh \in EntryIds /\ byId[fresh] = Nil
        /\ \A d \in Callers : Builds(d) => lseen[d].entry.id # fresh
    <3>1. LedgerTypeOK /\ MapsAgree /\ OneHolder
      BY PartsOfInv DEF LedgerInv
    <3> QED BY <3>1, <1>3, FreshIdExists
  <2>5. PICK r : r = [id |-> fresh, key |-> key, lines |-> Mirrored(o.lines),
                      reversalOf |-> o.id, reversedBy |-> Nil]
    OBVIOUS
  <2>6. /\ r \in LedgerEntries /\ r.id = fresh /\ r.key = key /\ r.lines = Mirrored(o.lines)
        /\ r.reversalOf = o.id /\ r.reversedBy = Nil
    BY <2>1, <2>4, <2>5, ReversalShapes
  <2>7. SaveReversal(o, r) /\ LedgerAnswer(c, Granted(r))
    BY <1>6, <2>5
  <2>8. RepoHolds' /\ EntriesAge(r.id) /\ r \in Books'
    BY <2>1, <2>2, <2>3, <2>4, <2>6, <2>7, <1>6, ReversalKeepsRepo DEF Parts
  <2>9. Granted(r) \in Results /\ Granted(r).entry = r
    BY <2>6, ResultShapes
  <2>10. \A d \in Callers \ {c} : Pending(d) => lseen[d].entry.id # r.id
    BY <2>4, <2>6 DEF Pending, Builds
  <2> QED BY <1>1, <1>2, <1>4, <2>6, <2>7, <2>8, <2>9, <2>10, AnswerOutcome
<1>7. CASE error # "NONE" /\ LedgerAnswer(c, Refused(error)) /\ UNCHANGED repoVars
  <2>1. error \in LedgerErrors
    BY <1>3, <1>7 DEF SaveReversalError, LedgerErrors
  <2> QED BY <2>1, <1>5, <1>7
<1>8. CASE LedgerAnswer(c, Refused("ENTRY_NOT_FOUND")) /\ UNCHANGED repoVars
  BY <1>5, <1>8 DEF LedgerErrors
<1>9. CASE LedgerAnswer(c, Refused("ALREADY_REVERSED")) /\ UNCHANGED repoVars
  BY <1>5, <1>9 DEF LedgerErrors
<1> QED BY <1>2, <1>3, <1>6, <1>7, <1>8, <1>9 DEF ReverseSave

LEMMA LedgerReturnOutcome ==
  ASSUME Parts, NEW c \in Callers, LedgerReturn(c)
  PROVE  Outcome(c)
<1>1. /\ lpc[c] = "answered" /\ lpc' = [lpc EXCEPT ![c] = "idle"]
      /\ ljob' = [ljob EXCEPT ![c] = Nil] /\ lanswer' = [lanswer EXCEPT ![c] = Nil]
      /\ lseen' = lseen /\ UNCHANGED repoVars /\ UNCHANGED mutexVars
  BY DEF LedgerReturn
<1>2. CallersTyped
  BY DEF Parts
<1>3. CallersTyped'
  BY <1>1, <1>2 DEF CallersTyped, mutexVars, LedgerPcs
<1>4. /\ \A d \in Callers \ {c} :
           /\ ljob'[d] = ljob[d] /\ lseen'[d] = lseen[d] /\ lanswer'[d] = lanswer[d]
           /\ lpc'[d] = lpc[d]
      /\ lpc'[c] = "idle"
  BY <1>1, <1>2 DEF CallersTyped
<1>5. OneHolder'
  BY <1>1, <1>4, MutexMove DEF Parts, HolderPcs
<1>6. CallerHolds(c)' /\ ~Pending(c)'
  BY <1>4 DEF CallerHolds, Pending, Builds, HolderPcs, FoundPcs, ReversePcs
<1> QED BY <1>1, <1>3, <1>4, <1>5, <1>6, QuietOutcome

-----------------------------------------------------------------------------
(***************************************************************************)
(* The theorems.                                                           *)
(***************************************************************************)

LEMMA LedgerInitHolds == LedgerInit => LedgerInv
<1> SUFFICES ASSUME LedgerInit PROVE LedgerInv
  OBVIOUS
<1>1. CallersTyped
  BY DEF LedgerInit, CallersTyped, LedgerPcs
<1>2. RepoHolds
  BY DEF LedgerInit, RepoHolds, RepoTyped, MapsAgree, ReversalsPair
<1>3. \A c \in Callers : lpc[c] = "idle"
  BY DEF LedgerInit
<1>4. EveryKeyHolds
  <2>1. ASSUME NEW k \in KeySet PROVE KeyHolds(k)
    <3>1. Inside(k) = {} /\ Waiting(k) = {} /\ k \notin held /\ queues[k] = <<>>
      BY <1>3 DEF Inside, Waiting, HolderPcs, LedgerInit
    <3>2. ToSet(<<>>) = {} /\ IsInjective(<<>>)
      BY DEF ToSet, IsInjective
    <3> QED BY <3>1, <3>2 DEF KeyHolds
  <2> QED BY <2>1 DEF EveryKeyHolds
<1>5. PendingDiffer /\ \A c \in Callers : CallerHolds(c)
  BY <1>3 DEF PendingDiffer, CallerHolds, Pending, Builds, HolderPcs, FoundPcs, ReversePcs
<1> QED BY <1>1, <1>2, <1>4, <1>5, MutexShape, PartsOfInv DEF Parts

LEMMA LedgerStepKeeps == Parts /\ [LedgerNext]_ledgerVars => Parts'
<1> SUFFICES ASSUME Parts, [LedgerNext]_ledgerVars PROVE Parts'
  OBVIOUS
<1>1. ASSUME NEW c \in Callers,
             PostCall(c) \/ GuardAcquire(c) \/ ReverseCall(c) \/ LedgerProgress(c)
      PROVE  Parts'
  <2>1. Outcome(c)
    BY <1>1, PostCallOutcome, PostSaveOutcome, GuardAcquireOutcome, GuardFindOutcome,
       GuardOperateOutcome, GuardSaveOutcome, GuardReleaseOutcome, ReverseCallOutcome,
       ReverseFindOutcome, ReverseSaveOutcome, LedgerReturnOutcome DEF LedgerProgress
  <2> QED BY <2>1, OutcomeKeeps
<1>2. CASE UNCHANGED ledgerVars
  <2>1. UNCHANGED repoVars /\ UNCHANGED mutexVars
    BY <1>2 DEF ledgerVars, repoVars, mutexVars
  <2>2. RepoHolds' /\ Books' = Books
    BY <2>1, RepoUnchanged, BooksStay DEF Parts
  <2>3. OneHolder'
    BY <1>2 DEF Parts, OneHolder, ledgerVars
  <2>4. \A c \in Callers : (Pending(c)' <=> Pending(c)) /\ (Builds(c)' <=> Builds(c))
    BY <1>2 DEF Pending, Builds, ledgerVars
  <2>5. \A c \in Callers : CallerHolds(c)'
    BY <1>2, <2>2, <2>4 DEF Parts, CallerHolds, ledgerVars
  <2>6. PendingDiffer' /\ CallersTyped'
    BY <1>2, <2>4 DEF Parts, PendingDiffer, CallersTyped, ledgerVars
  <2> QED BY <2>2, <2>3, <2>5, <2>6 DEF Parts
<1> QED BY <1>1, <1>2 DEF LedgerNext

\* The inductive invariant holds: the types, the repository's two maps, what a
\* caller has found or built and not used yet, and the properties below.
THEOREM LedgerInvariant == LedgerSpec => []LedgerInv
<1>1. LedgerInit => LedgerInv
  BY LedgerInitHolds
<1>2. LedgerInv /\ [LedgerNext]_ledgerVars => LedgerInv'
  BY LedgerStepKeeps, PartsOfInv, PTL
<1> QED BY <1>1, <1>2, PTL DEF LedgerSpec

\* InMemoryRepository: the two maps hold the same entries between any two
\* awaits, reversal marks included.
THEOREM MapsStayTheSame == LedgerSpec => []MapsAgree
<1>1. LedgerInv => MapsAgree
  BY DEF LedgerInv
<1> QED BY <1>1, LedgerInvariant, PTL

\* reverse: an entry is reversed at most once, and mark, reversal and mirrored
\* lines are there together, whatever other calls are in flight
\* (docs/ledger-hardening-v1.md).
THEOREM ReversalsStayPaired == LedgerSpec => []ReversalsPair
<1>1. LedgerInv => ReversalsPair
  BY DEF LedgerInv
<1> QED BY <1>1, LedgerInvariant, PTL

\* KeyedMutex: with any number of callers, one holds a key at a time, and the
\* others are in its queue, each once, behind a holder.
THEOREM KeyedMutexSerialises == LedgerSpec => []OneHolder
<1>1. LedgerInv => OneHolder
  BY DEF LedgerInv
<1> QED BY <1>1, LedgerInvariant, PTL

\* post and reverse: an entry that is returned is what the repository holds
\* under the key of the call, whatever ran between its lookup and its save.
THEOREM LedgerAnswersArePersisted == LedgerSpec => []AnswersArePersisted
<1>1. LedgerInv => AnswersArePersisted
  BY DEF LedgerInv
<1> QED BY <1>1, LedgerInvariant, PTL

=============================================================================
