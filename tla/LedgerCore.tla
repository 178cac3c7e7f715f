----------------------------- MODULE LedgerCore -----------------------------
(***************************************************************************)
(* packages/ledger-core: PostingEngine.post, IdempotencyService and        *)
(* ReversalService over the InMemoryRepository, called concurrently in one *)
(* Node process.  Code between two awaits runs to the next one without     *)
(* interruption, so a step below is what runs between two awaits; every    *)
(* repository method does its work when it is called.                      *)
(***************************************************************************)
EXTENDS Integers, SequencesExt

CONSTANTS
  Callers,        \* concurrent calls into the package
  EntryIds,       \* randomUUID
  KeySet,         \* idempotency keys
  AccountCodes,   \* the accounts that lines name
  PostCommands,   \* the commands given to post,
  GuardCommands,  \* and those whose entry is built under withIdempotency
  Nil             \* undefined

\* A behaviour has at most one entry per key, and each key has at most one
\* holder with an entry that is built and not saved yet.
ASSUME EnoughIds ==
  /\ IsFiniteSet(EntryIds) /\ IsFiniteSet(KeySet)
  /\ Cardinality(EntryIds) > 2 * Cardinality(KeySet)

LedgerLines ==
  [account: AccountCodes, direction: {"DEBIT", "CREDIT"}, amount: Int]

\* Every entry is POSTED when it is built, and stays so.
LedgerEntries ==
  [id: EntryIds, key: KeySet, lines: Seq(LedgerLines),
   reversalOf: EntryIds \cup {Nil}, reversedBy: EntryIds \cup {Nil}]

ASSUME LedgerCommands ==
  PostCommands \cup GuardCommands \subseteq [key: KeySet, lines: Seq(LedgerLines)]

ASSUME NilIsNone == Nil \notin EntryIds \cup LedgerEntries

VARIABLES
  byId,      \* InMemoryRepository.byId
  byKey,     \* InMemoryRepository.byIdempotencyKey
  held,      \* KeyedMutex.held
  queues,    \* KeyedMutex.queues
  lpc,       \* where each caller is
  ljob,      \* the service it called and its command
  lseen,     \* what its last await gave it: an entry, nothing, or a Result
  lanswer    \* the Result it was given

repoVars == <<byId, byKey>>
mutexVars == <<held, queues>>
ledgerVars == <<byId, byKey, held, queues, lpc, ljob, lseen, lanswer>>

LedgerPcs == {"idle", "post-found", "queued", "holding", "guard-found", "built",
              "saved", "reverse-lookup", "reverse-found", "answered"}

PostJobs == [call: {"post"}, key: KeySet, lines: Seq(LedgerLines)]
GuardJobs == [call: {"guard"}, key: KeySet, lines: Seq(LedgerLines)]
ReverseJobs == [call: {"reverse"}, key: KeySet, original: EntryIds \cup {Nil}]

LedgerErrors ==
  {"EMPTY_LINES", "ZERO_AMOUNT", "UNBALANCED_ENTRY", "REJECTED", "ENTRY_NOT_FOUND",
   "ALREADY_REVERSED", "DUPLICATE_IDEMPOTENCY_KEY"}
Results ==
  [ok: {FALSE}, error: LedgerErrors] \cup [ok: {TRUE}, entry: LedgerEntries]

HolderPcs == {"holding", "guard-found", "built", "saved"}
ReversePcs == {"reverse-lookup", "reverse-found"}
FoundPcs == {"post-found", "guard-found"} \cup ReversePcs

LedgerTypeOK ==
  /\ byId \in [EntryIds -> LedgerEntries \cup {Nil}]
  /\ \A id \in EntryIds : byId[id] # Nil => byId[id].id = id
  /\ byKey \in [KeySet -> LedgerEntries \cup {Nil}]
  /\ \A k \in KeySet : byKey[k] # Nil => byKey[k].key = k
  /\ held \subseteq KeySet
  /\ queues \in [KeySet -> Seq(Callers)]
  /\ lpc \in [Callers -> LedgerPcs]
  /\ ljob \in [Callers -> PostJobs \cup GuardJobs \cup ReverseJobs \cup {Nil}]
  /\ lseen \in [Callers -> LedgerEntries \cup Results \cup {Nil}]
  /\ lanswer \in [Callers -> Results \cup {Nil}]
  /\ \A c \in Callers :
       /\ lpc[c] = "post-found" => ljob[c] \in PostJobs
       /\ lpc[c] \in {"queued"} \cup HolderPcs => ljob[c] \in GuardJobs
       /\ lpc[c] \in ReversePcs => ljob[c] \in ReverseJobs
       /\ lpc[c] \in FoundPcs => lseen[c] \in LedgerEntries \cup {Nil}
       /\ lpc[c] \in {"built", "saved"} => lseen[c] \in Results
       /\ lpc[c] = "answered" =>
            ljob[c] \in PostJobs \cup GuardJobs \cup ReverseJobs /\ lanswer[c] \in Results

LedgerInit ==
  /\ byId = [id \in EntryIds |-> Nil]
  /\ byKey = [k \in KeySet |-> Nil]
  /\ held = {}
  /\ queues = [k \in KeySet |-> <<>>]
  /\ lpc = [c \in Callers |-> "idle"]
  /\ ljob = [c \in Callers |-> Nil]
  /\ lseen = [c \in Callers |-> Nil]
  /\ lanswer = [c \in Callers |-> Nil]

-----------------------------------------------------------------------------
(***************************************************************************)
(* PostingEngine.buildEntry.                                               *)
(***************************************************************************)

Refused(error) == [ok |-> FALSE, error |-> error]
Granted(entry) == [ok |-> TRUE, entry |-> entry]

Sum(lines, direction) ==
  FoldSeq(LAMBDA l, sum : IF l.direction = direction THEN sum + l.amount ELSE sum,
          0, lines)

\* randomUUID: an id that nobody has used.  Which one makes no difference.
FreshId ==
  CHOOSE id \in EntryIds :
    /\ byId[id] = Nil
    /\ \A c \in Callers :
         lpc[c] \in {"built", "saved"} /\ lseen[c].ok => lseen[c].entry.id # id

\* The checks in their order, then the entry.
BuildEntry(key, lines) ==
  IF Len(lines) < 2 THEN Refused("EMPTY_LINES")
  ELSE IF \E i \in DOMAIN lines : lines[i].amount <= 0 THEN Refused("ZERO_AMOUNT")
  ELSE IF Sum(lines, "DEBIT") # Sum(lines, "CREDIT") THEN Refused("UNBALANCED_ENTRY")
  ELSE Granted([id |-> FreshId, key |-> key, lines |-> lines,
                reversalOf |-> Nil, reversedBy |-> Nil])

-----------------------------------------------------------------------------
(***************************************************************************)
(* InMemoryRepository.                                                     *)
(***************************************************************************)

Put(e) == byId' = [byId EXCEPT ![e.id] = e] /\ byKey' = [byKey EXCEPT ![e.key] = e]

\* saveEntry keeps the existing entry of a key, and returns what is kept.
SaveEntry(e) ==
  \/ byKey[e.key] = Nil /\ Put(e)
  \/ byKey[e.key] # Nil /\ UNCHANGED repoVars

Persisted(e) == IF byKey[e.key] # Nil THEN byKey[e.key] ELSE e

\* findEntryById; "Nil" is an id that no entry has.
Lookup(id) == IF id \in EntryIds THEN byId[id] ELSE Nil

\* Mutant: the service's check of reversedBy is relied upon.
SaveReversalUnchecked(id, key) ==
  IF Lookup(id) = Nil THEN "ENTRY_NOT_FOUND"
  ELSE IF byKey[key] # Nil THEN "DUPLICATE_IDEMPOTENCY_KEY"
  ELSE "NONE"

\* What saveReversal throws: it repeats every check on the current original.
SaveReversalError(id, key) ==
  IF Lookup(id) = Nil THEN "ENTRY_NOT_FOUND"
  ELSE IF byId[id].reversedBy # Nil THEN "ALREADY_REVERSED"
  ELSE IF byKey[key] # Nil THEN "DUPLICATE_IDEMPOTENCY_KEY"
  ELSE "NONE"

\* Mutant: the entry under the original's key is not updated.
SaveReversalById(original, e) ==
  /\ byId' = [byId EXCEPT ![original.id].reversedBy = e.id, ![e.id] = e]
  /\ byKey' = [byKey EXCEPT ![e.key] = e]

\* Mutant: the original is marked with the reversal's key.
SaveReversalMarkKey(original, e) ==
  /\ byId' = [byId EXCEPT ![original.id].reversedBy = e.key, ![e.id] = e]
  /\ byKey' = [byKey EXCEPT ![original.key].reversedBy = e.key, ![e.key] = e]

\* Both maps get the reversal and the marked original.
SaveReversal(original, e) ==
  /\ byId' = [byId EXCEPT ![original.id].reversedBy = e.id, ![e.id] = e]
  /\ byKey' = [byKey EXCEPT ![original.key].reversedBy = e.id, ![e.key] = e]

-----------------------------------------------------------------------------

LedgerGoto(c, to) ==
  /\ lpc' = [lpc EXCEPT ![c] = to]
  /\ UNCHANGED <<ljob, lanswer>>

\* A call arrives and runs to its first await, which gives it "seen".
LedgerCall(c, job, to, seen) ==
  /\ lpc[c] = "idle"
  /\ lpc' = [lpc EXCEPT ![c] = to]
  /\ ljob' = [ljob EXCEPT ![c] = job]
  /\ lseen' = [lseen EXCEPT ![c] = seen]
  /\ UNCHANGED lanswer

Answered(c, result) ==
  /\ lanswer' = [lanswer EXCEPT ![c] = result]
  /\ lseen' = [lseen EXCEPT ![c] = Nil]
  /\ UNCHANGED ljob

LedgerAnswer(c, result) ==
  lpc' = [lpc EXCEPT ![c] = "answered"] /\ Answered(c, result)

\* post, up to the lookup of its key.
PostCall(c) ==
  /\ \E command \in PostCommands :
       LedgerCall(c, [call |-> "post", key |-> command.key, lines |-> command.lines],
                  "post-found", byKey[command.key])
  /\ UNCHANGED <<repoVars, mutexVars>>

\* Mutant: the caller is given the entry it built.
PostSaveOwn(c) ==
  /\ lpc[c] = "post-found"
  /\ LET built == BuildEntry(ljob[c].key, ljob[c].lines) IN
     \/ /\ lseen[c] # Nil
        /\ LedgerAnswer(c, Granted(lseen[c]))
        /\ UNCHANGED repoVars
     \/ /\ lseen[c] = Nil /\ ~built.ok
        /\ LedgerAnswer(c, built)
        /\ UNCHANGED repoVars
     \/ /\ lseen[c] = Nil /\ built.ok
        /\ SaveEntry(built.entry)
        /\ LedgerAnswer(c, built)
  /\ UNCHANGED mutexVars

\* The rest of post: what saveEntry returns is the answer.
PostSave(c) ==
  /\ lpc[c] = "post-found"
  /\ LET built == BuildEntry(ljob[c].key, ljob[c].lines) IN
     \/ /\ lseen[c] # Nil
        /\ LedgerAnswer(c, Granted(lseen[c]))
        /\ UNCHANGED repoVars
     \/ /\ lseen[c] = Nil /\ ~built.ok
        /\ LedgerAnswer(c, built)
        /\ UNCHANGED repoVars
     \/ /\ lseen[c] = Nil /\ built.ok
        /\ SaveEntry(built.entry)
        /\ LedgerAnswer(c, Granted(Persisted(built.entry)))
  /\ UNCHANGED mutexVars

-----------------------------------------------------------------------------
(***************************************************************************)
(* withIdempotency under the KeyedMutex.  Its operation is buildEntry, as  *)
(* in the package's tests, or rejects.                                     *)
(***************************************************************************)

\* mutex.acquire: the first takes the key, the others queue.
GuardAcquire(c) ==
  /\ \E command \in GuardCommands :
       LET key == command.key
           job == [call |-> "guard", key |-> key, lines |-> command.lines]
       IN \/ /\ key \notin held
             /\ held' = held \cup {key}
             /\ LedgerCall(c, job, "holding", Nil)
             /\ UNCHANGED queues
          \/ /\ key \in held
             /\ queues' = [queues EXCEPT ![key] = Append(@, c)]
             /\ LedgerCall(c, job, "queued", Nil)
             /\ UNCHANGED held
  /\ UNCHANGED repoVars

GuardFind(c) ==
  /\ lpc[c] = "holding"
  /\ LedgerGoto(c, "guard-found")
  /\ lseen' = [lseen EXCEPT ![c] = byKey[ljob[c].key]]
  /\ UNCHANGED <<repoVars, mutexVars>>

\* Mutant: a key that is handed over is freed as well.
ReleaseTwice(c, key) ==
  /\ held' = held \ {key}
  /\ \/ /\ queues[key] = <<>>
        /\ lpc' = [lpc EXCEPT ![c] = "answered"]
        /\ UNCHANGED queues
     \/ /\ queues[key] # <<>>
        /\ queues' = [queues EXCEPT ![key] = Tail(@)]
        /\ lpc' = [lpc EXCEPT ![c] = "answered", ![Head(queues[key])] = "holding"]

\* mutex.release: the head of the queue goes on, the key never free in
\* between; without a queue the key is freed.
ReleaseKey(c, key) ==
  \/ /\ queues[key] = <<>>
     /\ held' = held \ {key}
     /\ lpc' = [lpc EXCEPT ![c] = "answered"]
     /\ UNCHANGED queues
  \/ /\ queues[key] # <<>>
     /\ queues' = [queues EXCEPT ![key] = Tail(@)]
     /\ lpc' = [lpc EXCEPT ![c] = "answered", ![Head(queues[key])] = "holding"]
     /\ UNCHANGED held

\* return, or throw, and finally.
GuardReturn(c, result) == ReleaseKey(c, ljob[c].key) /\ Answered(c, result)

\* An existing entry answers; otherwise the operation runs.
GuardOperate(c) ==
  /\ lpc[c] = "guard-found"
  /\ \/ /\ lseen[c] # Nil
        /\ GuardReturn(c, Granted(lseen[c]))
     \/ /\ lseen[c] = Nil
        /\ LedgerGoto(c, "built")
        /\ lseen' = [lseen EXCEPT ![c] = BuildEntry(ljob[c].key, ljob[c].lines)]
        /\ UNCHANGED mutexVars
     \/ /\ lseen[c] = Nil
        /\ GuardReturn(c, Refused("REJECTED"))
  /\ UNCHANGED repoVars

\* A failed operation is returned; an entry is saved.
GuardSave(c) ==
  /\ lpc[c] = "built"
  /\ \/ /\ ~lseen[c].ok
        /\ GuardReturn(c, lseen[c])
        /\ UNCHANGED repoVars
     \/ /\ lseen[c].ok
        /\ SaveEntry(lseen[c].entry)
        /\ LedgerGoto(c, "saved")
        /\ UNCHANGED <<lseen, mutexVars>>

\* What saveEntry returned is ignored: the answer is the operation's result.
GuardRelease(c) ==
  /\ lpc[c] = "saved"
  /\ GuardReturn(c, lseen[c])
  /\ UNCHANGED repoVars

-----------------------------------------------------------------------------
(***************************************************************************)
(* ReversalService.reverse.                                                *)
(***************************************************************************)

\* Callers name an entry they know, or one that does not exist.
ReverseCall(c) ==
  /\ \E key \in KeySet, id \in {e \in EntryIds : byId[e] # Nil} \cup {Nil} :
       LedgerCall(c, [call |-> "reverse", key |-> key, original |-> id],
                  "reverse-lookup", byKey[key])
  /\ UNCHANGED <<repoVars, mutexVars>>

\* Whatever is under the key answers; otherwise the original is looked up.
ReverseFind(c) ==
  /\ lpc[c] = "reverse-lookup"
  /\ \/ lseen[c] # Nil /\ LedgerAnswer(c, Granted(lseen[c]))
     \/ /\ lseen[c] = Nil
        /\ LedgerGoto(c, "reverse-found")
        /\ lseen' = [lseen EXCEPT ![c] = Lookup(ljob[c].original)]
  /\ UNCHANGED <<repoVars, mutexVars>>

Opposite(direction) == IF direction = "DEBIT" THEN "CREDIT" ELSE "DEBIT"
Mirrored(lines) ==
  [i \in DOMAIN lines |-> [lines[i] EXCEPT !.direction = Opposite(@)]]

\* The checks on the snapshot, then saveReversal and its own checks.
ReverseSave(c) ==
  /\ lpc[c] = "reverse-found"
  /\ LET original == lseen[c]
         key == ljob[c].key
         error == SaveReversalError(ljob[c].original, key)
         reversal == [id |-> FreshId, key |-> key, lines |-> Mirrored(original.lines),
                      reversalOf |-> original.id, reversedBy |-> Nil]
     IN \/ /\ original = Nil
           /\ LedgerAnswer(c, Refused("ENTRY_NOT_FOUND"))
           /\ UNCHANGED repoVars
        \/ /\ original # Nil /\ original.reversedBy # Nil
           /\ LedgerAnswer(c, Refused("ALREADY_REVERSED"))
           /\ UNCHANGED repoVars
        \/ /\ original # Nil /\ original.reversedBy = Nil
           /\ \/ /\ error # "NONE"
                 /\ LedgerAnswer(c, Refused(error))
                 /\ UNCHANGED repoVars
              \/ /\ error = "NONE"
                 /\ SaveReversal(original, reversal)
                 /\ LedgerAnswer(c, Granted(reversal))
  /\ UNCHANGED mutexVars

-----------------------------------------------------------------------------

LedgerReturn(c) ==
  /\ lpc[c] = "answered"
  /\ lpc' = [lpc EXCEPT ![c] = "idle"]
  /\ ljob' = [ljob EXCEPT ![c] = Nil]
  /\ lanswer' = [lanswer EXCEPT ![c] = Nil]
  /\ UNCHANGED <<lseen, repoVars, mutexVars>>

LedgerProgress(c) ==
  \/ PostSave(c) \/ GuardFind(c) \/ GuardOperate(c) \/ GuardSave(c)
  \/ GuardRelease(c) \/ ReverseFind(c) \/ ReverseSave(c) \/ LedgerReturn(c)

LedgerNext ==
  \E c \in Callers :
    PostCall(c) \/ GuardAcquire(c) \/ ReverseCall(c) \/ LedgerProgress(c)

LedgerSpec == LedgerInit /\ [][LedgerNext]_ledgerVars

-----------------------------------------------------------------------------
(***************************************************************************)
(* Properties.                                                             *)
(***************************************************************************)

\* The two maps hold the same entries, so that a key names one entry and an
\* entry is the same whichever way it is found, reversal mark included.
MapsAgree ==
  /\ \A id \in EntryIds : byId[id] # Nil => byKey[byId[id].key] = byId[id]
  /\ \A k \in KeySet : byKey[k] # Nil => byId[byKey[k].id] = byKey[k]

\* docs/ledger-hardening-v1.md: an entry is reversed at most once, and the
\* reversal and the original's reversedById link are there together.  The
\* pair's lines mirror each other, so it nets to zero on every account.
ReversalsPair ==
  \A id \in EntryIds : byId[id] # Nil =>
    LET e == byId[id] IN
    /\ e.reversedBy # Nil =>
         /\ byId[e.reversedBy] # Nil
         /\ byId[e.reversedBy].reversalOf = id
         /\ byId[e.reversedBy].lines = Mirrored(e.lines)
    /\ e.reversalOf # Nil =>
         byId[e.reversalOf] # Nil /\ byId[e.reversalOf].reversedBy = id

\* KeyedMutex serialises and forgets nobody: at most one caller is past acquire
\* under a key, the key is held exactly then, and whoever waits is in its queue,
\* once, behind a holder whose release will hand the key on.
OneHolder ==
  \A k \in KeySet :
    LET inside == {c \in Callers : lpc[c] \in HolderPcs /\ ljob[c].key = k}
        waiting == {c \in Callers : lpc[c] = "queued" /\ ljob[c].key = k}
    IN /\ \A c, d \in inside : c = d
       /\ k \in held <=> inside # {}
       /\ waiting # {} => inside # {}
       /\ ToSet(queues[k]) = waiting /\ IsInjective(queues[k])

\* Whether e, but for a reversal since, is what the repository holds.
IsPersisted(e) ==
  /\ byId[e.id] # Nil
  /\ [byId[e.id] EXCEPT !.reversedBy = Nil] = [e EXCEPT !.reversedBy = Nil]

\* An entry that post or reverse returns is the one in the books under the
\* key of the call, however its lookup, its save and other calls interleave.
AnswersArePersisted ==
  \A c \in Callers :
    lpc[c] = "answered" /\ ljob[c].call # "guard" /\ lanswer[c].ok =>
      lanswer[c].entry.key = ljob[c].key /\ IsPersisted(lanswer[c].entry)

\* What a lookup found before the await is, but for a reversal since, still
\* what the repository holds.
SnapshotsHold ==
  \A c \in Callers :
    lpc[c] \in FoundPcs /\ lseen[c] # Nil =>
      /\ IsPersisted(lseen[c])
      /\ IF lpc[c] = "reverse-found" THEN lseen[c].id = ljob[c].original
         ELSE lseen[c].key = ljob[c].key

\* A holder's entry is its key's, no reversal, and until it is saved neither
\* the repository nor another holder knows its id.
BuiltAreFresh ==
  \A c \in Callers :
    /\ lpc[c] \in {"built", "saved"} /\ lseen[c].ok => lseen[c].entry.key = ljob[c].key
    /\ lpc[c] = "built" /\ lseen[c].ok =>
         /\ byId[lseen[c].entry.id] = Nil
         /\ lseen[c].entry.reversalOf = Nil /\ lseen[c].entry.reversedBy = Nil
         /\ \A d \in Callers \ {c} :
              lpc[d] = "built" /\ lseen[d].ok => lseen[d].entry.id # lseen[c].entry.id

\* The inductive invariant.
LedgerInv ==
  /\ LedgerTypeOK
  /\ MapsAgree /\ ReversalsPair
  /\ OneHolder
  /\ SnapshotsHold /\ BuiltAreFresh
  /\ AnswersArePersisted

\* idempotency.ts: withIdempotency "persists the result, and returns it".
GuardedIsPersisted ==
  \A c \in Callers :
    lpc[c] = "answered" /\ ljob[c].call = "guard" /\ lanswer[c].ok =>
      IsPersisted(lanswer[c].entry)

\* docs/ledger-hardening-v1.md: "repeated reversal requests return the
\* existing reversal", so a request is not refused while one exists under its
\* key.
RepeatsReturnReversal ==
  \A c \in Callers :
    lpc[c] = "answered" /\ ljob[c].call = "reverse" /\ ~lanswer[c].ok
    /\ byKey[ljob[c].key] # Nil /\ ljob[c].original # Nil =>
      byKey[ljob[c].key].reversalOf # ljob[c].original

=============================================================================
