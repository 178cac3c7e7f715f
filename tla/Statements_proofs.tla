------------------------- MODULE Statements_proofs -------------------------
(***************************************************************************)
(* The views of the journal agree, for any users, currencies, holdings,    *)
(* amounts, mappings, page lengths and lengths of the journal.  Balances   *)
(* are sums over lines; the lemmas about sums are those of Payments_proofs *)
(* and, first, what follows from them for sums of sums.                    *)
(***************************************************************************)
EXTENDS Statements, Payments_proofs

-----------------------------------------------------------------------------
(***************************************************************************)
(* Sums of sums.                                                           *)
(***************************************************************************)

\* Induction over the size of a finite set, for a family of sets.
LEMMA BySize ==
  ASSUME NEW S, IsFiniteSet(S), NEW Good, {} \in Good,
         \A s \in SUBSET S : s # {} /\ Others(s) \in Good => s \in Good
  PROVE  S \in Good
<1> DEFINE Wrong == {n \in Nat : \E s \in SUBSET S : Cardinality(s) = n /\ s \notin Good}
<1>f. \A s \in SUBSET S : IsFiniteSet(s) /\ Cardinality(s) \in Nat
  BY FS_Subset, FirstAndOthers
<1>1. ASSUME Wrong # {} PROVE FALSE
  <2>1. PICK n \in Wrong : \A m \in Wrong : n <= m
    BY <1>1, LeastNat
  <2>2. PICK s \in SUBSET S : Cardinality(s) = n /\ s \notin Good
    BY <2>1
  <2>3. s # {}
    BY <2>2
  <2>4. Others(s) \in SUBSET S /\ Cardinality(Others(s)) \in Nat /\ Cardinality(Others(s)) < n
    BY <2>2, <2>3, <1>f, FirstAndOthers
  <2>5. Cardinality(Others(s)) \notin Wrong
    BY <2>1, <2>4
  <2>6. Others(s) \in Good
    BY <2>4, <2>5
  <2> QED BY <2>2, <2>3, <2>6
<1>2. Cardinality(S) \in Nat /\ Cardinality(S) \notin Wrong
  BY <1>1, <1>f
<1> QED BY <1>2

LEMMA ImageIsFinite ==
  ASSUME NEW S, IsFiniteSet(S), NEW g
  PROVE  IsFiniteSet({g[x] : x \in S})
<1> DEFINE T == {g[x] : x \in S}
           f == [x \in S |-> g[x]]
<1>1. f \in Surjection(S, T)
  BY DEF Surjection
<1> HIDE DEF f, T
<1>2. IsFiniteSet(T)
  BY <1>1, FS_Surjection
<1> QED BY <1>2 DEF T

\* The sum of one value.
LEMMA SumOfOne ==
  ASSUME NEW f, NEW x, f[x] \in Int
  PROVE  SumFunctionOnSet(f, {x}) = f[x]
<1>1. IsFiniteSet({x}) /\ IsFiniteSet({}) /\ {x} \ {x} = {}
  BY FS_Singleton, FS_EmptySet
<1>2. SumFunctionOnSet(f, {}) = 0
  BY <1>1, SumUnfolds
<1> QED BY <1>1, <1>2, SumTakesAny

LEMMA SumOfTwo ==
  ASSUME NEW f, NEW x, NEW y, x # y, f[x] \in Int, f[y] \in Int
  PROVE  IsFiniteSet({x, y}) /\ SumFunctionOnSet(f, {x, y}) = f[x] + f[y]
<1>1. IsFiniteSet({y}) /\ IsFiniteSet({x} \cup {y})
  BY FS_Singleton, FS_AddElement
<1>2. IsFiniteSet({x, y})
  <2>1. {x} \cup {y} = {x, y}
    OBVIOUS
  <2> QED BY <1>1, <2>1
<1>3. \A z \in {x, y} : f[z] \in Int
  OBVIOUS
<1>4. SumFunctionOnSet(f, {x, y}) = f[x] + SumFunctionOnSet(f, {x, y} \ {x})
  BY <1>2, <1>3, SumTakesAny
<1>5. {x, y} \ {x} = {y}
  OBVIOUS
<1> QED BY <1>2, <1>4, <1>5, SumOfOne

\* Values none of which is positive have no positive sum, and zeros none.
LEMMA SumsOfNone ==
  ASSUME NEW f, NEW S, IsFiniteSet(S), \A x \in S : f[x] \in Int /\ f[x] <= 0
  PROVE  /\ SumFunctionOnSet(f, S) \in Int /\ SumFunctionOnSet(f, S) <= 0
         /\ (\A x \in S : f[x] = 0) => SumFunctionOnSet(f, S) = 0
<1> DEFINE Good == {s \in SUBSET S : /\ SumFunctionOnSet(f, s) \in Int
                                     /\ SumFunctionOnSet(f, s) <= 0
                                     /\ (\A x \in s : f[x] = 0) => SumFunctionOnSet(f, s) = 0}
<1>1. {} \in Good
  BY SumUnfolds, FS_EmptySet
<1>2. ASSUME NEW s \in SUBSET S, s # {}, Others(s) \in Good PROVE s \in Good
  <2>1. IsFiniteSet(s)
    BY FS_Subset
  <2>2. /\ SumFunctionOnSet(f, s) = f[First(s)] + SumFunctionOnSet(f, Others(s))
        /\ First(s) \in s /\ Others(s) \subseteq s
    BY <1>2, <2>1, SumUnfolds, FirstAndOthers
  <2> QED BY <1>2, <2>2
<1>3. S \in Good
  <2> HIDE DEF Good
  <2> QED BY <1>1, <1>2, BySize
<1> QED BY <1>3

\* The opposite values have the opposite sum.
LEMMA SumsNegate ==
  ASSUME NEW f, NEW e, NEW S, IsFiniteSet(S), \A x \in S : f[x] \in Int /\ e[x] = 0 - f[x]
  PROVE  /\ SumFunctionOnSet(f, S) \in Int
         /\ SumFunctionOnSet(e, S) = 0 - SumFunctionOnSet(f, S)
<1> DEFINE Good == {s \in SUBSET S : /\ SumFunctionOnSet(f, s) \in Int
                                     /\ SumFunctionOnSet(e, s) = 0 - SumFunctionOnSet(f, s)}
<1>1. {} \in Good
  <2>1. SumFunctionOnSet(f, {}) = 0 /\ SumFunctionOnSet(e, {}) = 0
    BY SumUnfolds, FS_EmptySet
  <2> QED BY <2>1
<1>2. ASSUME NEW s \in SUBSET S, s # {}, Others(s) \in Good PROVE s \in Good
  <2>1. IsFiniteSet(s)
    BY FS_Subset
  <2>2. /\ SumFunctionOnSet(f, s) = f[First(s)] + SumFunctionOnSet(f, Others(s))
        /\ SumFunctionOnSet(e, s) = e[First(s)] + SumFunctionOnSet(e, Others(s))
        /\ First(s) \in S
    BY <1>2, <2>1, SumUnfolds, FirstAndOthers
  <2> QED BY <1>2, <2>2
<1>3. S \in Good
  <2> HIDE DEF Good
  <2> QED BY <1>1, <1>2, BySize
<1> QED BY <1>3

\* The values of each key, added up.
PerKey(f, g, s, K) == [k \in K |-> SumFunctionOnSet(f, {x \in s : g[x] = k})]

\* A sum may be taken key by key.
LEMMA SumsByKey ==
  ASSUME NEW f, NEW g, NEW S, NEW K, IsFiniteSet(S), IsFiniteSet(K),
         \A x \in S : f[x] \in Int /\ g[x] \in K
  PROVE  SumFunctionOnSet(f, S) = SumFunctionOnSet(PerKey(f, g, S, K), K)
<1> DEFINE Good == {s \in SUBSET S :
                      SumFunctionOnSet(f, s) = SumFunctionOnSet(PerKey(f, g, s, K), K)}
<1>p. \A s \in SUBSET S, k \in K :
        /\ PerKey(f, g, s, K)[k] = SumFunctionOnSet(f, {x \in s : g[x] = k})
        /\ PerKey(f, g, s, K)[k] \in Int
  <2> SUFFICES ASSUME NEW s \in SUBSET S, NEW k \in K
               PROVE  SumFunctionOnSet(f, {x \in s : g[x] = k}) \in Int
    BY DEF PerKey
  <2>1. IsFiniteSet({x \in s : g[x] = k})
    BY FS_Subset
  <2> QED BY <2>1, SumTakesAny
<1>1. {} \in Good
  <2>1. \A k \in K : PerKey(f, g, {}, K)[k] = 0
    <3>1. \A k \in K : {x \in {} : g[x] = k} = {}
      OBVIOUS
    <3>2. SumFunctionOnSet(f, {}) = 0
      BY SumUnfolds, FS_EmptySet
    <3> QED BY <3>1, <3>2 DEF PerKey
  <2>2. SumFunctionOnSet(PerKey(f, g, {}, K), K) = 0
    BY <2>1, SumsOfNone
  <2> QED BY <2>2, SumUnfolds, FS_EmptySet
<1>2. ASSUME NEW s \in SUBSET S, s # {}, Others(s) \in Good PROVE s \in Good
  <2> DEFINE x == First(s)
             r == Others(s)
             T == {y \in s : g[y] = g[x]}
  <2>1. IsFiniteSet(s) /\ x \in s /\ r = s \ {x} /\ r \in SUBSET S
    BY <1>2, FS_Subset, FirstAndOthers DEF Others
  <2>2. SumFunctionOnSet(f, s) = f[x] + SumFunctionOnSet(f, r)
    BY <1>2, <2>1, SumUnfolds
  <2>3. PerKey(f, g, s, K)[g[x]] = f[x] + PerKey(f, g, r, K)[g[x]]
    <3>1. IsFiniteSet(T) /\ x \in T /\ T \ {x} = {y \in r : g[y] = g[x]}
      BY <2>1, FS_Subset
    <3>2. SumFunctionOnSet(f, T) = f[x] + SumFunctionOnSet(f, T \ {x})
      BY <3>1, SumTakesAny
    <3>3. g[x] \in K
      BY <2>1
    <3> HIDE DEF x, r
    <3> QED BY <3>1, <3>2, <3>3, <2>1, <1>p
  <2>4. \A k \in K \ {g[x]} : PerKey(f, g, s, K)[k] = PerKey(f, g, r, K)[k]
    <3> SUFFICES ASSUME NEW k \in K \ {g[x]}
                 PROVE  {y \in s : g[y] = k} = {y \in r : g[y] = k}
      BY DEF PerKey
    <3> QED BY <2>1
  <2>5. g[x] \in K /\ f[x] \in Int
    BY <2>1
  <2>6. SumFunctionOnSet(PerKey(f, g, s, K), K)
          = SumFunctionOnSet(PerKey(f, g, r, K), K)
              - PerKey(f, g, r, K)[g[x]] + PerKey(f, g, s, K)[g[x]]
    <3> HIDE DEF x, r
    <3>1. \A k \in K : PerKey(f, g, r, K)[k] \in Int /\ PerKey(f, g, s, K)[k] \in Int
      BY <1>p, <2>1
    <3> QED BY <3>1, <2>4, <2>5, SumMoves
  <2>7. SumFunctionOnSet(PerKey(f, g, r, K), K) \in Int /\ PerKey(f, g, r, K)[g[x]] \in Int
    <3> HIDE DEF x, r
    <3>1. \A k \in K : PerKey(f, g, r, K)[k] \in Int
      BY <1>p, <2>1
    <3> QED BY <3>1, <2>5, SumTakesAny
  <2>8. SumFunctionOnSet(f, r) = SumFunctionOnSet(PerKey(f, g, r, K), K)
    BY <1>2
  <2>9. SumFunctionOnSet(f, s) = SumFunctionOnSet(PerKey(f, g, s, K), K)
    <3> HIDE DEF x, r
    <3> QED BY <2>2, <2>3, <2>5, <2>6, <2>7, <2>8
  <2> QED BY <2>9
<1>3. S \in Good
  <2> HIDE DEF Good
  <2> QED BY <1>1, <1>2, BySize
<1> QED BY <1>3

\* A sum over part of a set and over the rest.
LEMMA SumsSplit ==
  ASSUME NEW f, NEW S, IsFiniteSet(S), \A x \in S : f[x] \in Int, NEW T, T \subseteq S
  PROVE  /\ SumFunctionOnSet(f, T) \in Int /\ SumFunctionOnSet(f, S \ T) \in Int
         /\ SumFunctionOnSet(f, S) = SumFunctionOnSet(f, T) + SumFunctionOnSet(f, S \ T)
<1> DEFINE g == [x \in S |-> IF x \in T THEN 1 ELSE 2]
           h == PerKey(f, g, S, {1, 2})
<1>1. IsFiniteSet({1, 2})
  <2>1. PICK z : z = [i \in {1, 2} |-> 0]
    OBVIOUS
  <2>2. 1 # 2 /\ z[1] \in Int /\ z[2] \in Int
    BY <2>1
  <2> QED BY <2>2, SumOfTwo
<1>2. SumFunctionOnSet(f, S) = SumFunctionOnSet(h, {1, 2})
  BY <1>1, SumsByKey
<1>3. {x \in S : g[x] = 1} = T /\ {x \in S : g[x] = 2} = S \ T
  OBVIOUS
<1>4. h[1] = SumFunctionOnSet(f, T) /\ h[2] = SumFunctionOnSet(f, S \ T)
  BY <1>3 DEF PerKey
<1>5. SumFunctionOnSet(f, T) \in Int /\ SumFunctionOnSet(f, S \ T) \in Int
  BY FS_Subset, SumTakesAny
<1> HIDE DEF h
<1>6. SumFunctionOnSet(h, {1, 2}) = h[1] + h[2]
  BY <1>4, <1>5, SumOfTwo, 1 # 2
<1> QED BY <1>2, <1>4, <1>5, <1>6

\* Values may be counted under other names.
LEMMA SumsRename ==
  ASSUME NEW f, NEW e, NEW b, NEW S, NEW T, IsFiniteSet(S), IsFiniteSet(T),
         \A x \in S : b[x] \in T /\ e[x] = f[b[x]],
         \A x, y \in S : b[x] = b[y] => x = y,
         \A t \in T : f[t] \in Int /\ \E x \in S : b[x] = t
  PROVE  SumFunctionOnSet(e, S) = SumFunctionOnSet(f, T)
<1>1. SumFunctionOnSet(e, S) = SumFunctionOnSet(PerKey(e, b, S, T), T)
  BY SumsByKey
<1>2. ASSUME NEW t \in T PROVE PerKey(e, b, S, T)[t] = f[t]
  <2>1. PICK x \in S : b[x] = t
    OBVIOUS
  <2>2. {y \in S : b[y] = t} = {x}
    BY <2>1
  <2>3. SumFunctionOnSet(e, {x}) = f[t]
    BY <2>1, SumOfOne
  <2> QED BY <2>2, <2>3 DEF PerKey
<1> QED BY <1>1, <1>2, SumsAgree

-----------------------------------------------------------------------------
(***************************************************************************)
(* The journal.                                                            *)
(***************************************************************************)

\* What the services post.
CashAccounts == {"acct_1100", "acct_2100"}
CashTerms == [currency: Currencies, amount: Nat \ {0}, debit: CashAccounts, debited: Users,
              credit: CashAccounts, credited: Users]
CashEntry(t) == Entry(t.currency, t.amount, t.debit, t.debited, t.credit, t.credited, "")
CashEntries == {CashEntry(t) : t \in CashTerms}
FundingOf(h) ==
  Entry(h.currency, h.amount, "acct_2100", h.user, "acct_2200", h.user, h.id)
RedemptionOf(h) ==
  Entry(h.currency, h.amount, "acct_2200", h.user, "acct_2100", h.user, h.id)

\* Two lines of one amount on either side, of different accounts or investors;
\* a line of acct_2200 is of a subscription of its investor and currency.
IsPosting(e) ==
  /\ e.currency \in Currencies
  /\ DOMAIN e.lines = {1, 2}
  /\ \A i \in {1, 2} : /\ e.lines[i].account \in ChartAccounts
                       /\ e.lines[i].investor \in Users
                       /\ e.lines[i].amount \in Nat \ {0}
  /\ e.lines[1].amount = e.lines[2].amount
  /\ e.lines[1].direction = "DEBIT" /\ e.lines[2].direction = "CREDIT"
  /\ e.lines[1].account # e.lines[2].account \/ e.lines[1].investor # e.lines[2].investor

Postings ==
  {e \in CashEntries : IsPosting(e)}
    \cup {FundingOf(h) : h \in Holdings} \cup {RedemptionOf(h) : h \in Holdings}

LEMMA PostingsMakeSense == \A e \in Postings : IsPosting(e)
<1> SUFFICES ASSUME NEW h \in Holdings PROVE IsPosting(FundingOf(h)) /\ IsPosting(RedemptionOf(h))
  BY DEF Postings
<1>1. /\ "acct_2100" \in ChartAccounts /\ "acct_2200" \in ChartAccounts
      /\ "acct_2100" # "acct_2200"
  BY DEF ChartAccounts, Chart
<1>2. h.user \in Users /\ h.currency \in Currencies /\ h.amount \in Nat \ {0}
  BY HoldingConstants
<1> QED BY <1>1, <1>2 DEF IsPosting, FundingOf, RedemptionOf, Entry, Line

\* The lines of a journal are finitely many, two of each entry.
LEMMA LinesAreTwo ==
  ASSUME posted \in Seq(Postings)
  PROVE  /\ IsFiniteSet(Lines(posted))
         /\ \A p : p \in Lines(posted) <=>
              \E n \in DOMAIN posted, i \in {1, 2} : p = <<n, i>>
         /\ \A p \in Lines(posted) :
              /\ p[1] \in DOMAIN posted /\ p[2] \in {1, 2} /\ p = <<p[1], p[2]>>
              /\ At(posted, p) = posted[p[1]].lines[p[2]]
              /\ IsPosting(posted[p[1]])
<1>1. DOMAIN posted = 1..Len(posted) /\ Len(posted) \in Nat
  OBVIOUS
<1>2. \A n \in DOMAIN posted : IsPosting(posted[n]) /\ DOMAIN posted[n].lines = {1, 2}
  BY PostingsMakeSense DEF IsPosting
<1>3. Lines(posted) = (DOMAIN posted) \X {1, 2}
  <2>1. ASSUME NEW p \in Lines(posted) PROVE p \in (DOMAIN posted) \X {1, 2}
    <3>1. PICK n \in DOMAIN posted : p \in {n} \X (DOMAIN posted[n].lines)
      BY <2>1 DEF Lines
    <3> QED BY <3>1, <1>2
  <2>2. ASSUME NEW n \in DOMAIN posted, NEW i \in {1, 2} PROVE <<n, i>> \in Lines(posted)
    <3>1. <<n, i>> \in {n} \X (DOMAIN posted[n].lines)
      BY <1>2
    <3> QED BY <3>1 DEF Lines
  <2>3. ASSUME NEW p \in (DOMAIN posted) \X {1, 2} PROVE p \in Lines(posted)
    <3>1. p = <<p[1], p[2]>> /\ p[1] \in DOMAIN posted /\ p[2] \in {1, 2}
      OBVIOUS
    <3> QED BY <2>2, <3>1
  <2> QED BY <2>1, <2>3
<1>4. IsFiniteSet((DOMAIN posted) \X {1, 2})
  <2>1. IsFiniteSet(DOMAIN posted)
    BY <1>1, FS_Interval
  <2>2. IsFiniteSet({1} \cup {2})
    BY FS_Singleton, FS_AddElement
  <2>3. IsFiniteSet({1, 2})
    <3>1. {1} \cup {2} = {1, 2}
      OBVIOUS
    <3> QED BY <2>2, <3>1
  <2> QED BY <2>1, <2>3, FS_Product
<1> QED BY <1>2, <1>3, <1>4 DEF At

\* What a balance sums.
LEMMA NetIsASum ==
  ASSUME posted \in Seq(Postings), NEW a, NEW S \in SUBSET Lines(posted),
         NEW f, \A p \in S : f[p] = Signed(a, At(posted, p))
  PROVE  /\ IsFiniteSet(S)
         /\ Net(a, posted, S) = SumFunctionOnSet(f, S)
         /\ Net(a, posted, S) \in Int
         /\ \A p \in S : f[p] \in Int
<1>1. IsFiniteSet(S)
  BY LinesAreTwo, FS_Subset
<1>2. \A p \in S : Signed(a, At(posted, p)) \in Int
  <2> SUFFICES ASSUME NEW p \in S PROVE At(posted, p).amount \in Int
    BY DEF Signed
  <2> QED BY LinesAreTwo DEF IsPosting
<1>3. Net(a, posted, S) = SumFunctionOnSet(f, S)
  BY <1>1, SumsAgree DEF Net
<1> QED BY <1>1, <1>2, <1>3, SumTakesAny

-----------------------------------------------------------------------------
(***************************************************************************)
(* The general ledger.                                                     *)
(***************************************************************************)

\* A line is on one investor's ledger in one currency, and on no other.
LEMMA AccountsAreSplit ==
  ASSUME posted \in Seq(Postings), NEW a
  PROVE  AccountBalance(a, posted)
           = SumFunction([uc \in Users \X Currencies |->
                            InvestorBalance(a, uc[1], uc[2], posted)])
<1> DEFINE S == LinesIn(a, posted)
           K == Users \X Currencies
           f == [p \in S |-> Signed(a, At(posted, p))]
           g == [p \in S |-> <<At(posted, p).investor, posted[p[1]].currency>>]
           b == [uc \in K |-> InvestorBalance(a, uc[1], uc[2], posted)]
<1>1. S \in SUBSET Lines(posted)
  BY DEF LinesIn
<1>2. IsFiniteSet(S) /\ AccountBalance(a, posted) = SumFunctionOnSet(f, S)
      /\ \A p \in S : f[p] \in Int
  <2>1. \A p \in S : f[p] = Signed(a, At(posted, p))
    OBVIOUS
  <2> HIDE DEF f, S
  <2>2. Net(a, posted, S) = SumFunctionOnSet(f, S)
    BY <1>1, <2>1, NetIsASum
  <2> QED BY <1>1, <2>1, <2>2, NetIsASum DEF AccountBalance, S
<1>3. \A p \in S : g[p] \in K
  BY <1>1, LinesAreTwo DEF IsPosting
<1>4. IsFiniteSet(K)
  BY StatementConstants, FS_Product
<1>5. ASSUME NEW uc \in K PROVE PerKey(f, g, S, K)[uc] = b[uc]
  <2> DEFINE T == {p \in S : g[p] = uc}
  <2>1. T = LinesOf(a, uc[1], uc[2], posted)
    BY DEF LinesOf
  <2>2. T \in SUBSET Lines(posted) /\ \A p \in T : f[p] = Signed(a, At(posted, p))
    BY <1>1
  <2> HIDE DEF T, f
  <2>3. Net(a, posted, T) = SumFunctionOnSet(f, T)
    BY <2>2, NetIsASum
  <2> QED BY <2>1, <2>3 DEF PerKey, InvestorBalance, T
<1>6. SumFunctionOnSet(f, S) = SumFunctionOnSet(PerKey(f, g, S, K), K)
  <2> HIDE DEF f, g, K, S
  <2> QED BY <1>2, <1>3, <1>4, SumsByKey
<1>7. SumFunctionOnSet(PerKey(f, g, S, K), K) = SumFunctionOnSet(b, K)
  <2> HIDE DEF f, g, K, S, b
  <2> QED BY <1>4, <1>5, SumsAgree
<1>8. SumFunction(b) = SumFunctionOnSet(b, K)
  BY DEF SumFunction
<1> HIDE DEF f, g, K, S
<1> QED BY <1>2, <1>6, <1>7, <1>8 DEF K

\* Debits less credits.
Debited(p) ==
  IF At(posted, p).direction = "DEBIT" THEN At(posted, p).amount ELSE 0 - At(posted, p).amount

\* Each entry debits what it credits, and so does the journal.
LEMMA JournalBalances ==
  ASSUME posted \in Seq(Postings), NEW f, \A p \in Lines(posted) : f[p] = Debited(p)
  PROVE  /\ \A p \in Lines(posted) : f[p] \in Int
         /\ SumFunctionOnSet(f, Lines(posted)) = 0
<1> DEFINE W == Lines(posted)
           D == DOMAIN posted
           g == [p \in W |-> p[1]]
<1>1. \A p \in W : f[p] \in Int /\ g[p] \in D
  <2> SUFFICES ASSUME NEW p \in W PROVE At(posted, p).amount \in Int /\ p[1] \in D
    BY DEF Debited
  <2> QED BY LinesAreTwo DEF IsPosting
<1>2. IsFiniteSet(W) /\ IsFiniteSet(D)
  <2>1. D = 1..Len(posted) /\ Len(posted) \in Nat
    OBVIOUS
  <2>2. IsFiniteSet(W)
    BY LinesAreTwo
  <2>3. IsFiniteSet(1..Len(posted))
    BY <2>1, FS_Interval
  <2> QED BY <2>1, <2>2, <2>3
<1>3. SumFunctionOnSet(f, W) = SumFunctionOnSet(PerKey(f, g, W, D), D)
  <2> HIDE DEF W, D, g
  <2> QED BY <1>1, <1>2, SumsByKey
<1>4. ASSUME NEW n \in D PROVE PerKey(f, g, W, D)[n] = 0
  <2> DEFINE p == <<n, 1>>
             q == <<n, 2>>
             T == {r \in W : g[r] = n}
  <2>1. p \in W /\ q \in W /\ T = {p, q} /\ p # q
    BY LinesAreTwo
  <2>2. f[p] = posted[n].lines[1].amount /\ f[q] = 0 - posted[n].lines[1].amount
        /\ posted[n].lines[1].amount \in Int
    <3>1. At(posted, p) = posted[n].lines[1] /\ At(posted, q) = posted[n].lines[2]
      BY DEF At
    <3>2. IsPosting(posted[n])
      BY <2>1, LinesAreTwo
    <3>3. f[p] = Debited(p) /\ f[q] = Debited(q)
      BY <2>1
    <3> QED BY <3>1, <3>2, <3>3 DEF Debited, IsPosting
  <2> HIDE DEF p, q
  <2>3. f[p] \in Int /\ f[q] \in Int
    BY <2>2
  <2>4. SumFunctionOnSet(f, {p, q}) = f[p] + f[q]
    BY <2>1, <2>3, SumOfTwo
  <2>5. SumFunctionOnSet(f, {p, q}) = 0
    BY <2>2, <2>4
  <2> QED BY <2>1, <2>5 DEF PerKey
<1>5. SumFunctionOnSet(PerKey(f, g, W, D), D) = 0
  <2> HIDE DEF W, D, g
  <2> QED BY <1>2, <1>4, SumsOfNone
<1> QED BY <1>1, <1>3, <1>5

\* An account has what it is debited, or credited, by its normal balance.
LEMMA BalanceOfAccount ==
  ASSUME posted \in Seq(Postings), NEW a, NEW f, \A p \in Lines(posted) : f[p] = Debited(p)
  PROVE  /\ AccountBalance(a, posted) \in Int
         /\ SumFunctionOnSet(f, LinesIn(a, posted)) \in Int
         /\ AccountBalance(a, posted) =
              IF NormalBalance(a) = "DEBIT" THEN SumFunctionOnSet(f, LinesIn(a, posted))
              ELSE 0 - SumFunctionOnSet(f, LinesIn(a, posted))
<1> DEFINE S == LinesIn(a, posted)
           e == [p \in S |-> Signed(a, At(posted, p))]
<1>1. S \in SUBSET Lines(posted) /\ \A p \in S : e[p] = Signed(a, At(posted, p))
  BY DEF LinesIn
<1>2. /\ IsFiniteSet(S) /\ AccountBalance(a, posted) = SumFunctionOnSet(e, S)
      /\ AccountBalance(a, posted) \in Int
  <2> HIDE DEF e
  <2> QED BY <1>1, NetIsASum DEF AccountBalance
<1>3. \A p \in S : f[p] \in Int
  BY <1>1, JournalBalances
<1>4. NormalBalance(a) \in {"DEBIT", "CREDIT"}
  BY DEF NormalBalance
<1>5. \A p \in S : At(posted, p).direction \in {"DEBIT", "CREDIT"} /\ At(posted, p).amount \in Int
  BY <1>1, LinesAreTwo DEF IsPosting
<1>6. CASE NormalBalance(a) = "DEBIT"
  <2>1. \A p \in S : f[p] = e[p]
    BY <1>1, <1>6 DEF Debited, Signed
  <2> HIDE DEF e, S
  <2>2. SumFunctionOnSet(f, S) = SumFunctionOnSet(e, S)
    BY <1>2, <2>1, SumsAgree
  <2> QED BY <1>2, <1>6, <2>2 DEF S
<1>7. CASE NormalBalance(a) = "CREDIT"
  <2>1. \A p \in S : e[p] = 0 - f[p]
    BY <1>1, <1>5, <1>7 DEF Debited, Signed
  <2> HIDE DEF e, S
  <2>2. /\ SumFunctionOnSet(f, S) \in Int
        /\ SumFunctionOnSet(e, S) = 0 - SumFunctionOnSet(f, S)
    BY <1>2, <1>3, <2>1, SumsNegate
  <2> QED BY <1>2, <1>7, <2>2 DEF S
<1> QED BY <1>4, <1>6, <1>7

\* The general ledger, and its trial balance.
LEMMA LedgersDoAgree ==
  ASSUME posted \in Seq(Postings)
  PROVE  LedgersAgree
<1> DEFINE W == Lines(posted)
           all == AllBalances(posted)
           used == {At(posted, p).account : p \in W}
           side(d) == {a \in used : NormalBalance(a) = d}
           f == [p \in W |-> Debited(p)]
           g == [p \in W |-> At(posted, p).account]
           h == PerKey(f, g, W, used)
<1>1. DOMAIN all = used /\ \A a \in used : all[a] = AccountBalance(a, posted)
  BY DEF AllBalances
<1>2. \A a \in used :
        all[a] = SumFunction([uc \in Users \X Currencies |->
                                InvestorBalance(a, uc[1], uc[2], posted)])
  BY <1>1, AccountsAreSplit
<1>f. \A p \in W : f[p] = Debited(p)
  OBVIOUS
<1>3. IsFiniteSet(W) /\ IsFiniteSet(used)
  <2>1. IsFiniteSet(W)
    BY LinesAreTwo
  <2>2. used = {g[p] : p \in W}
    OBVIOUS
  <2> HIDE DEF W, used, g
  <2> QED BY <2>1, <2>2, ImageIsFinite
<1>4. SumFunctionOnSet(h, used) = 0
  <2>1. \A p \in W : g[p] \in used
    OBVIOUS
  <2> HIDE DEF f, g, W, used
  <2> QED BY <1>3, <1>f, <2>1, JournalBalances, SumsByKey DEF W
<1>5. ASSUME NEW a \in used
      PROVE  /\ h[a] \in Int /\ all[a] \in Int
             /\ all[a] = IF NormalBalance(a) = "DEBIT" THEN h[a] ELSE 0 - h[a]
  <2>1. h[a] = SumFunctionOnSet(f, LinesIn(a, posted))
    BY DEF PerKey, LinesIn
  <2> HIDE DEF f, h
  <2> QED BY <1>1, <1>f, <2>1, BalanceOfAccount
<1>6. /\ side("DEBIT") \subseteq used /\ side("CREDIT") = used \ side("DEBIT")
      /\ IsFiniteSet(side("DEBIT")) /\ IsFiniteSet(side("CREDIT"))
  <2>1. \A a : NormalBalance(a) \in {"DEBIT", "CREDIT"} /\ "DEBIT" # "CREDIT"
    BY DEF NormalBalance
  <2>2. side("DEBIT") \subseteq used /\ side("CREDIT") = used \ side("DEBIT")
    BY <2>1
  <2> HIDE DEF used
  <2> QED BY <1>3, <2>2, FS_Subset
<1>7. /\ SumFunctionOnSet(h, side("DEBIT")) \in Int
      /\ SumFunctionOnSet(h, side("CREDIT")) \in Int
      /\ SumFunctionOnSet(h, used) = SumFunctionOnSet(h, side("DEBIT"))
                                       + SumFunctionOnSet(h, side("CREDIT"))
  <2>1. PICK T : T = side("DEBIT")
    OBVIOUS
  <2>2. T \subseteq used /\ side("CREDIT") = used \ T
    BY <2>1, <1>6
  <2> HIDE DEF h, used, side
  <2>3. /\ SumFunctionOnSet(h, T) \in Int /\ SumFunctionOnSet(h, used \ T) \in Int
        /\ SumFunctionOnSet(h, used) = SumFunctionOnSet(h, T) + SumFunctionOnSet(h, used \ T)
    BY <1>3, <1>5, <2>2, SumsSplit
  <2> QED BY <2>1, <2>2, <2>3
<1>8. SumFunctionOnSet(all, side("DEBIT")) = SumFunctionOnSet(h, side("DEBIT"))
  <2>1. \A a \in side("DEBIT") : all[a] = h[a]
    BY <1>5
  <2> HIDE DEF h, all, side
  <2> QED BY <1>6, <2>1, SumsAgree
<1>9. SumFunctionOnSet(all, side("CREDIT")) = 0 - SumFunctionOnSet(h, side("CREDIT"))
  <2>1. \A a \in side("CREDIT") : h[a] \in Int /\ all[a] = 0 - h[a]
    BY <1>5
  <2> HIDE DEF h, all, side
  <2> QED BY <1>6, <2>1, SumsNegate
<1>10. SumFunctionOnSet(all, side("DEBIT")) = SumFunctionOnSet(all, side("CREDIT"))
  <2> HIDE DEF h, all, used, side
  <2> QED BY <1>4, <1>7, <1>8, <1>9
<1> QED BY <1>1, <1>2, <1>10 DEF LedgersAgree

-----------------------------------------------------------------------------
(***************************************************************************)
(* Statements.                                                             *)
(***************************************************************************)

\* The k-th newest runs through a finite set of entries, each once.
LEMMA NewestFirst ==
  ASSUME NEW S \in SUBSET Nat, IsFiniteSet(S)
  PROVE  /\ \A k \in 1..Cardinality(S) : NthNewest(S, k) \in S
         /\ \A j, k \in 1..Cardinality(S) : NthNewest(S, j) = NthNewest(S, k) => j = k
         /\ \A n \in S : \E k \in 1..Cardinality(S) : NthNewest(S, k) = n
<1> DEFINE from(n) == {m \in S : m >= n}
           N == Cardinality(S)
           rank == [n \in S |-> Cardinality(from(n))]
<1>1. N \in Nat /\ IsFiniteSet(1..N) /\ Cardinality(1..N) = N
  BY FS_CardinalityType, FS_Interval
<1>2. \A n \in S : rank[n] \in 1..N
  <2> SUFFICES ASSUME NEW n \in S PROVE Cardinality(from(n)) \in 1..N
    OBVIOUS
  <2>1. from(n) \in SUBSET S /\ n \in from(n)
    OBVIOUS
  <2> HIDE DEF from
  <2>2. /\ IsFiniteSet(from(n)) /\ Cardinality(from(n)) <= N
        /\ Cardinality(from(n)) \in Nat
    BY <2>1, FS_Subset, FS_CardinalityType
  <2>3. Cardinality(from(n)) # 0
    BY <2>1, <2>2, FS_EmptySet
  <2> QED BY <2>2, <2>3, <1>1
<1>3. ASSUME NEW m \in S, NEW n \in S, m < n PROVE rank[m] # rank[n]
  <2>0. m \in Nat /\ n \in Nat /\ \A x \in S : x \in Nat
    OBVIOUS
  <2>a. \A x \in S : x >= n => x >= m
    BY <1>3, <2>0
  <2>b. m >= m /\ ~(m >= n)
    BY <1>3, <2>0
  <2>1. from(n) \in SUBSET from(m) /\ m \in from(m) /\ m \notin from(n) /\ from(m) \in SUBSET S
    BY <2>a, <2>b
  <2> HIDE DEF from
  <2>2. IsFiniteSet(from(m))
    BY <2>1, FS_Subset
  <2>3. Cardinality(from(m)) # Cardinality(from(n))
    BY <2>1, <2>2, FS_Subset
  <2> QED BY <2>3
<1>4. \A m, n \in S : rank[m] = rank[n] => m = n
  <2> HIDE DEF rank
  <2> QED BY <1>3
<1>5. rank \in Injection(S, 1..N)
  <2>1. rank \in [S -> 1..N]
    BY <1>2
  <2> HIDE DEF rank, N
  <2> QED BY <1>4, <2>1 DEF Injection, IsInjective
<1>6. rank \in Surjection(S, 1..N)
  <2> HIDE DEF rank
  <2> QED BY <1>1, <1>5, FS_Injection
<1>7. \A k \in 1..N : \E n \in S : rank[n] = k
  <2> HIDE DEF rank, N
  <2> QED BY <1>6 DEF Surjection
<1>8. ASSUME NEW k \in 1..N PROVE NthNewest(S, k) \in S /\ rank[NthNewest(S, k)] = k
  <2>1. \E n \in S : Cardinality({m \in S : m >= n}) = k
    BY <1>7
  <2> QED BY <2>1 DEF NthNewest
<1> QED
  <2> HIDE DEF rank, N
  <2>1. \A k \in 1..N : NthNewest(S, k) \in S
    BY <1>8
  <2>2. \A j, k \in 1..N : NthNewest(S, j) = NthNewest(S, k) => j = k
    BY <1>8
  <2>3. \A n \in S : \E k \in 1..N : NthNewest(S, k) = n
    BY <1>2, <1>4, <1>8
  <2> QED BY <2>1, <2>2, <2>3 DEF N

\* An entry has one line at most of one investor's account.
LEMMA OneLineEach ==
  ASSUME posted \in Seq(Postings), NEW a, NEW u, NEW c,
         NEW p \in LinesOf(a, u, c, posted), NEW q \in LinesOf(a, u, c, posted),
         p[1] = q[1]
  PROVE  p = q
<1>1. p \in Lines(posted) /\ q \in Lines(posted)
  BY DEF LinesOf, LinesIn
<1>2. /\ p = <<p[1], p[2]>> /\ q = <<p[1], q[2]>> /\ p[2] \in {1, 2} /\ q[2] \in {1, 2}
      /\ IsPosting(posted[p[1]])
      /\ At(posted, p) = posted[p[1]].lines[p[2]] /\ At(posted, q) = posted[p[1]].lines[q[2]]
  BY <1>1, LinesAreTwo
<1>3. /\ At(posted, p).account = a /\ At(posted, p).investor = u
      /\ At(posted, q).account = a /\ At(posted, q).investor = u
  BY DEF LinesOf, LinesIn
<1>4. p[2] = q[2]
  BY <1>2, <1>3 DEF IsPosting
<1> QED BY <1>2, <1>4

\* The statement of an account, newest first, is its lines, each once.
LEMMA StatementAddsUp ==
  ASSUME posted \in Seq(Postings), NEW a, NEW u, NEW c,
         NEW M, M = LinesOf(a, u, c, posted),
         NEW mine, mine = {p[1] : p \in M},
         NEW n, n = Cardinality(mine)
  PROVE  /\ n \in Nat
         /\ SumFunction([k \in 1..n |-> Signed(a, At(posted, FirstLine(M, NthNewest(mine, k))))])
              = InvestorBalance(a, u, c, posted)
<1> DEFINE K == 1..n
           b == [k \in K |-> FirstLine(M, NthNewest(mine, k))]
           e == [k \in K |-> Signed(a, At(posted, FirstLine(M, NthNewest(mine, k))))]
           f == [p \in M |-> Signed(a, At(posted, p))]
<1>1. M \in SUBSET Lines(posted) /\ \A p \in M : p[1] \in DOMAIN posted
  BY LinesAreTwo DEF LinesOf, LinesIn
<1>2. /\ IsFiniteSet(M) /\ InvestorBalance(a, u, c, posted) = SumFunctionOnSet(f, M)
      /\ \A p \in M : f[p] \in Int
  <2>1. \A p \in M : f[p] = Signed(a, At(posted, p))
    OBVIOUS
  <2> HIDE DEF f
  <2>2. /\ IsFiniteSet(M) /\ Net(a, posted, M) = SumFunctionOnSet(f, M)
        /\ \A p \in M : f[p] \in Int
    BY <1>1, <2>1, NetIsASum
  <2> QED BY <2>2 DEF InvestorBalance
<1>3. IsFiniteSet(mine) /\ mine \in SUBSET Nat /\ n \in Nat /\ IsFiniteSet(K)
  <2>1. PICK g : g = [p \in M |-> p[1]]
    OBVIOUS
  <2>2. IsFiniteSet({g[p] : p \in M})
    BY <1>2, ImageIsFinite
  <2>3. IsFiniteSet(mine)
    <3>1. \A p \in M : g[p] = p[1]
      BY <2>1
    <3>2. mine = {g[p] : p \in M}
      BY <3>1
    <3> QED BY <2>2, <3>2
  <2>4. mine \in SUBSET Nat
    BY <1>1
  <2> QED BY <2>3, <2>4, FS_CardinalityType, FS_Interval
<1>4. \A p, q \in M : p[1] = q[1] => p = q
  BY OneLineEach
<1>5. ASSUME NEW p \in M PROVE FirstLine(M, p[1]) = p
  <2>0. p[2] \in {1, 2}
    BY <1>1, LinesAreTwo
  <2>1. \A q \in M : q[1] = p[1] => q = p
    BY <1>4
  <2>2. p[1] = p[1] /\ \A q \in M : q[1] = p[1] => p[2] <= q[2]
    BY <2>0, <2>1
  <2>3. \E r \in M : r[1] = p[1] /\ \A q \in M : q[1] = p[1] => r[2] <= q[2]
    BY <2>2
  <2>4. FirstLine(M, p[1]) \in M /\ FirstLine(M, p[1])[1] = p[1]
    BY <2>3 DEF FirstLine
  <2> QED BY <2>1, <2>4
<1>6. ASSUME NEW k \in K PROVE b[k] \in M /\ b[k][1] = NthNewest(mine, k)
  <2>1. NthNewest(mine, k) \in mine
    BY <1>3, NewestFirst
  <2>2. PICK p \in M : p[1] = NthNewest(mine, k)
    BY <2>1
  <2>3. FirstLine(M, NthNewest(mine, k)) = p
    BY <2>2, <1>5
  <2> QED BY <2>2, <2>3
<1>7. \A j, k \in K : b[j] = b[k] => j = k
  <2> SUFFICES ASSUME NEW j \in K, NEW k \in K, b[j] = b[k] PROVE j = k
    OBVIOUS
  <2>1. NthNewest(mine, j) = NthNewest(mine, k)
    BY <1>6
  <2> QED BY <1>3, <2>1, NewestFirst
<1>8. \A p \in M : \E k \in K : b[k] = p
  <2> SUFFICES ASSUME NEW p \in M PROVE \E k \in K : b[k] = p
    OBVIOUS
  <2>1. p[1] \in mine
    OBVIOUS
  <2>2. PICK k \in K : NthNewest(mine, k) = p[1]
    BY <1>3, <2>1, NewestFirst
  <2> QED BY <1>5, <2>2
<1>9. \A k \in K : b[k] \in M /\ e[k] = f[b[k]]
  BY <1>6
<1>10. SumFunctionOnSet(e, K) = SumFunctionOnSet(f, M)
  <2> HIDE DEF b, e, f, K
  <2> QED BY <1>2, <1>3, <1>7, <1>8, <1>9, SumsRename
<1>11. SumFunction(e) = SumFunctionOnSet(e, K)
  BY DEF SumFunction
<1> HIDE DEF e
<1> QED BY <1>2, <1>3, <1>10, <1>11 DEF e

\* The insert checks that no mapping of the user and currency is there.
OneMappingEach ==
  /\ mapping \subseteq MappingInputs
  /\ \A m, n \in mapping : m.user = n.user /\ m.currency = n.currency => m = n

\* A query about a provisioned account is about that account.
LEMMA MappedIsShown ==
  ASSUME OneMappingEach, NEW m \in mapping
  PROVE  /\ MappedAccount(m.user, m.currency) = Shown(m.account)
         /\ Shown(m.account).ok /\ Shown(m.account).value = m.account
<1>1. m.currency \in Currencies
  BY StatementConstants DEF OneMappingEach
<1>2. MappingOf(m.user, m.currency) = {m}
  BY DEF MappingOf, OneMappingEach
<1>3. (CHOOSE n \in {m} : TRUE) = m
  OBVIOUS
<1> QED BY <1>1, <1>2, <1>3 DEF MappedAccount, Shown

\* A page has a row at least, and no more than the greatest page.
LEMMA PagesAreBounded ==
  /\ PageLimit \in Nat /\ SafeLimit(PageLimit) = PageLimit
  /\ \A limit \in -1..PageLimit : SafeLimit(limit) \in 1..PageLimit
<1>1. PageLimit \in Nat /\ PageDefault \in Nat /\ 1 <= PageDefault /\ PageDefault <= PageLimit
  <2>1. PageLimit \in Nat /\ PageDefault \in 1..PageLimit
    BY StatementConstants
  <2> QED BY <2>1
<1>2. SafeLimit(PageLimit) = PageLimit
  BY <1>1 DEF SafeLimit
<1>3. ASSUME NEW limit \in -1..PageLimit PROVE SafeLimit(limit) \in 1..PageLimit
  <2>1. limit \in Int /\ limit <= PageLimit
    BY <1>1
  <2> QED BY <1>1, <2>1 DEF SafeLimit
<1> QED BY <1>1, <1>2, <1>3

\* Statements and balances, for any mapping and any length of a page.
LEMMA StatementsDoMatch ==
  ASSUME posted \in Seq(Postings), OneMappingEach
  PROVE  StatementsMatchBalances
<1> SUFFICES ASSUME NEW m \in mapping
             PROVE  LET full == MyTransactions(m.user, m.currency, PageLimit).value IN
                    /\ Len(full) < PageLimit =>
                         MyBalance(m.user, m.currency).value =
                           SumFunction([k \in DOMAIN full |-> Signed(m.account, full[k])])
                    /\ \A limit \in -1..PageLimit :
                         LET page == MyTransactions(m.user, m.currency, limit).value
                         IN page = SubSeq(full, 1, Len(page))
  BY DEF StatementsMatchBalances
<1> DEFINE M == LinesOf(m.account, m.user, m.currency, posted)
           mine == {p[1] : p \in M}
           n == Cardinality(mine)
           Row(k) == At(posted, FirstLine(M, NthNewest(mine, k)))
           size(limit) == IF SafeLimit(limit) < n THEN SafeLimit(limit) ELSE n
           page(limit) == MyTransactions(m.user, m.currency, limit).value
           full == page(PageLimit)
<1>1. n \in Nat
      /\ SumFunction([k \in 1..n |-> Signed(m.account, Row(k))])
           = InvestorBalance(m.account, m.user, m.currency, posted)
  BY ZenonT(30), StatementAddsUp
<1>s. \A v : Shown(v).value = v
  BY DEF Shown
<1>m. /\ MappedAccount(m.user, m.currency).ok
      /\ MappedAccount(m.user, m.currency).value = m.account
  BY MappedIsShown
<1>2. \A limit : page(limit) = [k \in 1..size(limit) |-> Row(k)]
  <2> SUFFICES ASSUME NEW limit PROVE page(limit) = [k \in 1..size(limit) |-> Row(k)]
    OBVIOUS
  <2>1. MyTransactions(m.user, m.currency, limit)
          = Shown([k \in 1..size(limit) |-> Row(k)])
    BY <1>m DEF MyTransactions
  <2> QED BY <1>s, <2>1
<1>3. MyBalance(m.user, m.currency).value
        = InvestorBalance(m.account, m.user, m.currency, posted)
  <2>1. MyBalance(m.user, m.currency)
          = Shown(InvestorBalance(m.account, m.user, m.currency, posted))
    BY <1>m DEF MyBalance
  <2> QED BY <1>s, <2>1
<1>4. /\ PageLimit \in Nat /\ SafeLimit(PageLimit) = PageLimit
      /\ \A limit \in -1..PageLimit : SafeLimit(limit) \in 1..PageLimit
  BY PagesAreBounded
<1> HIDE DEF M, mine, n, Row, page
<1>5. \A limit \in -1..PageLimit : size(limit) \in Nat /\ size(limit) <= size(PageLimit)
  BY SMTT(30), <1>1, <1>4
<1>6. size(PageLimit) \in Nat
  BY <1>1, <1>4
<1>7. \A limit \in -1..PageLimit : Len(page(limit)) = size(limit)
  BY <1>2, <1>5
<1>8. full = [k \in 1..size(PageLimit) |-> Row(k)] /\ Len(full) = size(PageLimit)
  BY <1>2, <1>6
<1>9. ASSUME Len(full) < PageLimit
      PROVE  MyBalance(m.user, m.currency).value
               = SumFunction([k \in DOMAIN full |-> Signed(m.account, full[k])])
  <2>1. size(PageLimit) = n
    BY <1>1, <1>4, <1>8, <1>9
  <2>2. [k \in DOMAIN full |-> Signed(m.account, full[k])]
          = [k \in 1..n |-> Signed(m.account, Row(k))]
    BY <1>8, <2>1
  <2> QED BY <1>1, <1>3, <2>2
<1>10. ASSUME NEW limit \in -1..PageLimit
       PROVE  page(limit) = SubSeq(full, 1, Len(page(limit)))
  <2> DEFINE z == size(limit)
  <2>1. page(limit) = [k \in 1..z |-> Row(k)] /\ Len(page(limit)) = z
    BY <1>2, <1>7
  <2>2. z \in Nat /\ z <= size(PageLimit)
    BY <1>5
  <2> HIDE DEF z
  <2>3. SubSeq(full, 1, z) = [k \in 1..z |-> full[k]]
    BY <1>6, <1>8, <2>2
  <2>4. \A k \in 1..z : full[k] = Row(k)
    BY <1>6, <1>8, <2>2
  <2> QED BY <2>1, <2>3, <2>4
<1> QED BY <1>9, <1>10 DEF page

-----------------------------------------------------------------------------
(***************************************************************************)
(* Portfolios.                                                             *)
(***************************************************************************)

\* The sum of one value over a set.
LEMMA SumOfSame ==
  ASSUME NEW f, NEW S, IsFiniteSet(S), NEW v \in Int, \A x \in S : f[x] = v
  PROVE  Cardinality(S) \in Nat /\ SumFunctionOnSet(f, S) = v * Cardinality(S)
<1> DEFINE Good == {s \in SUBSET S : SumFunctionOnSet(f, s) = v * Cardinality(s)}
<1>1. {} \in Good
  <2>1. SumFunctionOnSet(f, {}) = 0 /\ Cardinality({}) = 0
    BY SumUnfolds, FS_EmptySet
  <2>2. v * 0 = 0
    OBVIOUS
  <2> QED BY <2>1, <2>2
<1>2. ASSUME NEW s \in SUBSET S, s # {}, Others(s) \in Good PROVE s \in Good
  <2> DEFINE k == Cardinality(Others(s))
  <2>1. IsFiniteSet(s)
    BY FS_Subset
  <2>2. /\ SumFunctionOnSet(f, s) = f[First(s)] + SumFunctionOnSet(f, Others(s))
        /\ First(s) \in S
    BY <1>2, <2>1, SumUnfolds, FirstAndOthers
  <2>3. k \in Nat /\ Cardinality(s) = k + 1
    BY <1>2, <2>1, FirstAndOthers
  <2>4. SumFunctionOnSet(f, s) = v + v * k
    BY <1>2, <2>2
  <2> HIDE DEF k
  <2>5. v * (k + 1) = v + v * k
    BY <2>3
  <2> QED BY <2>3, <2>4, <2>5
<1>3. S \in Good
  <2> HIDE DEF Good
  <2> QED BY <1>1, <1>2, BySize
<1> QED BY <1>3, FS_CardinalityType

\* What is posted on acct_2200 funds a subscription or redeems it.
LEMMA HoldingLines ==
  ASSUME NEW e \in Postings, NEW i \in {1, 2}, e.lines[i].account = "acct_2200"
  PROVE  \E h \in Holdings :
           /\ e.lines[i].holding = h.id /\ e.lines[i].investor = h.user
           /\ e.lines[i].amount = h.amount /\ e.currency = h.currency
           /\ (i = 1 /\ e = RedemptionOf(h)) \/ (i = 2 /\ e = FundingOf(h))
<1>1. e \notin CashEntries
  <2> SUFFICES ASSUME e \in CashEntries PROVE FALSE
    OBVIOUS
  <2>1. PICK t \in CashTerms : e = CashEntry(t)
    BY DEF CashEntries
  <2>2. e.lines[1].account = t.debit /\ e.lines[2].account = t.credit
    BY <2>1 DEF CashEntry, Entry, Line
  <2> QED BY <2>1, <2>2 DEF CashTerms, CashAccounts
<1>2. \A h \in Holdings : /\ FundingOf(h).lines[1].account = "acct_2100"
                          /\ RedemptionOf(h).lines[2].account = "acct_2100"
  BY DEF FundingOf, RedemptionOf, Entry, Line
<1>3. PICK h \in Holdings : (i = 1 /\ e = RedemptionOf(h)) \/ (i = 2 /\ e = FundingOf(h))
  BY <1>1, <1>2 DEF Postings
<1>4. /\ e.lines[i].holding = h.id /\ e.lines[i].investor = h.user
      /\ e.lines[i].amount = h.amount /\ e.currency = h.currency
  BY <1>3 DEF FundingOf, RedemptionOf, Entry, Line
<1> QED BY <1>3, <1>4

\* The entries of a subscription, by the direction of their acct_2200 line.
LEMMA HoldsMeans ==
  ASSUME NEW e \in Postings, NEW h \in Holdings
  PROVE  /\ Holds(e, "CREDIT", h) <=> e = FundingOf(h)
         /\ Holds(e, "DEBIT", h) <=> e = RedemptionOf(h)
<1>1. /\ DOMAIN e.lines = {1, 2}
      /\ e.lines[1].direction = "DEBIT" /\ e.lines[2].direction = "CREDIT"
  BY PostingsMakeSense DEF IsPosting
<1>2. ASSUME e = FundingOf(h)
      PROVE  e.lines[2].account = "acct_2200" /\ e.lines[2].holding = h.id
  BY <1>2 DEF FundingOf, Entry, Line
<1>3. ASSUME e = RedemptionOf(h)
      PROVE  e.lines[1].account = "acct_2200" /\ e.lines[1].holding = h.id
  BY <1>3 DEF RedemptionOf, Entry, Line
<1>4. ASSUME NEW i \in {1, 2}, e.lines[i].account = "acct_2200", e.lines[i].holding = h.id
      PROVE  (i = 1 /\ e = RedemptionOf(h)) \/ (i = 2 /\ e = FundingOf(h))
  <2>1. PICK g \in Holdings :
          /\ e.lines[i].holding = g.id
          /\ (i = 1 /\ e = RedemptionOf(g)) \/ (i = 2 /\ e = FundingOf(g))
    BY <1>4, HoldingLines
  <2>2. g = h
    BY <1>4, <2>1, HoldingConstants
  <2> QED BY <2>1, <2>2
<1>5. Holds(e, "CREDIT", h) <=> e = FundingOf(h)
  BY <1>1, <1>2, <1>4 DEF Holds
<1>6. Holds(e, "DEBIT", h) <=> e = RedemptionOf(h)
  BY <1>1, <1>3, <1>4 DEF Holds
<1> QED BY <1>5, <1>6

\* The direction of an entry's first line, and of its second.
Side(i) == IF i = 1 THEN "DEBIT" ELSE "CREDIT"

\* A position's lines, each with its entry.
LEMMA LinesOfHolding ==
  ASSUME posted \in Seq(Postings), NEW h \in Holdings
  PROVE  /\ LinesFor(h.user, h) \in SUBSET Lines(posted)
         /\ \A p \in LinesFor(h.user, h) :
              /\ At(posted, p).amount = h.amount
              /\ At(posted, p).direction = Side(p[2])
              /\ Holds(posted[p[1]], Side(p[2]), h)
         /\ \A n \in DOMAIN posted, i \in {1, 2} :
              Holds(posted[n], Side(i), h) => <<n, i>> \in LinesFor(h.user, h)
<1>1. LinesFor(h.user, h) \in SUBSET Lines(posted)
  BY DEF LinesFor, LinesOf, LinesIn
<1>2. ASSUME NEW p \in LinesFor(h.user, h)
      PROVE  /\ At(posted, p).amount = h.amount
             /\ At(posted, p).direction = Side(p[2])
             /\ Holds(posted[p[1]], Side(p[2]), h)
  <2>1. /\ p[1] \in DOMAIN posted /\ p[2] \in {1, 2}
        /\ At(posted, p) = posted[p[1]].lines[p[2]] /\ IsPosting(posted[p[1]])
    BY <1>1, LinesAreTwo
  <2>2. At(posted, p).account = "acct_2200" /\ At(posted, p).holding = h.id
    BY DEF LinesFor, LinesOf, LinesIn
  <2>3. posted[p[1]] \in Postings
    BY <2>1
  <2>4. PICK g \in Holdings :
          At(posted, p).holding = g.id /\ At(posted, p).amount = g.amount
    BY <2>1, <2>2, <2>3, HoldingLines
  <2>5. g = h
    BY <2>2, <2>4, HoldingConstants
  <2>6. At(posted, p).direction = Side(p[2])
    BY <2>1 DEF IsPosting, Side
  <2>7. Holds(posted[p[1]], Side(p[2]), h)
    BY <2>1, <2>2, <2>6 DEF Holds, IsPosting
  <2> QED BY <2>4, <2>5, <2>6, <2>7
<1>3. ASSUME NEW n \in DOMAIN posted, NEW i \in {1, 2}, Holds(posted[n], Side(i), h)
      PROVE  <<n, i>> \in LinesFor(h.user, h)
  <2>1. posted[n] \in Postings /\ <<n, i>> \in Lines(posted)
    BY LinesAreTwo
  <2>2. posted[n] = IF i = 1 THEN RedemptionOf(h) ELSE FundingOf(h)
    BY <1>3, <2>1, HoldsMeans DEF Side
  <2>3. /\ posted[n].currency = h.currency
        /\ posted[n].lines[i].account = "acct_2200" /\ posted[n].lines[i].investor = h.user
        /\ posted[n].lines[i].holding = h.id
    BY <2>2 DEF RedemptionOf, FundingOf, Entry, Line
  <2>4. At(posted, <<n, i>>) = posted[n].lines[i] /\ <<n, i>>[1] = n
    BY DEF At
  <2> QED BY <2>1, <2>3, <2>4 DEF LinesFor, LinesOf, LinesIn
<1> QED BY <1>1, <1>2, <1>3

Marked(direction, h) == {n \in DOMAIN posted : Holds(posted[n], direction, h)}

\* A position's credits, and its debits, are as many as the entries that carry
\* one, at the subscription's amount each.
LEMMA SideOfPosition ==
  ASSUME posted \in Seq(Postings), NEW h \in Holdings, NEW j \in {1, 2},
         NEW M, M = LinesFor(h.user, h), NEW v \in Int,
         NEW f, \A p \in M : p[2] = j => f[p] = v
  PROVE  /\ Times(Side(j), h) \in Nat
         /\ SumFunctionOnSet(f, {p \in M : p[2] = j}) = v * Times(Side(j), h)
<1> DEFINE S == {p \in M : p[2] = j}
           T == Marked(Side(j), h)
           e == [n \in T |-> v]
           b == [p \in S |-> p[1]]
<1>1. IsFiniteSet(S) /\ IsFiniteSet(T)
  <2>1. IsFiniteSet(Lines(posted)) /\ S \subseteq Lines(posted)
    BY LinesAreTwo, LinesOfHolding
  <2>2. DOMAIN posted = 1..Len(posted) /\ Len(posted) \in Nat
    OBVIOUS
  <2>3. IsFiniteSet(DOMAIN posted)
    <3>1. IsFiniteSet(1..Len(posted))
      BY <2>2, FS_Interval
    <3> QED BY <2>2, <3>1
  <2>4. T \subseteq DOMAIN posted
    BY DEF Marked
  <2> HIDE DEF S, T
  <2> QED BY <2>1, <2>3, <2>4, FS_Subset
<1>2. ASSUME NEW p \in S PROVE b[p] \in T /\ f[p] = e[b[p]] /\ p = <<b[p], j>>
  <2>1. Holds(posted[p[1]], Side(j), h)
    BY LinesOfHolding
  <2>2. p[1] \in DOMAIN posted /\ p = <<p[1], p[2]>>
    BY LinesOfHolding, LinesAreTwo
  <2> QED BY <2>1, <2>2 DEF Marked
<1>3. ASSUME NEW n \in T PROVE e[n] \in Int /\ \E p \in S : b[p] = n
  <2>1. <<n, j>> \in M
    BY LinesOfHolding DEF Marked
  <2>2. <<n, j>> \in S /\ b[<<n, j>>] = n
    BY <2>1
  <2> QED BY <2>2
<1>4. SumFunctionOnSet(f, S) = SumFunctionOnSet(e, T)
  <2> HIDE DEF S, T, e, b
  <2>1. \A p, q \in S : b[p] = b[q] => p = q
    BY <1>2
  <2> QED BY <1>1, <1>2, <1>3, <2>1, SumsRename
<1>5. \A n \in T : e[n] = v
  OBVIOUS
<1>6. Cardinality(T) \in Nat /\ SumFunctionOnSet(e, T) = v * Cardinality(T)
  <2> HIDE DEF T, e
  <2> QED BY <1>1, <1>5, SumOfSame
<1>7. Times(Side(j), h) = Cardinality(T)
  BY DEF Times, Marked
<1> HIDE DEF T, e
<1> QED BY <1>4, <1>6, <1>7

\* A position is what funded the subscription less what redeemed it.
LEMMA PositionIs ==
  ASSUME posted \in Seq(Postings), NEW h \in Holdings
  PROVE  /\ Times("CREDIT", h) \in Nat /\ Times("DEBIT", h) \in Nat
         /\ PositionIn(h.user, h)
              = h.amount * Times("CREDIT", h) + (0 - h.amount) * Times("DEBIT", h)
<1> DEFINE M == LinesFor(h.user, h)
           f == [p \in M |-> Signed("acct_2200", At(posted, p))]
           C == {p \in M : p[2] = 2}
           D == {p \in M : p[2] = 1}
<1>1. h.amount \in Nat
  BY HoldingConstants
<1>2. NormalBalance("acct_2200") = "CREDIT" /\ Side(1) = "DEBIT" /\ Side(2) = "CREDIT"
  BY DEF NormalBalance, Chart, Side
<1>3. \A p \in M : /\ p[2] = 2 => f[p] = h.amount
                   /\ p[2] = 1 => f[p] = 0 - h.amount
  BY <1>2, LinesOfHolding DEF Signed, Side
<1>4. M \in SUBSET Lines(posted) /\ \A p \in M : p[2] \in {1, 2}
  BY LinesOfHolding, LinesAreTwo
<1>5. /\ IsFiniteSet(M) /\ PositionIn(h.user, h) = SumFunctionOnSet(f, M)
      /\ \A p \in M : f[p] \in Int
  <2>1. \A p \in M : f[p] = Signed("acct_2200", At(posted, p))
    OBVIOUS
  <2> HIDE DEF f
  <2> QED BY <1>4, <2>1, NetIsASum DEF PositionIn
<1>6. C \subseteq M /\ M \ C = D
  BY <1>4
<1>7. SumFunctionOnSet(f, M) = SumFunctionOnSet(f, C) + SumFunctionOnSet(f, D)
  <2>1. PICK X : X = C
    OBVIOUS
  <2>a. X \subseteq M
    BY <1>6, <2>1
  <2> HIDE DEF f, M, C, D
  <2>2. SumFunctionOnSet(f, M) = SumFunctionOnSet(f, X) + SumFunctionOnSet(f, M \ X)
    BY <1>5, <2>a, SumsSplit
  <2> QED BY <1>6, <2>1, <2>2
<1> HIDE DEF f
<1>8. /\ Times("CREDIT", h) \in Nat
      /\ SumFunctionOnSet(f, C) = h.amount * Times("CREDIT", h)
  <2>1. PICK v \in Int : v = h.amount
    BY <1>1
  <2>2. \A p \in M : p[2] = 2 => f[p] = v
    BY <1>3, <2>1
  <2>3. /\ Times(Side(2), h) \in Nat
        /\ SumFunctionOnSet(f, C) = v * Times(Side(2), h)
    BY <2>2, SideOfPosition
  <2> QED BY <1>2, <2>1, <2>3
<1>9. /\ Times("DEBIT", h) \in Nat
      /\ SumFunctionOnSet(f, D) = (0 - h.amount) * Times("DEBIT", h)
  <2>1. PICK w \in Int : w = 0 - h.amount
    BY <1>1
  <2>a. \A p \in M : p[2] = 1 => f[p] = w
    BY <1>3, <2>1
  <2>2. /\ Times(Side(1), h) \in Nat
        /\ SumFunctionOnSet(f, D) = w * Times(Side(1), h)
    BY <2>a, SideOfPosition
  <2> QED BY <1>2, <2>1, <2>2
<1> QED BY <1>5, <1>7, <1>8, <1>9

\* A subscription is funded once at most, and redeemed only if it was funded.
FundedFirst ==
  \A h \in Holdings : /\ Times("CREDIT", h) \in {0, 1}
                      /\ Times("CREDIT", h) = 0 => Times("DEBIT", h) = 0

\* So a position is the subscription's amount, nothing or, once it was redeemed
\* twice, negative.
LEMMA PositionsFollow ==
  ASSUME posted \in Seq(Postings), FundedFirst, NEW h \in Holdings
  PROVE  LET funded == Times("CREDIT", h)
             redeemed == Times("DEBIT", h)
             position == PositionIn(h.user, h)
         IN /\ redeemed \in Nat /\ position \in Int
            /\ position > 0 <=> funded = 1 /\ redeemed = 0
            /\ position > 0 => position = h.amount
            /\ position < 0 <=> redeemed > 1
<1> DEFINE c == Times("CREDIT", h)
           d == Times("DEBIT", h)
           v == h.amount
<1>1. v \in Nat \ {0} /\ c \in {0, 1} /\ (c = 0 => d = 0) /\ d \in Nat
  BY HoldingConstants, PositionIs DEF FundedFirst
<1>2. PositionIn(h.user, h) = v * c + (0 - v) * d
  BY PositionIs
<1>3. PICK P : P = PositionIn(h.user, h)
  OBVIOUS
<1> HIDE DEF c, d, v
<1>4. CASE c = 0
  <2>1. P = 0 /\ d = 0
    BY <1>1, <1>2, <1>3, <1>4
  <2> QED BY <1>3, <1>4, <2>1 DEF c, d
<1>5. CASE c = 1 /\ d = 0
  <2>1. P = v
    BY <1>1, <1>2, <1>3, <1>5
  <2> QED BY <1>1, <1>3, <1>5, <2>1 DEF c, d, v
<1>6. CASE c = 1 /\ d = 1
  <2>1. P = 0
    BY <1>1, <1>2, <1>3, <1>6
  <2> QED BY <1>3, <1>6, <2>1 DEF c, d
<1>7. CASE c = 1 /\ d > 1
  <2>1. PICK k \in Nat : d = k + 2
    <3>1. d - 2 \in Nat /\ d = (d - 2) + 2
      BY <1>1, <1>7
    <3> QED BY <3>1
  <2>2. P = v + (0 - v) * (k + 2)
    BY <1>1, <1>2, <1>3, <1>7, <2>1
  <2>3. (0 - v) * (k + 2) = 0 - v * k - v - v /\ v * k \in Nat
    BY <1>1, <2>1
  <2>4. P \in Int /\ P < 0
    BY <1>1, <2>2, <2>3
  <2> QED BY <1>1, <1>3, <1>7, <2>4 DEF c, d
<1> QED BY <1>1, <1>4, <1>5, <1>6, <1>7

\* An investor's acct_2200 balance is what his positions come to.
LEMMA BalanceByHolding ==
  ASSUME posted \in Seq(Postings), NEW u \in Users, NEW c \in Currencies,
         NEW own, own = {h \in Holdings : h.user = u /\ h.currency = c},
         NEW d, \A h \in own : d[h] = PositionIn(u, h)
  PROVE  InvestorBalance("acct_2200", u, c, posted) = SumFunctionOnSet(d, own)
<1> DEFINE M == LinesOf("acct_2200", u, c, posted)
           f == [p \in M |-> Signed("acct_2200", At(posted, p))]
           g == [p \in M |-> CHOOSE h \in own : At(posted, p).holding = h.id]
<1>1. M \in SUBSET Lines(posted)
  BY DEF LinesOf, LinesIn
<1>2. /\ IsFiniteSet(M) /\ InvestorBalance("acct_2200", u, c, posted) = SumFunctionOnSet(f, M)
      /\ \A p \in M : f[p] \in Int
  <2>1. \A p \in M : f[p] = Signed("acct_2200", At(posted, p))
    OBVIOUS
  <2> HIDE DEF f
  <2> QED BY <1>1, <2>1, NetIsASum DEF InvestorBalance
<1>3. ASSUME NEW p \in M PROVE \E h \in own : At(posted, p).holding = h.id
  <2>1. /\ p[1] \in DOMAIN posted /\ p[2] \in {1, 2}
        /\ At(posted, p) = posted[p[1]].lines[p[2]]
    BY <1>1, LinesAreTwo
  <2>2. /\ posted[p[1]].currency = c /\ At(posted, p).investor = u
        /\ At(posted, p).account = "acct_2200"
    BY DEF LinesOf, LinesIn
  <2>3. posted[p[1]] \in Postings
    BY <2>1
  <2>4. PICK h \in Holdings : /\ At(posted, p).holding = h.id
                             /\ At(posted, p).investor = h.user
                             /\ posted[p[1]].currency = h.currency
    BY <2>1, <2>2, <2>3, HoldingLines
  <2> QED BY <2>2, <2>4
<1>4. \A p \in M : g[p] \in own /\ At(posted, p).holding = g[p].id
  BY <1>3
<1>5. IsFiniteSet(own)
  BY HoldingConstants, FS_Subset
<1>6. ASSUME NEW h \in own PROVE PerKey(f, g, M, own)[h] = d[h]
  <2> DEFINE T == {p \in M : g[p] = h}
  <2>1. T = LinesFor(u, h)
    <3>1. \A p \in M : g[p] = h <=> At(posted, p).holding = h.id
      <4>1. \A k \in own : k.id = h.id => k = h
        BY HoldingConstants
      <4> HIDE DEF g, M
      <4> QED BY <1>4, <4>1
    <3>2. h.currency = c
      OBVIOUS
    <3> HIDE DEF g
    <3> QED BY <3>1, <3>2 DEF LinesFor
  <2>2. T \in SUBSET Lines(posted) /\ \A p \in T : f[p] = Signed("acct_2200", At(posted, p))
    BY <1>1
  <2> HIDE DEF T, f
  <2>3. Net("acct_2200", posted, T) = SumFunctionOnSet(f, T)
    BY <2>2, NetIsASum
  <2> QED BY <2>1, <2>3 DEF PerKey, PositionIn, T
<1>7. SumFunctionOnSet(f, M) = SumFunctionOnSet(PerKey(f, g, M, own), own)
  <2> HIDE DEF f, g, M
  <2> QED BY <1>2, <1>4, <1>5, SumsByKey
<1>8. SumFunctionOnSet(PerKey(f, g, M, own), own) = SumFunctionOnSet(d, own)
  <2> HIDE DEF f, g, M
  <2> QED BY <1>5, <1>6, SumsAgree
<1> HIDE DEF f, g, M
<1> QED BY <1>2, <1>7, <1>8

\* What is not positive adds nothing; one negative value, less than nothing.
LEMMA SumsFallShort ==
  ASSUME NEW f, NEW S, IsFiniteSet(S), \A x \in S : f[x] \in Int /\ f[x] <= 0,
         NEW x \in S, f[x] < 0
  PROVE  SumFunctionOnSet(f, S) < 0
<1> DEFINE T == S \ {x}
<1>1. IsFiniteSet(T) /\ \A y \in T : f[y] \in Int /\ f[y] <= 0
  BY FS_RemoveElement
<1>2. SumFunctionOnSet(f, S) = f[x] + SumFunctionOnSet(f, T)
  BY SumTakesAny
<1> HIDE DEF T
<1>3. SumFunctionOnSet(f, T) \in Int /\ SumFunctionOnSet(f, T) <= 0
  BY <1>1, SumsOfNone
<1> QED BY <1>2, <1>3

\* Portfolios, for any subscriptions funded once and redeemed however often.
LEMMA PortfoliosDoFollow ==
  ASSUME posted \in Seq(Postings), FundedFirst
  PROVE  PortfoliosAreTrue
<1> SUFFICES ASSUME NEW u \in Users, NEW c \in Currencies
             PROVE  LET own == {h \in Holdings : h.user = u /\ h.currency = c}
                        total == SumFunction([h \in MyPositions(u, c) |-> PositionIn(u, h)])
                        owed == InvestorBalance("acct_2200", u, c, posted)
                        twice == \E h \in own : Times("DEBIT", h) > 1
                    IN /\ MyPositions(u, c) =
                            {h \in own : Times("CREDIT", h) = 1 /\ Times("DEBIT", h) = 0}
                       /\ \A p \in Portfolio(u, c) : p.amount = p.holding.amount
                       /\ IF twice THEN total > owed ELSE total = owed
  BY DEF PortfoliosAreTrue
<1> DEFINE own == {h \in Holdings : h.user = u /\ h.currency = c}
           shown == MyPositions(u, c)
           rest == own \ shown
           f == [h \in shown |-> PositionIn(u, h)]
           d == [h \in own |-> PositionIn(u, h)]
           owed == InvestorBalance("acct_2200", u, c, posted)
           twice == \E h \in own : Times("DEBIT", h) > 1
<1>1. ASSUME NEW h \in own
      PROVE  /\ h \in Holdings /\ h.user = u /\ Times("DEBIT", h) \in Nat
             /\ PositionIn(u, h) \in Int
             /\ PositionIn(u, h) > 0 <=> Times("CREDIT", h) = 1 /\ Times("DEBIT", h) = 0
             /\ PositionIn(u, h) > 0 => PositionIn(u, h) = h.amount
             /\ PositionIn(u, h) < 0 <=> Times("DEBIT", h) > 1
  <2>1. h \in Holdings /\ h.user = u
    OBVIOUS
  <2> QED BY <2>1, PositionsFollow
<1>2. shown = {h \in own : PositionIn(u, h) > 0}
  BY DEF MyPositions
<1>3. shown = {h \in own : Times("CREDIT", h) = 1 /\ Times("DEBIT", h) = 0}
  <2> HIDE DEF own, shown
  <2> QED BY <1>1, <1>2
<1>4. ASSUME NEW p \in Portfolio(u, c) PROVE p.amount = p.holding.amount
  <2>1. PICK h \in shown : p.holding = h /\ p.amount = PositionIn(u, h)
    BY DEF Portfolio
  <2>2. h \in own /\ PositionIn(u, h) > 0
    BY <1>2, <2>1
  <2>3. p.amount = h.amount
    BY <1>1, <2>1, <2>2
  <2> QED BY <2>1, <2>3
<1>5. IsFiniteSet(own) /\ shown \subseteq own /\ IsFiniteSet(shown) /\ IsFiniteSet(rest)
  <2>1. IsFiniteSet(own)
    BY HoldingConstants, FS_Subset
  <2>2. shown \subseteq own /\ rest \subseteq own
    BY <1>2
  <2> HIDE DEF own, shown, rest
  <2> QED BY <2>1, <2>2, FS_Subset
<1>6. SumFunction(f) = SumFunctionOnSet(d, shown)
  <2>1. SumFunction(f) = SumFunctionOnSet(f, shown)
    BY DEF SumFunction
  <2>2. \A h \in shown : f[h] = d[h]
    BY <1>2
  <2> HIDE DEF f, d, shown
  <2> QED BY <1>5, <2>1, <2>2, SumsAgree
<1>7. owed = SumFunctionOnSet(d, own)
  <2>1. \A h \in own : d[h] = PositionIn(u, h)
    OBVIOUS
  <2> HIDE DEF d
  <2> QED BY <2>1, BalanceByHolding
<1>8. \A h \in own : d[h] \in Int
  BY <1>1
<1>9. /\ SumFunctionOnSet(d, shown) \in Int /\ SumFunctionOnSet(d, rest) \in Int
      /\ SumFunctionOnSet(d, own) = SumFunctionOnSet(d, shown) + SumFunctionOnSet(d, rest)
  <2> HIDE DEF d, own, shown
  <2> QED BY <1>5, <1>8, SumsSplit
<1>10. \A h \in rest : d[h] \in Int /\ d[h] <= 0 /\ d[h] = PositionIn(u, h) /\ h \in own
  BY <1>1, <1>2
<1>11. CASE twice
  <2>1. PICK h \in own : Times("DEBIT", h) > 1
    BY <1>11
  <2>2. d[h] < 0 /\ d[h] = PositionIn(u, h)
    BY <1>1, <2>1
  <2>n. ~(PositionIn(u, h) > 0) /\ h \in own
    BY <1>1, <2>2
  <2>3. h \in rest
    <3> HIDE DEF d, own, shown
    <3> QED BY <1>2, <2>n
  <2>4. SumFunctionOnSet(d, rest) < 0
    <3> HIDE DEF d, rest
    <3> QED BY <1>5, <1>10, <2>2, <2>3, SumsFallShort
  <2>5. SumFunction(f) > owed
    <3> HIDE DEF d, f, rest, own, shown, owed
    <3> QED BY <1>6, <1>7, <1>9, <2>4
  <2> QED BY <1>3, <1>4, <1>11, <2>5
<1>12. CASE ~twice
  <2>1. ASSUME NEW h \in rest PROVE d[h] = 0
    <3>1. h \in own /\ d[h] = PositionIn(u, h) /\ d[h] \in Int /\ d[h] <= 0
      BY <1>10
    <3>2. ~(Times("DEBIT", h) > 1)
      BY <3>1, <1>12
    <3>3. ~(PositionIn(u, h) < 0)
      BY <1>1, <3>1, <3>2
    <3> HIDE DEF d
    <3> QED BY <3>1, <3>3
  <2>2. SumFunctionOnSet(d, rest) = 0
    <3> HIDE DEF d, rest
    <3> QED BY <1>5, <1>10, <2>1, SumsOfNone
  <2>3. SumFunction(f) = owed
    <3> HIDE DEF d, f, rest, own, shown, owed
    <3> QED BY <1>6, <1>7, <1>9, <2>2
  <2> QED BY <1>3, <1>4, <1>12, <2>3
<1> QED BY <1>11, <1>12

-----------------------------------------------------------------------------
(***************************************************************************)
(* The journal and the mapping keep to this, whatever is posted.           *)
(***************************************************************************)

StatementsInv == posted \in Seq(Postings) /\ OneMappingEach /\ FundedFirst

\* The views agree in every such state.
LEMMA ViewsAgree ==
  ASSUME StatementsInv
  PROVE  StatementsAddUp
<1> USE DEF StatementsInv
<1>1. LedgersAgree
  BY LedgersDoAgree
<1>2. StatementsMatchBalances
  BY StatementsDoMatch
<1>3. PortfoliosAreTrue
  BY PortfoliosDoFollow
<1>4. NothingIsGuessed
  BY DEF OneMappingEach, NothingIsGuessed
<1> QED BY <1>1, <1>2, <1>3, <1>4 DEF StatementsAddUp

\* Deposits, withdrawals and transfers touch no subscription.
LEMMA CashHoldsNone ==
  ASSUME NEW t \in CashTerms, t.debit # t.credit \/ t.debited # t.credited
  PROVE  /\ CashEntry(t) \in Postings
         /\ \A h \in Holdings, d \in {"DEBIT", "CREDIT"} : ~Holds(CashEntry(t), d, h)
<1> DEFINE e == CashEntry(t)
<1>1. /\ e.currency = t.currency /\ DOMAIN e.lines = {1, 2}
      /\ e.lines[1].account = t.debit /\ e.lines[1].investor = t.debited
      /\ e.lines[1].amount = t.amount /\ e.lines[1].direction = "DEBIT"
      /\ e.lines[2].account = t.credit /\ e.lines[2].investor = t.credited
      /\ e.lines[2].amount = t.amount /\ e.lines[2].direction = "CREDIT"
  <2>1. PICK l : l = Line(t.debit, "DEBIT", t.debited, t.amount, "")
    OBVIOUS
  <2>2. PICK m : m = Line(t.credit, "CREDIT", t.credited, t.amount, "")
    OBVIOUS
  <2>3. e.currency = t.currency /\ e.lines = <<l, m>>
    BY <2>1, <2>2 DEF CashEntry, Entry
  <2>4. DOMAIN e.lines = {1, 2} /\ e.lines[1] = l /\ e.lines[2] = m
    BY <2>3
  <2>5. /\ l.account = t.debit /\ l.investor = t.debited
        /\ l.amount = t.amount /\ l.direction = "DEBIT"
    BY <2>1 DEF Line
  <2>6. /\ m.account = t.credit /\ m.investor = t.credited
        /\ m.amount = t.amount /\ m.direction = "CREDIT"
    BY <2>2 DEF Line
  <2> HIDE DEF e
  <2> QED BY <2>3, <2>4, <2>5, <2>6
<1> HIDE DEF e
<1>2. /\ t.currency \in Currencies /\ t.amount \in Nat \ {0}
      /\ t.debit \in CashAccounts /\ t.credit \in CashAccounts
      /\ t.debited \in Users /\ t.credited \in Users
  BY DEF CashTerms
<1>3. CashAccounts \subseteq ChartAccounts /\ "acct_2200" \notin CashAccounts
  BY DEF CashAccounts, ChartAccounts, Chart
<1>4. IsPosting(e)
  BY <1>1, <1>2, <1>3 DEF IsPosting
<1>5. e \in CashEntries
  BY DEF CashEntries, e
<1>6. e \in Postings
  BY <1>4, <1>5 DEF Postings
<1>7. \A i \in {1, 2} : e.lines[i].account # "acct_2200"
  BY <1>1, <1>2, <1>3
<1>8. \A h \in Holdings, d \in {"DEBIT", "CREDIT"} : ~Holds(e, d, h)
  BY <1>1, <1>7 DEF Holds
<1> QED BY <1>6, <1>8 DEF e

\* A funding and a redemption are of their own subscription only.
LEMMA HoldingPostings ==
  ASSUME NEW h \in Holdings, NEW g \in Holdings
  PROVE  /\ FundingOf(h) \in Postings /\ RedemptionOf(h) \in Postings
         /\ Holds(FundingOf(h), "CREDIT", g) => g = h
         /\ ~Holds(FundingOf(h), "DEBIT", g)
         /\ Holds(RedemptionOf(h), "DEBIT", g) => g = h
         /\ ~Holds(RedemptionOf(h), "CREDIT", g)
<1>1. FundingOf(h) \in Postings /\ RedemptionOf(h) \in Postings
  BY DEF Postings
<1>2. \A k \in Holdings :
        /\ FundingOf(k).lines[1].account = "acct_2100" /\ FundingOf(k).lines[2].holding = k.id
        /\ RedemptionOf(k).lines[1].account = "acct_2200"
        /\ RedemptionOf(k).lines[1].holding = k.id
  BY DEF FundingOf, RedemptionOf, Entry, Line
<1>3. FundingOf(h) # RedemptionOf(g) /\ RedemptionOf(h) # FundingOf(g)
  BY <1>2
<1>4. FundingOf(h) = FundingOf(g) \/ RedemptionOf(h) = RedemptionOf(g) => g.id = h.id
  BY <1>2
<1>5. g.id = h.id => g = h
  BY HoldingConstants
<1> QED BY <1>1, <1>3, <1>4, <1>5, HoldsMeans

\* An entry more counts once for what it carries.
LEMMA TimesGrow ==
  ASSUME posted \in Seq(Postings), NEW e, NEW q, q = Append(posted, e), NEW d, NEW h
  PROVE  /\ Times(d, h) \in Nat
         /\ Cardinality({n \in DOMAIN q : Holds(q[n], d, h)})
              = IF Holds(e, d, h) THEN Times(d, h) + 1 ELSE Times(d, h)
<1> DEFINE T == Marked(d, h)
           U == {n \in DOMAIN q : Holds(q[n], d, h)}
           k == Len(posted) + 1
<1>1. DOMAIN posted = 1..Len(posted) /\ Len(posted) \in Nat
  OBVIOUS
<1>2. /\ DOMAIN q = (DOMAIN posted) \cup {k} /\ k \notin DOMAIN posted /\ q[k] = e
      /\ \A n \in DOMAIN posted : q[n] = posted[n]
  BY <1>1
<1>3. IsFiniteSet(T) /\ Cardinality(T) \in Nat /\ k \notin T
  <2>1. IsFiniteSet(1..Len(posted))
    BY <1>1, FS_Interval
  <2>2. T \subseteq 1..Len(posted) /\ k \notin T
    BY <1>1, <1>2 DEF Marked
  <2> HIDE DEF T
  <2> QED BY <2>1, <2>2, FS_Subset, FS_CardinalityType
<1>4. U = IF Holds(e, d, h) THEN T \cup {k} ELSE T
  <2> HIDE DEF k
  <2> QED BY <1>2 DEF Marked
<1>5. Cardinality(T \cup {k}) = Cardinality(T) + 1
  <2> HIDE DEF T, k
  <2> QED BY <1>3, FS_AddElement
<1>6. Times(d, h) = Cardinality(T)
  BY DEF Times, Marked
<1> HIDE DEF T, U, k
<1> QED BY <1>3, <1>4, <1>5, <1>6 DEF U

\* A posting that funds only what is not funded, and redeems only what is.
LEMMA PostingKeeps ==
  ASSUME StatementsInv, NEW e \in Postings, PostEntry(e),
         \A h \in Holdings : /\ Holds(e, "CREDIT", h) => Times("CREDIT", h) = 0
                             /\ Holds(e, "DEBIT", h) => Times("CREDIT", h) > 0
  PROVE  StatementsInv'
<1>1. posted \in Seq(Postings) /\ OneMappingEach /\ FundedFirst
  BY DEF StatementsInv
<1>2. posted' = Append(posted, e) /\ mapping' = mapping
  BY DEF PostEntry
<1>3. posted' \in Seq(Postings)
  BY <1>1, <1>2
<1>4. OneMappingEach'
  BY <1>1, <1>2 DEF OneMappingEach
<1>5. ASSUME NEW h \in Holdings
      PROVE  /\ Times("CREDIT", h)' \in {0, 1}
             /\ Times("CREDIT", h)' = 0 => Times("DEBIT", h)' = 0
  <2>1. /\ Times("CREDIT", h) \in {0, 1} /\ Times("DEBIT", h) \in Nat
        /\ Times("CREDIT", h) = 0 => Times("DEBIT", h) = 0
    BY <1>1, <1>2, TimesGrow DEF FundedFirst
  <2>2. /\ Times("CREDIT", h)' = IF Holds(e, "CREDIT", h) THEN Times("CREDIT", h) + 1
                                 ELSE Times("CREDIT", h)
        /\ Times("DEBIT", h)' = IF Holds(e, "DEBIT", h) THEN Times("DEBIT", h) + 1
                                ELSE Times("DEBIT", h)
    <3>1. PICK q : q = posted'
      OBVIOUS
    <3>2. ASSUME NEW d \in {"CREDIT", "DEBIT"}
          PROVE  Times(d, h)' = IF Holds(e, d, h) THEN Times(d, h) + 1 ELSE Times(d, h)
      <4>1. Times(d, h)' = Cardinality({n \in DOMAIN q : Holds(q[n], d, h)})
        BY <3>1 DEF Times
      <4>2. q = Append(posted, e)
        BY <1>2, <3>1
      <4> QED BY <1>1, <4>1, <4>2, TimesGrow
    <3> QED BY <3>2
  <2> QED BY <2>1, <2>2
<1>6. FundedFirst'
  BY <1>5 DEF FundedFirst
<1> QED BY <1>3, <1>4, <1>6 DEF StatementsInv

LEMMA StatementsStart == StatementsInit => StatementsInv
<1> SUFFICES ASSUME StatementsInit PROVE StatementsInv
  OBVIOUS
<1>1. posted = <<>> /\ mapping = {}
  BY DEF StatementsInit
<1>2. \A d, h : Times(d, h) = 0
  <2>1. \A d, h : {n \in DOMAIN posted : Holds(posted[n], d, h)} = {}
    BY <1>1
  <2>2. Cardinality({}) = 0
    BY FS_EmptySet
  <2> QED BY <2>1, <2>2 DEF Times
<1> QED BY <1>1, <1>2 DEF StatementsInv, OneMappingEach, FundedFirst

\* Each operation posts such an entry, or provisions a mapping that is not there.
LEMMA StatementsSteps ==
  ASSUME StatementsInv, [StatementsNext]_statementVars
  PROVE  StatementsInv'
<1>i. posted \in Seq(Postings) /\ OneMappingEach /\ FundedFirst
  BY DEF StatementsInv
<1>w. \A w \in Wallets : w[1] \in Users /\ w[2] \in Currencies
  BY StatementConstants
<1>a. \A a \in Amount : IsKobo(a) => a \in Nat \ {0}
  <2>1. \A a \in Amount : a \in Int
    BY StatementConstants
  <2> QED BY <2>1 DEF IsKobo
<1>n. "acct_1100" # "acct_2100" /\ "acct_1100" \in CashAccounts /\ "acct_2100" \in CashAccounts
  BY DEF CashAccounts
<1>c. ASSUME NEW t \in CashTerms, t.debit # t.credit \/ t.debited # t.credited,
             PostEntry(CashEntry(t))
      PROVE  StatementsInv'
  <2>1. PICK e : e = CashEntry(t)
    OBVIOUS
  <2>2. /\ e \in Postings /\ PostEntry(e)
        /\ \A h \in Holdings, d \in {"DEBIT", "CREDIT"} : ~Holds(e, d, h)
    BY <1>c, <2>1, CashHoldsNone
  <2>3. \A h \in Holdings : ~Holds(e, "CREDIT", h) /\ ~Holds(e, "DEBIT", h)
    BY <2>2
  <2> QED BY <2>2, <2>3, PostingKeeps
<1>1. CASE PostDeposit
  <2>1. PICK w \in Wallets, a \in Amount :
          IsKobo(a) /\ PostEntry(Entry(w[2], a, "acct_1100", w[1], "acct_2100", w[1], ""))
    BY <1>1 DEF PostDeposit
  <2>2. PICK t : t = [currency |-> w[2], amount |-> a, debit |-> "acct_1100", debited |-> w[1],
                      credit |-> "acct_2100", credited |-> w[1]]
    OBVIOUS
  <2>3. t \in CashTerms /\ t.debit # t.credit
    BY <1>w, <1>a, <1>n, <2>1, <2>2 DEF CashTerms
  <2>4. CashEntry(t) = Entry(w[2], a, "acct_1100", w[1], "acct_2100", w[1], "")
    BY <2>2 DEF CashEntry
  <2> QED BY <1>c, <2>1, <2>3, <2>4
<1>2. CASE PostWithdrawal
  <2>1. PICK w \in Wallets, a \in Amount :
          IsKobo(a) /\ PostEntry(Entry(w[2], a, "acct_2100", w[1], "acct_1100", w[1], ""))
    BY <1>2 DEF PostWithdrawal
  <2>2. PICK t : t = [currency |-> w[2], amount |-> a, debit |-> "acct_2100", debited |-> w[1],
                      credit |-> "acct_1100", credited |-> w[1]]
    OBVIOUS
  <2>3. t \in CashTerms /\ t.debit # t.credit
    BY <1>w, <1>a, <1>n, <2>1, <2>2 DEF CashTerms
  <2>4. CashEntry(t) = Entry(w[2], a, "acct_2100", w[1], "acct_1100", w[1], "")
    BY <2>2 DEF CashEntry
  <2> QED BY <1>c, <2>1, <2>3, <2>4
<1>3. CASE PostTransfer
  <2>1. PICK from \in Wallets, to \in Wallets, a \in Amount :
          /\ from[1] # to[1] /\ IsKobo(a)
          /\ PostEntry(Entry(from[2], a, "acct_2100", from[1], "acct_2100", to[1], ""))
    BY <1>3 DEF PostTransfer
  <2>2. PICK t : t = [currency |-> from[2], amount |-> a, debit |-> "acct_2100",
                      debited |-> from[1], credit |-> "acct_2100", credited |-> to[1]]
    OBVIOUS
  <2>3. t \in CashTerms /\ t.debited # t.credited
    BY <1>w, <1>a, <1>n, <2>1, <2>2 DEF CashTerms
  <2>4. CashEntry(t) = Entry(from[2], a, "acct_2100", from[1], "acct_2100", to[1], "")
    BY <2>2 DEF CashEntry
  <2> QED BY <1>c, <2>1, <2>3, <2>4
<1>4. CASE PostFunding
  <2>1. PICK h \in Holdings : Times("CREDIT", h) = 0 /\ PostEntry(FundingOf(h))
    BY <1>4 DEF PostFunding, FundingOf
  <2>2. PICK e : e = FundingOf(h)
    OBVIOUS
  <2>3. \A g \in Holdings : /\ Holds(e, "CREDIT", g) => Times("CREDIT", g) = 0
                            /\ Holds(e, "DEBIT", g) => Times("CREDIT", g) > 0
    BY <2>1, <2>2, HoldingPostings
  <2>4. e \in Postings /\ PostEntry(e)
    BY <2>1, <2>2, HoldingPostings
  <2> QED BY <2>3, <2>4, PostingKeeps
<1>5. CASE PostRedemption
  <2>1. PICK h \in Holdings : Times("CREDIT", h) > 0 /\ PostEntry(RedemptionOf(h))
    BY <1>5 DEF PostRedemption, RedemptionOf
  <2>2. PICK e : e = RedemptionOf(h)
    OBVIOUS
  <2>3. \A g \in Holdings : /\ Holds(e, "CREDIT", g) => Times("CREDIT", g) = 0
                            /\ Holds(e, "DEBIT", g) => Times("CREDIT", g) > 0
    BY <2>1, <2>2, HoldingPostings
  <2>4. e \in Postings /\ PostEntry(e)
    BY <2>1, <2>2, HoldingPostings
  <2> QED BY <2>3, <2>4, PostingKeeps
<1>6. CASE Provision
  <2>1. PICK m \in MappingInputs :
          MappingOf(m.user, m.currency) = {} /\ mapping' = mapping \cup {m} /\ posted' = posted
    BY <1>6 DEF Provision
  <2>2. \A n \in mapping : ~(n.user = m.user /\ n.currency = m.currency)
    BY <2>1 DEF MappingOf
  <2>3. OneMappingEach'
    BY <1>i, <2>1, <2>2 DEF OneMappingEach
  <2>4. FundedFirst'
    BY <1>i, <2>1 DEF FundedFirst, Times
  <2> QED BY <1>i, <2>1, <2>3, <2>4 DEF StatementsInv
<1>7. CASE UNCHANGED statementVars
  <2>1. posted' = posted /\ mapping' = mapping
    BY <1>7 DEF statementVars
  <2> QED BY <1>i, <2>1 DEF StatementsInv, OneMappingEach, FundedFirst, Times
<1> QED BY <1>1, <1>2, <1>3, <1>4, <1>5, <1>6, <1>7 DEF StatementsNext

\* The ledger's views, the general ledger, the trial balance, statements and
\* portfolios, agree in every state the journal and the mapping can reach.
THEOREM StatementsAlwaysAddUp == StatementsSpec => []StatementsAddUp
<1>1. StatementsInit => StatementsInv
  BY StatementsStart
<1>2. StatementsInv /\ [StatementsNext]_statementVars => StatementsInv'
  BY StatementsSteps
<1>3. StatementsInv => StatementsAddUp
  BY ViewsAgree
<1> QED BY <1>1, <1>2, <1>3, PTL DEF StatementsSpec

=============================================================================
