------------------------- MODULE CampaignDataLemmas -------------------------
(***************************************************************************)
(* Three components of CampaignData, for every value of their constants.   *)
(* Inspection: what the files are, for each command and each write it has  *)
(* left; what a reader that is half way has seen and has yet to open; and  *)
(* how the two hang together - what was read has lasted or grown, and      *)
(* whatever is damaged is still to be opened, or has been reported.        *)
(* Sampling: a point is drawn parameter by parameter, controllers first,   *)
(* so what was drawn is always a point of what was visited.                *)
(* AxSpace: the arms Ax can propose are what is written for the points of  *)
(* the space, and what pruning and the linear rules take out is what       *)
(* breaks a rule.                                                          *)
(***************************************************************************)
EXTENDS Inspection, Sampling, AxSpace, FiniteSetTheorems, WellFoundedInduction,
        SequenceTheorems, TLAPS

-----------------------------------------------------------------------------
(* Least and greatest elements, and sums over finite sets, taken one        *)
(* element after the other.                                                 *)

\* Naturals have a least one, and naturals up to a bound a greatest one.
LEMMA LeastOfNaturals ==
  ASSUME NEW T \in SUBSET Nat, T # {}
  PROVE  \E x \in T : \A y \in T : x <= y
<1> DEFINE R == {ss \in Nat \X Nat : ss[1] < ss[2]}
<1>1. IsWellFoundedOn(R, Nat)
  BY NatLessThanWellFounded DEF OpToRel
<1> HIDE DEF R
<1>2. PICK x \in T : \A y \in T : ~(<<y, x>> \in R)
  BY <1>1, WFMin
<1>3. ASSUME NEW y \in T PROVE x <= y
  <2>1. <<y, x>> \notin R
    BY <1>2
  <2>2. <<y, x>> \in Nat \X Nat /\ <<y, x>>[1] = y /\ <<y, x>>[2] = x
    OBVIOUS
  <2>3. ~(y < x)
    BY <2>1, <2>2 DEF R
  <2> QED
    BY <2>3
<1> QED
  BY <1>2, <1>3

LEMMA GreatestOfNaturals ==
  ASSUME NEW b \in Nat, NEW T \in SUBSET (0..b), T # {}
  PROVE  \E x \in T : \A y \in T : y <= x
<1> DEFINE U == {n \in 0..b : b - n \in T}
<1>1. U \in SUBSET Nat
  OBVIOUS
<1>2. \A y \in T : b - y \in U
  OBVIOUS
<1>3. U # {}
  BY <1>2
<1>4. PICK n \in U : \A m \in U : n <= m
  <2> HIDE DEF U
  <2> QED
    BY <1>1, <1>3, LeastOfNaturals
<1>5. ASSUME NEW y \in T PROVE y <= b - n
  <2>1. n <= b - y
    BY <1>2, <1>4
  <2> QED
    BY <2>1
<1> QED
  BY <1>4, <1>5

\* A finite set that is ordered has a last element: a smallest set without one would
\* lose it with any element taken out.
LEMMA LastOfFinite ==
  ASSUME NEW S, IsFiniteSet(S), S # {}, NEW R,
         \A x, y \in S : <<x, y>> \in R \/ <<y, x>> \in R,
         \A x, y, z \in S : <<x, y>> \in R /\ <<y, z>> \in R => <<x, z>> \in R
  PROVE  \E m \in S : \A x \in S : <<x, m>> \in R
<1> DEFINE Has(T) == \E m \in T : \A x \in T : <<x, m>> \in R
           Bad == {T \in SUBSET S : T # {} /\ ~Has(T)}
           Sizes == {Cardinality(T) : T \in Bad}
<1>1. \A T \in SUBSET S : IsFiniteSet(T) /\ Cardinality(T) \in Nat
  BY FS_Subset, FS_CardinalityType
<1>2. ASSUME NEW T \in SUBSET S, T # {}, ~Has(T) PROVE FALSE
  <2>1. Sizes \in SUBSET Nat /\ Sizes # {}
    BY <1>1, <1>2
  <2>2. PICK k \in Sizes : \A l \in Sizes : k <= l
    BY <2>1, LeastOfNaturals
  <2>3. PICK U \in Bad : k = Cardinality(U)
    BY <2>2
  <2>4. PICK x \in U : TRUE
    BY <2>3
  <2>5. PICK V : V = U \ {x}
    OBVIOUS
  <2>6. V \in SUBSET S /\ x \in S /\ V \subseteq U /\ U = V \cup {x}
    BY <2>3, <2>4, <2>5
  <2>7. Cardinality(V) = Cardinality(U) - 1
    <3>1. IsFiniteSet(U)
      BY <1>1, <2>3
    <3> QED
      BY <2>4, <2>5, <3>1, FS_RemoveElement
  <2>8. Cardinality(V) \notin Sizes
    <3>1. Cardinality(V) \in Nat /\ Cardinality(U) \in Nat /\ k = Cardinality(U)
      BY <1>1, <2>3, <2>6
    <3> HIDE DEF Sizes
    <3>2. Cardinality(V) \in Sizes => k <= Cardinality(V)
      BY <2>2
    <3> QED
      BY <2>7, <3>1, <3>2
  <2>9. V = {} \/ Has(V)
    BY <2>6, <2>8
  <2>10. <<x, x>> \in R
    BY <2>6
  <2>11. CASE V = {}
    BY <2>3, <2>6, <2>10, <2>11
  <2>12. CASE Has(V)
    <3>1. PICK m \in V : \A y \in V : <<y, m>> \in R
      BY <2>12
    <3>2. m \in S
      BY <2>6, <3>1
    <3>3. CASE <<x, m>> \in R
      <4>1. \A y \in U : <<y, m>> \in R
        BY <2>6, <3>1, <3>3
      <4> QED
        BY <2>3, <2>6, <3>1, <4>1
    <3>4. CASE <<m, x>> \in R
      <4>1. \A y \in U : <<y, x>> \in R
        BY <2>6, <2>10, <3>1, <3>2, <3>4
      <4> QED
        BY <2>3, <2>4, <4>1
    <3> QED
      BY <2>6, <3>2, <3>3, <3>4
  <2> QED
    BY <2>9, <2>11, <2>12
<1> QED
  BY <1>2

\* Finitely many integers have a greatest one.
LEMMA MaxIs ==
  ASSUME NEW S, IsFiniteSet(S), S # {}, S \subseteq Int
  PROVE  Max(S) \in S /\ \A x \in S : x <= Max(S)
<1>1. PICK R : R = {p \in S \X S : p[1] <= p[2]}
  OBVIOUS
<1>2. \A x, y \in S : <<x, y>> \in R <=> x <= y
  BY <1>1
<1>3. \E m \in S : \A x \in S : <<x, m>> \in R
  <2>1. ASSUME NEW x \in S, NEW y \in S PROVE <<x, y>> \in R \/ <<y, x>> \in R
    <3>1. x \in Int /\ y \in Int
      OBVIOUS
    <3> QED
      BY <1>2, <3>1
  <2>2. ASSUME NEW x \in S, NEW y \in S, NEW z \in S, <<x, y>> \in R, <<y, z>> \in R
        PROVE  <<x, z>> \in R
    <3>1. x \in Int /\ y \in Int /\ z \in Int
      OBVIOUS
    <3> QED
      BY <1>2, <2>2, <3>1
  <2> QED
    BY <2>1, <2>2, LastOfFinite
<1>4. PICK m \in S : \A x \in S : m >= x
  BY <1>2, <1>3
<1>5. Max(S) \in S /\ \A x \in S : Max(S) >= x
  BY <1>4 DEF Max
<1> QED
  BY <1>5

\* Finitely many integers have a least one.
LEMMA MinIs ==
  ASSUME NEW S, IsFiniteSet(S), S # {}, S \subseteq Int
  PROVE  Min(S) \in S /\ \A x \in S : Min(S) <= x
<1>1. PICK R : R = {p \in S \X S : p[2] <= p[1]}
  OBVIOUS
<1>2. \A x, y \in S : <<x, y>> \in R <=> y <= x
  BY <1>1
<1>3. \E m \in S : \A x \in S : <<x, m>> \in R
  <2>1. ASSUME NEW x \in S, NEW y \in S PROVE <<x, y>> \in R \/ <<y, x>> \in R
    <3>1. x \in Int /\ y \in Int
      OBVIOUS
    <3> QED
      BY <1>2, <3>1
  <2>2. ASSUME NEW x \in S, NEW y \in S, NEW z \in S, <<x, y>> \in R, <<y, z>> \in R
        PROVE  <<x, z>> \in R
    <3>1. x \in Int /\ y \in Int /\ z \in Int
      OBVIOUS
    <3> QED
      BY <1>2, <2>2, <3>1
  <2> QED
    BY <2>1, <2>2, LastOfFinite
<1>4. PICK m \in S : \A x \in S : m <= x
  BY <1>2, <1>3
<1>5. Min(S) \in S /\ \A x \in S : Min(S) <= x
  BY <1>4 DEF Min
<1> QED
  BY <1>5

First(s) == CHOOSE y \in s : TRUE
AddsUp(sum, f, D) ==
  /\ DOMAIN sum = D
  /\ \A s \in D : sum[s] = IF s = {} THEN 0 ELSE f[First(s)] + sum[s \ {First(s)}]

\* There is such a function: one for the subsets of a size makes one for those that
\* have one element more.
LEMMA SumExists ==
  ASSUME NEW S, IsFiniteSet(S), NEW f
  PROVE  \E sum : AddsUp(sum, f, SUBSET S)
<1> DEFINE Upto(n) == {s \in SUBSET S : Cardinality(s) <= n}
           Bad == {n \in Nat : ~\E sum : AddsUp(sum, f, Upto(n))}
<1>1. \A s \in SUBSET S : /\ IsFiniteSet(s) /\ Cardinality(s) \in Nat
                          /\ Cardinality(s) <= Cardinality(S)
                          /\ (Cardinality(s) = 0 <=> s = {})
  BY FS_Subset, FS_CardinalityType, FS_EmptySet
<1>2. \A s \in SUBSET S : s # {} => /\ First(s) \in s /\ s \ {First(s)} \in SUBSET S
                                    /\ Cardinality(s \ {First(s)}) = Cardinality(s) - 1
  <2>1. ASSUME NEW s \in SUBSET S, s # {}
        PROVE  /\ First(s) \in s /\ s \ {First(s)} \in SUBSET S
               /\ Cardinality(s \ {First(s)}) = Cardinality(s) - 1
    <3>1. First(s) \in s
      BY <2>1 DEF First
    <3> QED
      BY <1>1, <3>1, FS_RemoveElement
  <2> QED
    BY <2>1
<1>3. ASSUME Bad # {} PROVE FALSE
  <2>1. Bad \in SUBSET Nat
    OBVIOUS
  <2>2. PICK n \in Bad : \A m \in Bad : n <= m
    <3> HIDE DEF Bad
    <3> QED
      BY <1>3, <2>1, LeastOfNaturals
  <2>3. CASE n = 0
    <3>1. \A s \in Upto(0) : s = {}
      BY <1>1
    <3>2. PICK sum : sum = [s \in Upto(0) |-> 0]
      OBVIOUS
    <3>3. AddsUp(sum, f, Upto(0))
      BY <3>1, <3>2 DEF AddsUp
    <3> QED
      BY <2>2, <2>3, <3>3
  <2>4. CASE n # 0
    <3>1. n - 1 \in Nat /\ n - 1 \notin Bad
      <4>1. n \in Nat
        OBVIOUS
      <4> HIDE DEF Bad
      <4> QED
        BY <2>2, <2>4, <4>1
    <3>2. PICK piece : AddsUp(piece, f, Upto(n - 1))
      BY <3>1
    <3>3. PICK sum : sum = [s \in Upto(n) |-> IF s = {} THEN 0
                                              ELSE f[First(s)] + piece[s \ {First(s)}]]
      OBVIOUS
    <3>4. ASSUME NEW s \in Upto(n), s # {}
          PROVE  sum[s \ {First(s)}] = piece[s \ {First(s)}]
      <4>1. PICK t : t = s \ {First(s)}
        OBVIOUS
      <4>2. t \in Upto(n - 1) /\ t \in Upto(n)
        BY <1>1, <1>2, <3>4, <4>1
      <4>3. piece[t] = IF t = {} THEN 0 ELSE f[First(t)] + piece[t \ {First(t)}]
        BY <3>2, <4>2 DEF AddsUp
      <4> QED
        BY <3>3, <4>1, <4>2, <4>3
    <3>5. AddsUp(sum, f, Upto(n))
      BY <3>3, <3>4 DEF AddsUp
    <3> QED
      BY <2>2, <3>5
  <2> QED
    BY <2>3, <2>4
<1>4. Cardinality(S) \in Nat
  BY FS_CardinalityType
<1>5. Upto(Cardinality(S)) = SUBSET S
  BY <1>1
<1>6. Cardinality(S) \notin Bad
  BY <1>3
<1> QED
  BY <1>4, <1>5, <1>6

\* FoldFunction adds up that way.
LEMMA SumIs ==
  ASSUME NEW f, IsFiniteSet(DOMAIN f)
  PROVE  \E sum : /\ AddsUp(sum, f, SUBSET DOMAIN f)
                  /\ FoldFunction(+, 0, f) = sum[DOMAIN f]
<1> DEFINE S == DOMAIN f
           Made(sum) == sum = [s \in SUBSET S |-> IF s = {} THEN 0
                                  ELSE LET x == CHOOSE y \in s : TRUE IN f[x] + sum[s \ {x}]]
<1>1. PICK g : AddsUp(g, f, SUBSET S)
  BY SumExists
<1>2. \E g2 : Made(g2)
  <2>1. PICK h : h = [s \in SUBSET S |-> g[s]]
    OBVIOUS
  <2>2. AddsUp(h, f, SUBSET S)
    BY <1>1, <2>1 DEF AddsUp
  <2>3. h = [s \in SUBSET S |-> h[s]]
    BY <2>1
  <2>4. Made(h)
    BY <2>2, <2>3 DEF AddsUp, First
  <2> QED
    BY <2>4
<1>3. PICK sum : sum = CHOOSE g3 : Made(g3)
  OBVIOUS
<1>4. Made(sum)
  BY <1>2, <1>3
<1>5. FoldFunction(+, 0, f) = sum[S]
  BY <1>3 DEF FoldFunction, FoldFunctionOnSet, MapThenFoldSet
<1>6. AddsUp(sum, f, SUBSET S)
  BY <1>4 DEF AddsUp, First
<1> QED
  BY <1>5, <1>6

\* Sums of integers are integers, and grow with what is added.
LEMMA SumGrows ==
  ASSUME NEW S, IsFiniteSet(S), NEW f \in [S -> Int], NEW g \in [S -> Int],
         \A x \in S : f[x] <= g[x]
  PROVE  /\ FoldFunction(+, 0, f) \in Int /\ FoldFunction(+, 0, g) \in Int
         /\ FoldFunction(+, 0, f) <= FoldFunction(+, 0, g)
         /\ (\E x \in S : f[x] < g[x]) => FoldFunction(+, 0, f) < FoldFunction(+, 0, g)
<1>1. PICK a : AddsUp(a, f, SUBSET S) /\ FoldFunction(+, 0, f) = a[S]
  <2>1. DOMAIN f = S
    OBVIOUS
  <2> QED
    BY <2>1, SumIs
<1>2. PICK b : AddsUp(b, g, SUBSET S) /\ FoldFunction(+, 0, g) = b[S]
  <2>1. DOMAIN g = S
    OBVIOUS
  <2> QED
    BY <2>1, SumIs
<1> DEFINE Good(s) == /\ a[s] \in Int /\ b[s] \in Int /\ a[s] <= b[s]
                      /\ (\E x \in s : f[x] < g[x]) => a[s] < b[s]
           Sizes == {n \in Nat : \E s \in SUBSET S : Cardinality(s) = n /\ ~Good(s)}
<1>3. ASSUME Sizes # {} PROVE FALSE
  <2>1. PICK n \in Sizes : \A m \in Sizes : n <= m
    <3>1. Sizes \in SUBSET Nat
      OBVIOUS
    <3> HIDE DEF Sizes
    <3> QED
      BY <1>3, <3>1, LeastOfNaturals
  <2>2. PICK s \in SUBSET S : Cardinality(s) = n /\ ~Good(s)
    BY <2>1
  <2>3. s # {}
    <3>1. {} \in SUBSET S
      OBVIOUS
    <3>2. a[{}] = 0 /\ b[{}] = 0
      BY <1>1, <1>2, <3>1 DEF AddsUp
    <3> QED
      BY <2>2, <3>2
  <2>4. PICK x \in s : x = First(s)
    BY <2>3 DEF First
  <2>5. PICK t : t = s \ {x}
    OBVIOUS
  <2>6. t \in SUBSET S /\ Cardinality(t) \in Nat /\ Cardinality(t) = n - 1
    <3>1. IsFiniteSet(s)
      BY FS_Subset
    <3>2. Cardinality(t) = Cardinality(s) - 1 /\ IsFiniteSet(t)
      BY <2>4, <2>5, <3>1, FS_RemoveElement
    <3> QED
      BY <2>2, <2>5, <3>2, FS_CardinalityType
  <2>7. Good(t)
    <3>1. ~(n <= n - 1)
      BY <2>1
    <3>2. Cardinality(t) \notin Sizes
      <4> HIDE DEF Sizes
      <4> QED
        BY <2>1, <2>6, <3>1
    <3> QED
      BY <2>6, <3>2
  <2>8. a[s] = f[x] + a[t] /\ b[s] = g[x] + b[t]
    BY <1>1, <1>2, <2>3, <2>4, <2>5 DEF AddsUp
  <2>9. f[x] \in Int /\ g[x] \in Int /\ f[x] <= g[x]
    BY <2>4
  <2>10. (\E y \in s : f[y] < g[y]) => f[x] < g[x] \/ a[t] < b[t]
    BY <2>5, <2>7
  <2> QED
    BY <2>2, <2>7, <2>8, <2>9, <2>10
<1>4. Cardinality(S) \in Nat /\ S \in SUBSET S
  BY FS_CardinalityType
<1> QED
  BY <1>1, <1>2, <1>3, <1>4

\* SumFunction is that fold.
LEMMA SumIsFold == \A f : SumFunction(f) = FoldFunction(+, 0, f)
  BY DEF SumFunction, SumFunctionOnSet, FoldFunction

-----------------------------------------------------------------------------
(* Inspection: what is in the files.                                        *)

TrialRow == [id : TrialIds, serial : 1..dealt, status : {"pending"} \cup Ended]
TraceLine == [id : Nat, serial : 1..dealt, form : {"row", "cut", "joined", "broken"}]
NoTrial == [id |-> 0, serial |-> 0, status |-> "ok"]

\* The state file is sound, and of the trials it has known as many are left as it says.
LedgerSound ==
  /\ dealt \in 0..MaxDeals /\ discarded \subseteq 1..dealt /\ ledger.next \in 1..(dealt + 1)
  /\ ledger = [rows |-> ledger.rows, next |-> ledger.next, best |-> BestId(ledger.rows)]
  /\ IsFiniteSet(ledger.rows) /\ ledger.rows \subseteq TrialRow
  /\ \A r \in ledger.rows : r.id < ledger.next /\ \A q \in ledger.rows : r.id = q.id => r = q

InFolder(row) == folders[row.id] = [serial |-> row.serial, status |-> row.status]

\* A trial's manifest is that of the state, or already has its outcome.
FoldersSound ==
  /\ folders \in [TrialIds -> {Nothing, Bare}
                              \cup [serial : 1..dealt, status : {"pending"} \cup Ended]]
  /\ \A r \in ledger.rows :
       /\ folders[r.id].serial = r.serial
       /\ folders[r.id].status = r.status
            \/ (r.status = "pending" /\ folders[r.id].status \in Ended)

\* Unless lines have run together, each trial has its line.
Sane == \A i \in DOMAIN trace : trace[i].form \in {"row", "cut"}
InTrace(row) ==
  /\ trace # <<>>
  /\ Sane => \E i \in DOMAIN trace : trace[i].id = row.id /\ trace[i].serial = row.serial

\* The line belongs to a trial of the state, to the one that is being made, or to none.
Belongs(line) ==
  \/ line.serial \in discarded
  \/ \E r \in ledger.rows : r.id = line.id /\ r.serial = line.serial
  \/ writes # <<>>
       /\ Last(writes) = To("ledger", [id |-> line.id, serial |-> line.serial,
            status |-> "pending"])
TraceSound ==
  /\ trace \in Seq(TraceLine)
  /\ \A i \in DOMAIN trace : Belongs(trace[i])
  /\ \A r \in ledger.rows : InTrace(r)

Reported == SerialsOf(RowsOf(ledger, Ended))
IsReport(report) == report = [exists |-> report.exists, lists |-> report.lists]
ReportsSound ==
  /\ reports = [json |-> reports.json, md |-> reports.md]
  /\ IsReport(reports.json) /\ IsReport(reports.md)
  /\ reports.json.lists \subseteq Reported \cup discarded
  /\ reports.md.lists \subseteq Reported \cup discarded

\* What the files are like when no command died: as if each command had written
\* all of its files at once.
Entered(id) == folders[id] = Nothing \/ \E r \in ledger.rows : r.id = id /\ InFolder(r)
AllEntered == \A id \in TrialIds : Entered(id)
AllBut(row) == \A id \in TrialIds \ {row.id} : Entered(id)
InReports == reports.json = reports.md /\ reports.json.lists \subseteq Reported
Beginning ==
  /\ Cut(trace) /\ trace[Len(trace)].form = "cut"
  /\ \A i \in 1..(Len(trace) - 1) : trace[i].form = "row"
Tidy == AllEntered /\ Whole(trace) /\ InReports

Making(row) ==
  /\ row.status = "pending" /\ row.id = ledger.next /\ row.id <= dealt
  /\ died = 0 => AllBut(row) /\ InReports
  /\ \/ /\ writes = For(row, <<"folder", "manifest", "line", "end", "ledger">>)
        /\ died = 0 => Tidy /\ folders[row.id] = Nothing
     \/ /\ writes = For(row, <<"manifest", "line", "end", "ledger">>)
        /\ died = 0 => Whole(trace) /\ folders[row.id] = Bare
     \/ /\ writes = For(row, <<"line", "end", "ledger">>) /\ InFolder(row)
        /\ died = 0 => Whole(trace)
     \/ /\ writes = For(row, <<"end", "ledger">>) /\ InFolder(row) /\ Cut(trace) /\ InTrace(row)
        /\ died = 0 => Beginning
     \/ /\ writes = For(row, <<"ledger">>) /\ InFolder(row) /\ InTrace(row)
        /\ died = 0 => Whole(trace)

Logging(row) ==
  /\ row.serial \in discarded
  /\ died = 0 => AllEntered /\ InReports
  /\ \/ writes = For(row, <<"line", "end">>) /\ (died = 0 => Tidy)
     \/ writes = For(row, <<"end">>) /\ Cut(trace) /\ (died = 0 => Beginning)

Settling(row) ==
  /\ row.status \in Ended
  /\ \E r \in ledger.rows : r.id = row.id /\ r.serial = row.serial /\ r.status = "pending"
  /\ died = 0 => Whole(trace) /\ InReports
  /\ \/ writes = For(row, SettleWrites) /\ (died = 0 => AllEntered)
     \/ writes = For(row, <<"manifest", "ledger">>) /\ (died = 0 => AllEntered)
     \/ writes = For(row, <<"ledger">>) /\ InFolder(row) /\ (died = 0 => AllBut(row))

ReportMaking ==
  /\ died = 0 => AllEntered /\ Whole(trace)
  /\ \/ writes = For(NoTrial, <<"json", "md">>) /\ (died = 0 => Tidy)
     \/ writes = For(NoTrial, <<"md">>) /\ (died = 0 => reports.json = Shown)

Removing ==
  \/ writes = For(NoTrial, Removal) /\ (died = 0 => Tidy)
  \/ /\ ledger = NewLedger /\ discarded = 1..dealt
     /\ \/ writes = For(NoTrial, <<"no_trace", "no_json", "no_md", "no_folders">>)
        \/ /\ trace = <<>>
           /\ \/ writes = For(NoTrial, <<"no_json", "no_md", "no_folders">>)
              \/ /\ reports.json = NoReport
                 /\ \/ writes = For(NoTrial, <<"no_md", "no_folders">>)
                    \/ /\ reports.md = NoReport
                       /\ writes = For(NoTrial, <<"no_folders">>)

Commanded ==
  \/ writes = <<>> /\ (died = 0 => Tidy)
  \/ \E row \in TrialRow : Making(row) \/ Logging(row) \/ Settling(row)
  \/ ReportMaking \/ Removing

DataSound == LedgerSound /\ FoldersSound /\ TraceSound /\ ReportsSound
CampaignSound == DataSound /\ Commanded /\ died \in Nat

-----------------------------------------------------------------------------
(* What a reader has seen.                                                  *)

\* A look has these parts.
IsLook(l) ==
  l = [op |-> l.op, id |-> l.id, left |-> l.left, state |-> l.state, views |-> l.views,
       decision |-> l.decision, report |-> l.report, alarms |-> l.alarms,
       warnings |-> l.warnings, done |-> l.done, torn |-> l.torn, bare |-> l.bare,
       quiet |-> l.quiet, wiped |-> l.wiped]

Steady == look.op # "none" /\ look.quiet /\ died = 0

ReadPart == [file : {"state", "trace", "folders", "folder", "presence", "statuses", "latency"},
             ids : SUBSET TrialIds]
\* Where a reader is.
Stage ==
  /\ look.op \in Checks => look.left \in Seq(ReadPart)
       /\ \A item \in ToSet(look.left) : item.file = "folder" => item.ids # {}
  /\ look.op \notin {"trials", "trial"} => look.views = {}
  /\ look.op = "trials" =>
       \/ look.left = TrialsReads /\ look.views = {} /\ look.state = NewLedger
       \/ look.left = <<Read("folders")>> /\ look.views = {}
       \/ \E ids \in (SUBSET TrialIds) \ {{}} :
            /\ look.left = <<ReadFolders(ids)>>
            /\ Steady => ids \subseteq IdsOf(look.state.rows)
       \/ look.left = <<>>
  /\ look.op = "trial" => look.id \in TrialIds /\
       (\/ look.left = TrialReads(look.id) /\ look.views = {} /\ look.state = NewLedger
        \/ look.left = <<ReadFolders({look.id}), Read("trace")>>
        \/ look.left = <<Read("trace")>>
        \/ look.left = <<>>)
  /\ look.op = "report" => look.left \in {ReportReads, <<>>}
  /\ look.op = "alerts" => look.left \in {AlertReads, <<Read("available")>>, <<>>}

LookShaped ==
  /\ IsLook(look) /\ look.done \in BOOLEAN /\ look.quiet \in BOOLEAN /\ look.wiped \in BOOLEAN
  /\ look.bare \subseteq TrialIds
  /\ look.op \in Checks \cup {"none", "trials", "trial", "report", "alerts"}
  /\ look.op = "none" => look = NoLook
  /\ look.op # "none" => (look.done <=> look.left = <<>>)
  /\ Stage

Unread(name) == \E item \in ToSet(look.left) : item.file = name
Unchecked(id) == Unread("folders")
  \/ \E item \in ToSet(look.left) : item.file = "folder" /\ id \in item.ids

\* A trial of the state that was read is still in the state, or further.
StateLasts ==
  /\ look.state.rows \subseteq TrialRow
  /\ ~look.wiped => \A r \in look.state.rows : \E q \in ledger.rows :
       q.id = r.id /\ q.serial = r.serial /\ (r.status \in Ended => q.status = r.status)

ViewOf(v) ==
  /\ look.op = "trial" => v.id = look.id
  /\ v.known # Nothing => \E r \in look.state.rows :
       r.id = v.id /\ v.known = [serial |-> r.serial, status |-> r.status]
  /\ v.known # Nothing /\ ~look.wiped =>
       v.serial = v.known.serial /\ (v.known.status \in Ended => v.status = v.known.status)

LookSound ==
  /\ StateLasts
  /\ \A v \in look.views : ViewOf(v)
  /\ Steady => Tidy
  /\ Steady /\ look.op \in {"trials", "trial"} =>
       /\ ~Unread("state") => look.state = ledger
       /\ \A v \in look.views : v.pending = (v.status = "pending")
       /\ look.alarms \subseteq (IF look.op = "trial" THEN {"not_found"} ELSE {})
  /\ look.op = "trial" /\ look.left = <<>> /\ look.alarms = {} /\ ~look.wiped =>
       \A v \in look.views : v.known # Nothing =>
         look.decision # {} /\ look.decision \subseteq {v.known.serial} \cup discarded
  /\ look.report \subseteq Reported \cup discarded
  /\ Steady /\ look.op = "report" /\ look.left = <<>> /\ look.alarms = {} =>
       look.report = reports.json.lists
  /\ look.op = "alerts" /\ ~look.wiped =>
       (look.left # <<>> => look.warnings = {})
         /\ (RowsOf(look.state, {"pending"}) # {} => look.warnings = {})

CheckSound ==
  look.op \in Checks =>
    /\ look.alarms \subseteq {"broken_line", "no_manifest"}
    /\ look.quiet =>
         /\ "broken_line" \in look.alarms => ~Whole(trace)
         /\ "no_manifest" \in look.alarms => \E id \in TrialIds : folders[id] = Bare
         /\ ~Whole(trace) => Unread("trace") \/ "broken_line" \in look.alarms
         /\ \A id \in TrialIds : folders[id] = Bare => Unchecked(id) \/ look.alarms # {}
    /\ ~look.wiped /\ look.torn =>
         /\ \E i \in DOMAIN trace : trace[i].form = "broken"
         /\ Unread("trace") \/ "broken_line" \in look.alarms
    /\ ~look.wiped => \A id \in look.bare :
         /\ folders[id] # Nothing
         /\ folders[id] = Bare => Unchecked(id) \/ look.alarms # {}

InspectionInv == CampaignSound /\ LookShaped /\ LookSound /\ CheckSound

-----------------------------------------------------------------------------
(* What a command has left to write.                                        *)

\* What a command that has these files to write writes next, and has left then.
Starts(row, names, head, tail, last) ==
  /\ For(row, names) # <<>> /\ Head(For(row, names)) = To(head, row)
  /\ Last(For(row, names)) = To(last, row) /\ Tail(For(row, names)) = For(row, tail)
  /\ Last(For(row, names)) \in ToSet(For(row, names))
  /\ \A w \in ToSet(For(row, names)) : w.row = row

LEMMA PlanOf ==
  ASSUME NEW row
  PROVE  /\ For(row, <<>>) = <<>>
         /\ Starts(row, <<"folder", "manifest", "line", "end", "ledger">>,
                   "folder", <<"manifest", "line", "end", "ledger">>, "ledger")
         /\ Starts(row, <<"manifest", "line", "end", "ledger">>,
                   "manifest", <<"line", "end", "ledger">>, "ledger")
         /\ Starts(row, <<"line", "end", "ledger">>, "line", <<"end", "ledger">>, "ledger")
         /\ Starts(row, <<"end", "ledger">>, "end", <<"ledger">>, "ledger")
         /\ Starts(row, <<"ledger">>, "ledger", <<>>, "ledger")
         /\ Starts(row, <<"line", "end">>, "line", <<"end">>, "end")
         /\ Starts(row, <<"end">>, "end", <<>>, "end")
         /\ Starts(row, SettleWrites, "folder", <<"manifest", "ledger">>, "ledger")
         /\ Starts(row, <<"manifest", "ledger">>, "manifest", <<"ledger">>, "ledger")
         /\ Starts(row, <<"json", "md">>, "json", <<"md">>, "md")
         /\ Starts(row, <<"md">>, "md", <<>>, "md")
         /\ Starts(row, Removal,
                   "no_ledger", <<"no_trace", "no_json", "no_md", "no_folders">>, "no_folders")
         /\ Starts(row, <<"no_trace", "no_json", "no_md", "no_folders">>,
                   "no_trace", <<"no_json", "no_md", "no_folders">>, "no_folders")
         /\ Starts(row, <<"no_json", "no_md", "no_folders">>,
                   "no_json", <<"no_md", "no_folders">>, "no_folders")
         /\ Starts(row, <<"no_md", "no_folders">>, "no_md", <<"no_folders">>, "no_folders")
         /\ Starts(row, <<"no_folders">>, "no_folders", <<>>, "no_folders")
<1>1. ASSUME NEW a
      PROVE  Starts(row, <<a>>, a, <<>>, a)
  <2>1. /\ For(row, <<a>>) = <<To(a, row)>>
        /\ For(row, <<>>) = <<>>
    BY DEF For
  <2>2. ASSUME NEW x1
        PROVE  /\ <<x1>> # <<>> /\ Head(<<x1>>) = x1 /\ Last(<<x1>>) = x1
               /\ Tail(<<x1>>) = <<>>
    BY DEF Last
  <2>3. /\ To(a, row) \in ToSet(For(row, <<a>>))
        /\ \A w \in ToSet(For(row, <<a>>)) : w.row = row
    <3>1. For(row, <<a>>)[1] = To(a, row) /\ 1 \in DOMAIN For(row, <<a>>)
      BY <2>1
    <3> QED
      BY <3>1 DEF ToSet, For, To
  <2> DEFINE all == For(row, <<a>>)
  <2>4. all = <<To(a, row)>>
    BY <2>1
  <2>5. all # <<>> /\ Head(all) = To(a, row) /\ Last(all) = To(a, row)
        /\ Tail(all) = <<>>
    <3> HIDE DEF all
    <3> QED
      BY <2>2, <2>4
  <2> QED
    BY <2>1, <2>5, <2>3 DEF Starts
<1>2. ASSUME NEW a, NEW b
      PROVE  Starts(row, <<a, b>>, a, <<b>>, b)
  <2>1. /\ For(row, <<a, b>>) = <<To(a, row), To(b, row)>>
        /\ For(row, <<b>>) = <<To(b, row)>>
    BY DEF For
  <2>2. ASSUME NEW x1, NEW x2
        PROVE  /\ <<x1, x2>> # <<>> /\ Head(<<x1, x2>>) = x1 /\ Last(<<x1, x2>>) = x2
               /\ Tail(<<x1, x2>>) = <<x2>>
    BY DEF Last
  <2>3. /\ To(b, row) \in ToSet(For(row, <<a, b>>))
        /\ \A w \in ToSet(For(row, <<a, b>>)) : w.row = row
    <3>1. For(row, <<a, b>>)[2] = To(b, row) /\ 2 \in DOMAIN For(row, <<a, b>>)
      BY <2>1
    <3> QED
      BY <3>1 DEF ToSet, For, To
  <2> DEFINE all == For(row, <<a, b>>)
  <2>4. all = <<To(a, row), To(b, row)>>
    BY <2>1
  <2>5. all # <<>> /\ Head(all) = To(a, row) /\ Last(all) = To(b, row)
        /\ Tail(all) = <<To(b, row)>>
    <3> HIDE DEF all
    <3> QED
      BY <2>2, <2>4
  <2> QED
    BY <2>1, <2>5, <2>3 DEF Starts
<1>3. ASSUME NEW a, NEW b, NEW c
      PROVE  Starts(row, <<a, b, c>>, a, <<b, c>>, c)
  <2>1. /\ For(row, <<a, b, c>>) = <<To(a, row), To(b, row), To(c, row)>>
        /\ For(row, <<b, c>>) = <<To(b, row), To(c, row)>>
    BY DEF For
  <2>2. ASSUME NEW x1, NEW x2, NEW x3
        PROVE  /\ <<x1, x2, x3>> # <<>> /\ Head(<<x1, x2, x3>>) = x1
                    /\ Last(<<x1, x2, x3>>) = x3
               /\ Tail(<<x1, x2, x3>>) = <<x2, x3>>
    BY DEF Last
  <2>3. /\ To(c, row) \in ToSet(For(row, <<a, b, c>>))
        /\ \A w \in ToSet(For(row, <<a, b, c>>)) : w.row = row
    <3>1. For(row, <<a, b, c>>)[3] = To(c, row) /\ 3 \in DOMAIN For(row, <<a, b, c>>)
      BY <2>1
    <3> QED
      BY <3>1 DEF ToSet, For, To
  <2> DEFINE all == For(row, <<a, b, c>>)
  <2>4. all = <<To(a, row), To(b, row), To(c, row)>>
    BY <2>1
  <2>5. all # <<>> /\ Head(all) = To(a, row) /\ Last(all) = To(c, row)
        /\ Tail(all) = <<To(b, row), To(c, row)>>
    <3> HIDE DEF all
    <3> QED
      BY <2>2, <2>4
  <2> QED
    BY <2>1, <2>5, <2>3 DEF Starts
<1>4. ASSUME NEW a, NEW b, NEW c, NEW d
      PROVE  Starts(row, <<a, b, c, d>>, a, <<b, c, d>>, d)
  <2>1. /\ For(row, <<a, b, c, d>>) = <<To(a, row), To(b, row), To(c, row), To(d, row)>>
        /\ For(row, <<b, c, d>>) = <<To(b, row), To(c, row), To(d, row)>>
    BY DEF For
  <2>2. ASSUME NEW x1, NEW x2, NEW x3, NEW x4
        PROVE  /\ <<x1, x2, x3, x4>> # <<>> /\ Head(<<x1, x2, x3, x4>>) = x1
                    /\ Last(<<x1, x2, x3, x4>>) = x4
               /\ Tail(<<x1, x2, x3, x4>>) = <<x2, x3, x4>>
    BY DEF Last
  <2>3. /\ To(d, row) \in ToSet(For(row, <<a, b, c, d>>))
        /\ \A w \in ToSet(For(row, <<a, b, c, d>>)) : w.row = row
    <3>1. For(row, <<a, b, c, d>>)[4] = To(d, row) /\ 4 \in DOMAIN For(row, <<a, b, c, d>>)
      BY <2>1
    <3> QED
      BY <3>1 DEF ToSet, For, To
  <2> DEFINE all == For(row, <<a, b, c, d>>)
  <2>4. all = <<To(a, row), To(b, row), To(c, row), To(d, row)>>
    BY <2>1
  <2>5. all # <<>> /\ Head(all) = To(a, row) /\ Last(all) = To(d, row)
        /\ Tail(all) = <<To(b, row), To(c, row), To(d, row)>>
    <3> HIDE DEF all
    <3> QED
      BY <2>2, <2>4
  <2> QED
    BY <2>1, <2>5, <2>3 DEF Starts
<1>5. ASSUME NEW a, NEW b, NEW c, NEW d, NEW e
      PROVE  Starts(row, <<a, b, c, d, e>>, a, <<b, c, d, e>>, e)
  <2>1. /\ For(row, <<a, b, c, d, e>>) = <<To(a, row), To(b, row), To(c, row), To(d, row),
             To(e, row)>>
        /\ For(row, <<b, c, d, e>>) = <<To(b, row), To(c, row), To(d, row), To(e, row)>>
    BY DEF For
  <2>2. ASSUME NEW x1, NEW x2, NEW x3, NEW x4, NEW x5
        PROVE  /\ <<x1, x2, x3, x4, x5>> # <<>> /\ Head(<<x1, x2, x3, x4, x5>>) = x1
                    /\ Last(<<x1, x2, x3, x4, x5>>) = x5
               /\ Tail(<<x1, x2, x3, x4, x5>>) = <<x2, x3, x4, x5>>
    BY DEF Last
  <2>3. /\ To(e, row) \in ToSet(For(row, <<a, b, c, d, e>>))
        /\ \A w \in ToSet(For(row, <<a, b, c, d, e>>)) : w.row = row
    <3>1. For(row, <<a, b, c, d, e>>)[5] = To(e, row)
            /\ 5 \in DOMAIN For(row, <<a, b, c, d, e>>)
      BY <2>1
    <3> QED
      BY <3>1 DEF ToSet, For, To
  <2> DEFINE all == For(row, <<a, b, c, d, e>>)
  <2>4. all = <<To(a, row), To(b, row), To(c, row), To(d, row), To(e, row)>>
    BY <2>1
  <2>5. all # <<>> /\ Head(all) = To(a, row) /\ Last(all) = To(e, row)
        /\ Tail(all) = <<To(b, row), To(c, row), To(d, row), To(e, row)>>
    <3> HIDE DEF all
    <3> QED
      BY <2>2, <2>4
  <2> QED
    BY <2>1, <2>5, <2>3 DEF Starts
<1>6. For(row, <<>>) = <<>>
  BY DEF For
<1> QED
  BY <1>1, <1>2, <1>3, <1>4, <1>5, <1>6 DEF SettleWrites, Removal

-----------------------------------------------------------------------------
(* What a write keeps.                                                      *)

LEMMA Written ==
  ASSUME NEW name, NEW row, writes # <<>>, Head(writes) = To(name, row), WriteFile
  PROVE  /\ Effect(name, row) /\ dealt' = dealt /\ died' = died /\ look' = Noticed(name)
         /\ name # "no_folders" => writes' = Tail(writes)
         /\ name = "no_folders" =>
              writes' = IF FoldersLeft # {} THEN writes ELSE Tail(writes)
<1>1. Head(writes).to = name /\ Head(writes).row = row
  BY DEF To
<1> QED
  BY <1>1 DEF WriteFile

-----------------------------------------------------------------------------

\* What remains of the campaign when it is not being removed.
Remains ==
  /\ \A r \in ledger.rows : \E q \in ledger'.rows :
       q.id = r.id /\ q.serial = r.serial /\ (r.status \in Ended => q.status = r.status)
  /\ (\E i \in DOMAIN trace : trace[i].form = "broken") =>
       \E i \in DOMAIN trace' : trace'[i].form = "broken"
  /\ \A id \in TrialIds : folders[id] # Nothing =>
       folders'[id] # Nothing /\ (folders'[id] = Bare => folders[id] = Bare)

\* What every step of a command keeps.
Grew ==
  /\ dealt <= dealt' /\ discarded \subseteq discarded'
  /\ Reported \cup discarded \subseteq Reported' \cup discarded'

\* The trial of the last write is still on its way.
PromiseKept ==
  writes # <<>> =>
    Last(writes).to # "ledger" \/ (writes' # <<>> /\ Last(writes') = Last(writes))

LEMMA TrialRows ==
  ASSUME NEW row \in TrialRow
  PROVE  /\ row.id \in TrialIds /\ row.serial \in 1..dealt
         /\ row.status \in {"pending"} \cup Ended
         /\ row = [id |-> row.id, serial |-> row.serial, status |-> row.status]
BY DEF TrialRow

LEMMA LedgerStays ==
  ASSUME LedgerSound, ledger' = ledger, dealt' = dealt, discarded' = discarded
  PROVE  LedgerSound' /\ Reported' = Reported
BY DEF LedgerSound, TrialRow, TrialIds, BestId, Reported

LEMMA Dealt ==
  ASSUME LedgerSound
  PROVE  /\ dealt \in Nat /\ dealt <= MaxDeals /\ discarded \subseteq 1..dealt
         /\ ledger.rows \subseteq TrialRow
<1>1. dealt \in 0..MaxDeals /\ discarded \subseteq 1..dealt /\ ledger.rows \subseteq TrialRow
  BY DEF LedgerSound
<1> QED
  BY <1>1

LEMMA LedgerKept ==
  ASSUME DataSound, ledger' = ledger, dealt' = dealt, discarded' = discarded
  PROVE  LedgerSound' /\ Grew /\ Reported' = Reported
<1>1. LedgerSound /\ dealt \in Nat
  BY Dealt DEF DataSound
<1>2. LedgerSound' /\ Reported' = Reported
  BY <1>1, LedgerStays
<1> QED
  BY <1>1, <1>2 DEF Grew

LEMMA FoldersStay ==
  ASSUME FoldersSound, ledger' = ledger, dealt' = dealt, folders' = folders
  PROVE  FoldersSound'
BY DEF FoldersSound, TrialIds

LEMMA TraceStays ==
  ASSUME TraceSound, trace' = trace, dealt' = dealt, discarded' = discarded,
         ledger' = ledger, PromiseKept
  PROVE  TraceSound'
<1>1. \A line : Belongs(line) => Belongs(line)'
  BY DEF Belongs, PromiseKept, To
<1>2. trace' \in Seq(TraceLine)'
  BY DEF TraceSound, TraceLine
<1>3. \A r \in ledger'.rows : InTrace(r)'
  BY DEF TraceSound, InTrace, Sane
<1> QED
  BY <1>1, <1>2, <1>3 DEF TraceSound

LEMMA ReportsStay ==
  ASSUME ReportsSound, reports' = reports, Reported \cup discarded \subseteq Reported'
           \cup discarded'
  PROVE  ReportsSound'
BY DEF ReportsSound, IsReport

LEMMA FolderWrite ==
  ASSUME DataSound, NEW row \in TrialRow, writes # <<>>, Head(writes) = To("folder", row),
         WriteFile, PromiseKept
  PROVE  /\ DataSound' /\ Grew /\ Remains
         /\ ledger' = ledger /\ trace' = trace /\ reports' = reports
         /\ folders[row.id] = Nothing => folders'[row.id] = Bare
         /\ folders[row.id] # Nothing => folders'[row.id] = folders[row.id]
         /\ \A id \in TrialIds : id # row.id => folders'[id] = folders[id]
<1>1. /\ dealt' = dealt /\ ledger' = ledger /\ discarded' = discarded /\ trace' = trace
      /\ reports' = reports
      /\ folders' = IF folders[row.id] = Nothing
                    THEN [folders EXCEPT ![row.id] = Bare] ELSE folders
  <2>1. Effect("folder", row) /\ dealt' = dealt
    BY Written
  <2> QED
    BY <2>1 DEF Effect
<1>2. LedgerSound' /\ TraceSound' /\ ReportsSound' /\ Grew
  BY <1>1, LedgerKept, TraceStays, ReportsStay DEF DataSound, Grew
<1>3. row.id \in TrialIds /\ dealt \in Nat
  BY Dealt, TrialRows DEF DataSound
<1>4. /\ folders' \in [TrialIds -> {Nothing, Bare}
                              \cup [serial : 1..dealt, status : {"pending"} \cup Ended]]
      /\ \A id \in TrialIds : folders[id] # Nothing => folders'[id] = folders[id]
  BY <1>1, <1>3 DEF DataSound, FoldersSound
<1>5. \A r \in ledger.rows : r.id \in TrialIds /\ folders[r.id] # Nothing
  <2>1. ASSUME NEW r \in ledger.rows PROVE r.id \in TrialIds /\ folders[r.id] # Nothing
    <3>1. r \in TrialRow
      BY DEF DataSound, LedgerSound
    <3>2. folders[r.id].serial = r.serial /\ Nothing.serial = 0
      BY DEF DataSound, FoldersSound, Nothing
    <3> QED
      BY <3>1, <3>2, <1>3, TrialRows
  <2> QED
    BY <2>1
<1>6. FoldersSound'
  BY <1>1, <1>4, <1>5 DEF DataSound, FoldersSound
<1>7. Remains
  BY <1>1, <1>4 DEF Remains
<1>8. /\ folders[row.id] = Nothing => folders'[row.id] = Bare
      /\ folders[row.id] # Nothing => folders'[row.id] = folders[row.id]
      /\ \A id \in TrialIds : id # row.id => folders'[id] = folders[id]
  BY <1>1, <1>3 DEF DataSound, FoldersSound
<1> QED
  BY <1>1, <1>2, <1>6, <1>7, <1>8 DEF DataSound

LEMMA ManifestWrite ==
  ASSUME DataSound, NEW row \in TrialRow, writes # <<>>, Head(writes) = To("manifest", row),
         WriteFile, PromiseKept,
         \A r \in ledger.rows : r.id = row.id =>
           r.serial = row.serial /\ r.status = "pending" /\ row.status \in Ended
  PROVE  /\ DataSound' /\ Grew /\ Remains /\ InFolder(row)'
         /\ ledger' = ledger /\ trace' = trace /\ reports' = reports
         /\ \A id \in TrialIds : id # row.id => folders'[id] = folders[id]
<1>1. /\ dealt' = dealt /\ ledger' = ledger /\ discarded' = discarded /\ trace' = trace
      /\ reports' = reports
      /\ folders' = [folders EXCEPT ![row.id] = [serial |-> row.serial, status |-> row.status]]
  <2>1. Effect("manifest", row) /\ dealt' = dealt
    BY Written
  <2> QED
    BY <2>1 DEF Effect
<1>2. LedgerSound' /\ TraceSound' /\ ReportsSound' /\ Grew
  BY <1>1, LedgerKept, TraceStays, ReportsStay DEF DataSound, Grew
<1>3. /\ row.id \in TrialIds /\ dealt \in Nat /\ row.serial \in 1..dealt
      /\ row.status \in {"pending"} \cup Ended
  BY Dealt, TrialRows DEF DataSound
<1> DEFINE entry == [serial |-> row.serial, status |-> row.status]
<1>4. /\ entry \in [serial : 1..dealt, status : {"pending"} \cup Ended]
      /\ entry # Nothing /\ entry # Bare /\ entry.serial = row.serial
           /\ entry.status = row.status
  BY <1>3 DEF Nothing, Bare
<1> HIDE DEF entry
<1>5. /\ folders' \in [TrialIds -> {Nothing, Bare}
                              \cup [serial : 1..dealt, status : {"pending"} \cup Ended]]
      /\ folders'[row.id] = entry
      /\ \A id \in TrialIds : id # row.id => folders'[id] = folders[id]
  BY <1>1, <1>3, <1>4 DEF DataSound, FoldersSound, entry
<1>6. \A r \in ledger.rows : r.id \in TrialIds
  BY Dealt, TrialRows DEF DataSound
<1>7. FoldersSound'
  <2>1. ASSUME NEW r \in ledger.rows
        PROVE  /\ folders'[r.id].serial = r.serial
               /\ \/ folders'[r.id].status = r.status
                  \/ r.status = "pending" /\ folders'[r.id].status \in Ended
    <3>1. CASE r.id = row.id
      BY <3>1, <1>4, <1>5
    <3>2. CASE r.id # row.id
      BY <3>2, <1>5, <1>6 DEF DataSound, FoldersSound
    <3> QED
      BY <3>1, <3>2
  <2> QED
    BY <2>1, <1>1, <1>5 DEF FoldersSound
<1>8. Remains
  BY <1>1, <1>4, <1>5 DEF Remains
<1> QED
  BY <1>1, <1>2, <1>5, <1>7, <1>8 DEF DataSound, InFolder, entry

-----------------------------------------------------------------------------
(* The log, line by line.                                                   *)

LEMMA LastLine ==
  ASSUME TraceSound, dealt \in Nat, Cut(trace)
  PROVE  /\ Len(trace) \in Nat \ {0} /\ DOMAIN trace = 1..Len(trace)
         /\ Len(trace) \in DOMAIN trace
         /\ trace[Len(trace)] \in TraceLine /\ trace[Len(trace)].form \in {"cut", "joined"}
BY DEF TraceSound, Cut, Last

\* A line that is gone over again: only its form changes.
LEMMA Reformed ==
  ASSUME TraceSound, dealt \in Nat, Cut(trace),
         NEW form \in {"row", "cut", "joined", "broken"}, dealt' = dealt,
         trace' = [trace EXCEPT ![Len(trace)].form = form]
  PROVE  /\ trace' \in Seq(TraceLine) /\ Len(trace') = Len(trace)
         /\ DOMAIN trace' = DOMAIN trace
         /\ trace'[Len(trace)].form = form
         /\ \A i \in DOMAIN trace : trace'[i].id = trace[i].id
              /\ trace'[i].serial = trace[i].serial
         /\ \A i \in DOMAIN trace : i # Len(trace) => trace'[i] = trace[i]
<1> DEFINE old == trace[Len(trace)]
           new == [old EXCEPT !.form = form]
<1>1. trace \in Seq(TraceLine) /\ Len(trace) \in DOMAIN trace /\ old \in TraceLine
  BY LastLine DEF TraceSound
<1>2. new \in TraceLine /\ new.form = form /\ new.id = old.id /\ new.serial = old.serial
  BY <1>1 DEF TraceLine
<1>3. trace' = [trace EXCEPT ![Len(trace)] = new]
  OBVIOUS
<1> HIDE DEF new
<1> QED
  BY <1>1, <1>2, <1>3

LEMMA LinesBelong ==
  ASSUME \A i \in DOMAIN trace' : \E l :
           l.id = trace'[i].id /\ l.serial = trace'[i].serial /\ Belongs(l)'
  PROVE  (\A i \in DOMAIN trace : Belongs(trace[i]))'
BY DEF Belongs

LEMMA LineWrite ==
  ASSUME DataSound, NEW row \in TrialRow, writes # <<>>, Head(writes) = To("line", row),
         WriteFile, PromiseKept,
         \/ row.serial \in discarded
         \/ row.status = "pending" /\ writes' # <<>> /\ Last(writes') = To("ledger", row)
  PROVE  /\ ledger' = ledger /\ folders' = folders /\ reports' = reports
              /\ discarded' = discarded
         /\ DataSound' /\ Grew /\ Remains /\ Cut(trace)' /\ InTrace(row)'
         /\ Whole(trace) => Beginning'
<1>1. /\ dealt' = dealt /\ ledger' = ledger /\ discarded' = discarded /\ folders' = folders
      /\ reports' = reports /\ trace' = LineBegun(row)
  <2>1. Effect("line", row) /\ dealt' = dealt
    BY Written
  <2> QED
    BY <2>1 DEF Effect
<1>2. LedgerSound' /\ FoldersSound' /\ ReportsSound' /\ Grew
  BY <1>1, LedgerKept, FoldersStay, ReportsStay DEF DataSound, Grew
<1>3. /\ row.id \in Nat /\ dealt \in Nat /\ row.serial \in 1..dealt
      /\ row = [id |-> row.id, serial |-> row.serial, status |-> row.status]
  BY TrialRows DEF DataSound, LedgerSound, TrialIds
<1>4. TraceSound /\ trace \in Seq(TraceLine)
  BY DEF DataSound, TraceSound
<1> DEFINE line == [id |-> row.id, serial |-> row.serial, form |-> "cut"]
<1>5. line \in TraceLine /\ line.id = row.id /\ line.serial = row.serial /\ line.form = "cut"
  BY <1>3 DEF TraceLine
<1>6. Belongs(line)'
  BY <1>1, <1>3, <1>5 DEF Belongs
<1> HIDE DEF line
<1>7. \A l : Belongs(l) => Belongs(l)'
  BY <1>1 DEF Belongs, PromiseKept, To
<1>8. \A i \in DOMAIN trace : Belongs(trace[i])
  BY <1>4 DEF TraceSound
<1>9. CASE Cut(trace)
  <2>1. trace' = [trace EXCEPT ![Len(trace)].form = "joined"]
    BY <1>1, <1>9 DEF LineBegun
  <2>2. Len(trace) \in DOMAIN trace /\ trace # <<>> /\ Len(trace) \in Nat
        /\ trace[Len(trace)].form \in {"cut", "joined"}
    BY <1>3, <1>4, <1>9, LastLine
  <2>3. /\ trace' \in Seq(TraceLine) /\ Len(trace') = Len(trace) /\ DOMAIN trace' = DOMAIN trace
        /\ trace'[Len(trace)].form = "joined"
        /\ \A i \in DOMAIN trace : trace'[i].id = trace[i].id
             /\ trace'[i].serial = trace[i].serial
        /\ \A i \in DOMAIN trace : i # Len(trace) => trace'[i] = trace[i]
    BY <1>1, <1>3, <1>4, <1>9, <2>1, Reformed
  <2>4. trace' # <<>> /\ ~Sane'
    BY <2>2, <2>3 DEF Sane
  <2>5. \A r : InTrace(r)'
    BY <2>4 DEF InTrace
  <2>6. (\A i \in DOMAIN trace : Belongs(trace[i]))'
    BY <1>7, <1>8, <2>3, LinesBelong
  <2>7. trace' \in Seq(TraceLine)'
    BY <1>1, <2>3 DEF TraceLine
  <2>8. Cut(trace)'
    BY <2>2, <2>3, <2>4 DEF Cut, Last
  <2>9. ~Whole(trace)
    BY <2>2 DEF Whole
  <2>10. (\E i \in DOMAIN trace : trace[i].form = "broken") =>
           \E i \in DOMAIN trace' : trace'[i].form = "broken"
    BY <2>2, <2>3
  <2> QED
    BY <1>1, <1>2, <2>5, <2>6, <2>7, <2>8, <2>9, <2>10 DEF DataSound, TraceSound, Remains
<1>10. CASE ~Cut(trace)
  <2>1. trace' = Append(trace, line)
    BY <1>1, <1>10 DEF LineBegun, line
  <2>2. /\ trace' \in Seq(TraceLine) /\ Len(trace') = Len(trace) + 1 /\ Len(trace) \in Nat
        /\ \A i \in 1..Len(trace) : trace'[i] = trace[i]
        /\ trace'[Len(trace) + 1] = line
    BY <1>4, <1>5, <2>1
  <2>3. /\ DOMAIN trace' = 1..(Len(trace) + 1) /\ DOMAIN trace = 1..Len(trace)
        /\ trace' # <<>>
    BY <1>4, <2>2
  <2>4. InTrace(row)'
    BY <1>5, <2>2, <2>3 DEF InTrace
  <2>5. \A r : InTrace(r) => InTrace(r)'
    BY <2>2, <2>3 DEF InTrace, Sane
  <2>6. (\A i \in DOMAIN trace : Belongs(trace[i]))'
    <3>1. ASSUME NEW i \in DOMAIN trace'
          PROVE  \E l : l.id = trace'[i].id /\ l.serial = trace'[i].serial /\ Belongs(l)'
      <4>1. CASE i \in DOMAIN trace
        BY <4>1, <1>7, <1>8, <2>2, <2>3
      <4>2. CASE i = Len(trace) + 1
        BY <4>2, <1>6, <2>2
      <4> QED
        BY <4>1, <4>2, <2>2, <2>3
    <3> QED
      BY <3>1, LinesBelong
  <2>7. trace' \in Seq(TraceLine)'
    BY <1>1, <2>2 DEF TraceLine
  <2>8. Cut(trace)' /\ trace'[Len(trace')].form = "cut"
    BY <1>5, <2>2, <2>3 DEF Cut, Last
  <2>9. Whole(trace) => Beginning'
    BY <2>2, <2>3, <2>8 DEF Whole, Beginning
  <2>10. (\E i \in DOMAIN trace : trace[i].form = "broken") =>
           \E i \in DOMAIN trace' : trace'[i].form = "broken"
    BY <2>2, <2>3
  <2>11. \A r \in ledger'.rows : InTrace(r)'
    BY <1>1, <1>4, <2>5 DEF TraceSound
  <2> QED
    BY <1>1, <1>2, <2>4, <2>6, <2>7, <2>8, <2>9, <2>10, <2>11
    DEF DataSound, TraceSound, Remains
<1> QED
  BY <1>1, <1>9, <1>10

LEMMA EndWrite ==
  ASSUME DataSound, NEW row \in TrialRow, writes # <<>>, Head(writes) = To("end", row),
         WriteFile, PromiseKept, Cut(trace)
  PROVE  /\ ledger' = ledger /\ folders' = folders /\ reports' = reports
              /\ discarded' = discarded
         /\ DataSound' /\ Grew /\ Remains /\ (InTrace(row) => InTrace(row)')
         /\ Beginning => Whole(trace)'
<1>1. /\ dealt' = dealt /\ ledger' = ledger /\ discarded' = discarded /\ folders' = folders
      /\ reports' = reports /\ trace' = LineEnded
  <2>1. Effect("end", row) /\ dealt' = dealt
    BY Written
  <2> QED
    BY <2>1 DEF Effect
<1>2. LedgerSound' /\ FoldersSound' /\ ReportsSound' /\ Grew
  BY <1>1, LedgerKept, FoldersStay, ReportsStay DEF DataSound, Grew
<1>3. dealt \in Nat /\ TraceSound /\ trace \in Seq(TraceLine)
  BY DEF DataSound, LedgerSound, TraceSound
<1>4. PICK form : form = IF trace[Len(trace)].form = "cut" THEN "row" ELSE "broken"
  OBVIOUS
<1>5. trace' = [trace EXCEPT ![Len(trace)].form = form]
  BY <1>1, <1>4 DEF LineEnded
<1>6. /\ Len(trace) \in DOMAIN trace /\ trace # <<>> /\ Len(trace) \in Nat
      /\ DOMAIN trace = 1..Len(trace) /\ trace[Len(trace)].form \in {"cut", "joined"}
  BY <1>3, LastLine
<1>7. /\ trace' \in Seq(TraceLine) /\ Len(trace') = Len(trace) /\ DOMAIN trace' = DOMAIN trace
      /\ trace'[Len(trace)].form = form
      /\ \A i \in DOMAIN trace : trace'[i].id = trace[i].id
           /\ trace'[i].serial = trace[i].serial
      /\ \A i \in DOMAIN trace : i # Len(trace) => trace'[i] = trace[i]
  BY <1>1, <1>3, <1>4, <1>5, Reformed
<1>8. Sane' => Sane
  BY <1>4, <1>6, <1>7 DEF Sane
<1>9. \A r : InTrace(r) => InTrace(r)'
  BY <1>6, <1>7, <1>8 DEF InTrace
<1>10. \A l : Belongs(l) => Belongs(l)'
  BY <1>1 DEF Belongs, PromiseKept, To
<1>11. \A i \in DOMAIN trace : Belongs(trace[i])
  BY <1>3 DEF TraceSound
<1>12. TraceSound'
  <2>1. (\A i \in DOMAIN trace : Belongs(trace[i]))'
    BY <1>7, <1>10, <1>11, LinesBelong
  <2>2. trace' \in Seq(TraceLine)'
    BY <1>1, <1>7 DEF TraceLine
  <2>3. \A r \in ledger'.rows : InTrace(r)'
    BY <1>1, <1>3, <1>9 DEF TraceSound
  <2> QED
    BY <2>1, <2>2, <2>3 DEF TraceSound
<1>13. Beginning => Whole(trace)'
  BY <1>4, <1>6, <1>7 DEF Beginning, Whole
<1>14. Remains
  BY <1>1, <1>6, <1>7 DEF Remains
<1> QED
  BY <1>1, <1>2, <1>9, <1>12, <1>13, <1>14 DEF DataSound

-----------------------------------------------------------------------------
(* The state and the reports.                                               *)

LEMMA LedgerWrite ==
  ASSUME DataSound, NEW row \in TrialRow, writes # <<>>, Head(writes) = To("ledger", row),
         Last(writes) = To("ledger", row), WriteFile,
         row.id <= ledger.next, row.id = ledger.next => row.id <= dealt,
         \A r \in ledger.rows : r.id = row.id =>
           r.serial = row.serial /\ r.status = "pending" /\ row.status \in Ended,
         InFolder(row), InTrace(row)
  PROVE  /\ DataSound' /\ Grew /\ Remains
         /\ ledger'.rows = {r \in ledger.rows : r.id # row.id} \cup {row}
         /\ folders' = folders /\ trace' = trace /\ reports' = reports
         /\ Reported \subseteq Reported'
         /\ row.status = "pending" => Reported' = Reported
<1>1. /\ dealt' = dealt /\ ledger' = Saved(row) /\ discarded' = discarded
      /\ folders' = folders /\ trace' = trace /\ reports' = reports
  <2>1. Effect("ledger", row) /\ dealt' = dealt
    BY Written
  <2> QED
    BY <2>1 DEF Effect
<1> DEFINE kept == {r \in ledger.rows : r.id # row.id}
           rows == kept \cup {row}
           next == IF row.id < ledger.next THEN ledger.next ELSE row.id + 1
<1>2. /\ ledger' = [rows |-> rows, next |-> next, best |-> BestId(rows)]
      /\ ledger'.rows = rows /\ ledger'.next = next
  BY <1>1 DEF Saved
<1>3. /\ row.id \in Nat /\ row.id \in TrialIds /\ dealt \in Nat /\ row.serial \in 1..dealt
      /\ row = [id |-> row.id, serial |-> row.serial, status |-> row.status]
      /\ row.status \in {"pending"} \cup Ended
  BY TrialRows DEF DataSound, LedgerSound, TrialIds
<1>4. /\ ledger.next \in 1..(dealt + 1) /\ ledger.rows \subseteq TrialRow
      /\ IsFiniteSet(ledger.rows)
      /\ \A r \in ledger.rows : r.id < ledger.next /\ \A q \in ledger.rows : r.id = q.id
           => r = q
  BY DEF DataSound, LedgerSound
<1>5. \A r \in ledger.rows : r.id \in Nat /\ r.id \in TrialIds
  BY <1>4, TrialRows DEF TrialIds
<1>6. next \in 1..(dealt + 1) /\ row.id < next /\ ledger.next <= next
  BY <1>3, <1>4
<1>7. /\ IsFiniteSet(rows) /\ rows \subseteq TrialRow
      /\ \A r \in rows : r.id < next /\ \A q \in rows : r.id = q.id => r = q
  <2>1. IsFiniteSet(kept)
    BY <1>4, FS_Subset
  <2>2. IsFiniteSet(rows)
    BY <2>1, FS_AddElement
  <2> QED
    BY <2>2, <1>3, <1>4, <1>5, <1>6
<1>8. LedgerSound'
  <2>1. /\ dealt' \in 0..MaxDeals /\ discarded' \subseteq 1..dealt'
        /\ ledger'.next \in 1..(dealt' + 1)
    BY <1>1, <1>2, <1>6 DEF DataSound, LedgerSound
  <2>2. ledger' = [rows |-> ledger'.rows, next |-> ledger'.next, best |-> BestId(ledger'.rows)]
    BY <1>2
  <2>3. TrialRow' = TrialRow
    BY <1>1 DEF TrialRow, TrialIds
  <2>4. (BestId(ledger.rows))' = BestId(ledger'.rows)
    BY DEF BestId
  <2> QED
    BY <2>1, <2>2, <2>3, <2>4, <1>2, <1>7 DEF LedgerSound
<1> HIDE DEF next
<1>9. \A r \in ledger.rows : r.id = row.id => r.serial = row.serial /\ r.status \notin Ended
  BY DEF Ended
<1>10. \A r \in ledger.rows : \E q \in ledger'.rows :
         q.id = r.id /\ q.serial = r.serial /\ (r.status \in Ended => q.status = r.status)
  <2>1. ASSUME NEW r \in ledger.rows
        PROVE  \E q \in ledger'.rows :
                 q.id = r.id /\ q.serial = r.serial
                   /\ (r.status \in Ended => q.status = r.status)
    <3>1. CASE r.id = row.id
      <4>1. row \in ledger'.rows
        BY <1>2
      <4> QED
        BY <3>1, <4>1, <1>9
    <3>2. CASE r.id # row.id
      BY <3>2, <1>2
    <3> QED
      BY <3>1, <3>2
  <2> QED
    BY <2>1
<1>11. Reported \subseteq Reported'
  BY <1>2, <1>9 DEF Reported, SerialsOf, RowsOf
<1>12. row.status = "pending" => Reported' = Reported
  BY <1>2, <1>11 DEF Reported, SerialsOf, RowsOf, Ended
<1>13. FoldersSound'
  <2>1. folders'[row.id] = [serial |-> row.serial, status |-> row.status]
    BY <1>1 DEF InFolder
  <2>2. ASSUME NEW r \in ledger'.rows
        PROVE  /\ folders'[r.id].serial = r.serial
               /\ folders'[r.id].status = r.status
                    \/ (r.status = "pending" /\ folders'[r.id].status \in Ended)
    <3>1. CASE r = row
      BY <3>1, <2>1
    <3>2. CASE r \in ledger.rows
      BY <3>2, <1>1 DEF DataSound, FoldersSound
    <3> QED
      BY <3>1, <3>2, <1>2
  <2>3. folders' \in [TrialIds -> {Nothing, Bare}
                              \cup [serial : 1..dealt', status : {"pending"} \cup Ended]]
    BY <1>1 DEF DataSound, FoldersSound
  <2> QED
    BY <2>2, <2>3 DEF FoldersSound
<1>14. TraceSound'
  <2>1. trace' \in Seq(TraceLine)'
    BY <1>1 DEF DataSound, TraceSound, TraceLine
  <2>2. \A line : Belongs(line) => Belongs(line)'
    <3>1. ASSUME NEW line, Belongs(line) PROVE Belongs(line)'
      <4>1. CASE line.serial \in discarded
        BY <4>1, <1>1 DEF Belongs
      <4>2. CASE \E r \in ledger.rows : r.id = line.id /\ r.serial = line.serial
        <5>1. PICK r \in ledger.rows : r.id = line.id /\ r.serial = line.serial
          BY <4>2
        <5> QED
          BY <5>1, <1>10 DEF Belongs
      <4>3. CASE Last(writes) = To("ledger", [id |-> line.id, serial |-> line.serial,
                                             status |-> "pending"])
        <5>1. row.id = line.id /\ row.serial = line.serial
          BY <4>3 DEF To
        <5> QED
          BY <5>1, <1>2 DEF Belongs
      <4> QED
        BY <3>1, <4>1, <4>2, <4>3 DEF Belongs
    <3> QED
      BY <3>1
  <2>3. \A i \in DOMAIN trace : Belongs(trace[i])
    BY DEF DataSound, TraceSound
  <2>4. (\A i \in DOMAIN trace : Belongs(trace[i]))'
    BY <1>1, <2>2, <2>3, LinesBelong
  <2>5. \A r \in ledger'.rows : InTrace(r)'
    <3>1. \A r \in ledger'.rows : InTrace(r)
      BY <1>2 DEF DataSound, TraceSound
    <3> QED
      BY <3>1, <1>1 DEF InTrace, Sane
  <2> QED
    BY <2>1, <2>4, <2>5 DEF TraceSound
<1>15. Grew
  BY <1>1, <1>3, <1>11 DEF Grew
<1>16. ReportsSound'
  BY <1>1, <1>15, ReportsStay DEF DataSound, Grew
<1>17. Remains
  BY <1>1, <1>10 DEF Remains
<1> QED
  BY <1>1, <1>2, <1>8, <1>11, <1>12, <1>13, <1>14, <1>15, <1>16, <1>17 DEF DataSound

LEMMA ReportWrite ==
  ASSUME DataSound, NEW name \in {"json", "md"}, NEW row, writes # <<>>,
         Head(writes) = To(name, row), WriteFile, PromiseKept
  PROVE  /\ DataSound' /\ Grew /\ Remains
         /\ ledger' = ledger /\ folders' = folders /\ trace' = trace
         /\ reports'[name] = Shown
         /\ \A other \in {"json", "md"} \ {name} : reports'[other] = reports[other]
<1>1. /\ dealt' = dealt /\ ledger' = ledger /\ discarded' = discarded
      /\ folders' = folders /\ trace' = trace /\ reports' = [reports EXCEPT ![name] = Shown]
  <2>1. Effect(name, row) /\ dealt' = dealt
    BY Written
  <2>2. CASE name = "json"
    BY <2>1, <2>2 DEF Effect
  <2>3. CASE name = "md"
    BY <2>1, <2>3 DEF Effect
  <2> QED
    BY <2>2, <2>3
<1>2. LedgerSound' /\ FoldersSound' /\ TraceSound' /\ Grew /\ Reported' = Reported
  BY <1>1, LedgerKept, FoldersStay, TraceStays DEF DataSound, Grew
<1>3. reports = [json |-> reports.json, md |-> reports.md]
  BY DEF DataSound, ReportsSound
<1>4. /\ reports'[name] = Shown
      /\ \A other \in {"json", "md"} \ {name} : reports'[other] = reports[other]
      /\ reports' = [json |-> reports'.json, md |-> reports'.md]
  BY <1>1, <1>3
<1>5. IsReport(Shown) /\ Shown.lists = Reported
  BY DEF IsReport, Shown, Reported
<1>6. \A r : r = Shown \/ (IsReport(r) /\ r.lists \subseteq Reported \cup discarded) =>
        IsReport(r) /\ r.lists \subseteq Reported \cup discarded
  BY <1>5
<1>7. /\ IsReport(reports'.json) /\ reports'.json.lists \subseteq Reported \cup discarded
      /\ IsReport(reports'.md) /\ reports'.md.lists \subseteq Reported \cup discarded
  <2>1. CASE name = "json"
    BY <2>1, <1>4, <1>6 DEF DataSound, ReportsSound
  <2>2. CASE name = "md"
    BY <2>2, <1>4, <1>6 DEF DataSound, ReportsSound
  <2> QED
    BY <2>1, <2>2
<1>8. ReportsSound'
  BY <1>1, <1>2, <1>4, <1>7 DEF ReportsSound, IsReport
<1>9. Remains
  BY <1>1 DEF Remains
<1> QED
  BY <1>1, <1>2, <1>4, <1>8, <1>9 DEF DataSound

-----------------------------------------------------------------------------
(* A campaign that is removed.                                              *)

LEMMA LedgerRemoved ==
  ASSUME DataSound, NEW row, writes # <<>>, Head(writes) = To("no_ledger", row), WriteFile
  PROVE  /\ DataSound' /\ Grew /\ ledger' = NewLedger /\ discarded' = 1..dealt'
         /\ folders' = folders /\ trace' = trace /\ reports' = reports
<1>1. /\ dealt' = dealt /\ ledger' = NewLedger /\ discarded' = 1..dealt
      /\ folders' = folders /\ trace' = trace /\ reports' = reports
  <2>1. Effect("no_ledger", row) /\ dealt' = dealt
    BY Written
  <2> QED
    BY <2>1 DEF Effect
<1>2. /\ ledger'.rows = {} /\ ledger'.next = 1 /\ ledger'.best = {}
      /\ NewLedger = [rows |-> {}, next |-> 1, best |-> {}]
  BY <1>1 DEF NewLedger
<1>3. dealt \in 0..MaxDeals /\ dealt \in Nat /\ discarded \subseteq 1..dealt
  <2>1. LedgerSound /\ dealt \in 0..MaxDeals
    BY DEF DataSound, LedgerSound
  <2> QED
    BY <2>1, Dealt
<1>4. LedgerSound'
  <2>1. BestId({}) = {}
    BY DEF BestId
  <2>2. ledger' = [rows |-> ledger'.rows, next |-> ledger'.next, best |-> BestId(ledger'.rows)]
    BY <1>1, <1>2, <2>1
  <2>3. IsFiniteSet(ledger'.rows)
    BY <1>2, FS_EmptySet
  <2>4. (BestId(ledger.rows))' = BestId(ledger'.rows)
    BY DEF BestId
  <2> QED
    <3>1. dealt' \in 0..MaxDeals /\ discarded' \subseteq 1..dealt'
            /\ ledger'.next \in 1..(dealt' + 1)
      BY <1>1, <1>2, <1>3
    <3>2. ledger'.rows \subseteq TrialRow'
      BY <1>2
    <3>3. \A r \in ledger'.rows :
            r.id < ledger'.next /\ \A q \in ledger'.rows : r.id = q.id => r = q
      BY <1>2
    <3> QED
      BY <2>2, <2>3, <2>4, <3>1, <3>2, <3>3 DEF LedgerSound
<1>5. FoldersSound'
  BY <1>1, <1>2 DEF DataSound, FoldersSound
<1>6. trace \in Seq(TraceLine) /\ \A i \in DOMAIN trace : trace[i].serial \in 1..dealt
  <2>1. trace \in Seq(TraceLine)
    BY DEF DataSound, TraceSound
  <2>2. \A line \in TraceLine : line.serial \in 1..dealt
    BY DEF TraceLine
  <2> QED
    BY <2>1, <2>2
<1>7. TraceSound'
  <2>1. \A line : line.serial \in 1..dealt => Belongs(line)'
    BY <1>1 DEF Belongs
  <2>2. (\A i \in DOMAIN trace : Belongs(trace[i]))'
    BY <1>1, <1>6, <2>1, LinesBelong
  <2>3. trace' \in Seq(TraceLine)'
    BY <1>1, <1>6 DEF TraceLine
  <2> QED
    BY <1>2, <2>2, <2>3 DEF TraceSound
<1>8. Reported \subseteq 1..dealt
  BY Dealt, TrialRows DEF DataSound, Reported, SerialsOf, RowsOf
<1>9. Grew
  BY <1>1, <1>3, <1>8 DEF Grew
<1>10. ReportsSound'
  BY <1>1, <1>9, ReportsStay DEF DataSound, Grew
<1> QED
  BY <1>1, <1>4, <1>5, <1>7, <1>9, <1>10 DEF DataSound

LEMMA TraceRemoved ==
  ASSUME DataSound, NEW row, writes # <<>>, Head(writes) = To("no_trace", row), WriteFile,
         ledger = NewLedger
  PROVE  /\ DataSound' /\ Grew /\ trace' = <<>>
         /\ ledger' = ledger /\ discarded' = discarded /\ dealt' = dealt
<1>1. /\ dealt' = dealt /\ ledger' = ledger /\ discarded' = discarded
      /\ folders' = folders /\ trace' = <<>> /\ reports' = reports
  <2>1. Effect("no_trace", row) /\ dealt' = dealt
    BY Written
  <2> QED
    BY <2>1 DEF Effect
<1>2. LedgerSound' /\ FoldersSound' /\ ReportsSound' /\ Grew
  BY <1>1, LedgerKept, FoldersStay, ReportsStay DEF DataSound, Grew
<1>3. TraceSound'
  <2>1. ledger'.rows = {}
    BY <1>1 DEF NewLedger
  <2> QED
    BY <1>1, <2>1 DEF TraceSound
<1> QED
  BY <1>1, <1>2, <1>3 DEF DataSound

LEMMA ReportRemoved ==
  ASSUME DataSound, NEW name \in {"no_json", "no_md"}, NEW row, writes # <<>>,
         Head(writes) = To(name, row), WriteFile, PromiseKept
  PROVE  /\ DataSound' /\ Grew /\ ledger' = ledger /\ discarded' = discarded /\ dealt' = dealt
         /\ trace' = trace
         /\ name = "no_json" => reports'.json = NoReport
         /\ name = "no_md" => reports'.md = NoReport /\ reports'.json = reports.json
<1>1. /\ dealt' = dealt /\ ledger' = ledger /\ discarded' = discarded
      /\ folders' = folders /\ trace' = trace
      /\ name = "no_json" => reports' = [reports EXCEPT !.json = NoReport]
      /\ name = "no_md" => reports' = [reports EXCEPT !.md = NoReport]
  <2>1. Effect(name, row) /\ dealt' = dealt
    BY Written
  <2>2. CASE name = "no_json"
    BY <2>1, <2>2 DEF Effect
  <2>3. CASE name = "no_md"
    BY <2>1, <2>3 DEF Effect
  <2> QED
    BY <2>2, <2>3
<1>2. LedgerSound' /\ FoldersSound' /\ TraceSound' /\ Grew /\ Reported' = Reported
  BY <1>1, LedgerKept, FoldersStay, TraceStays DEF DataSound, Grew
<1>3. reports = [json |-> reports.json, md |-> reports.md]
  BY DEF DataSound, ReportsSound
<1>4. /\ reports' = [json |-> reports'.json, md |-> reports'.md]
      /\ name = "no_json" => reports'.json = NoReport /\ reports'.md = reports.md
      /\ name = "no_md" => reports'.md = NoReport /\ reports'.json = reports.json
  BY <1>1, <1>3
<1>5. IsReport(NoReport) /\ NoReport.lists = {}
  BY DEF IsReport, NoReport
<1>6. ReportsSound'
  <2>1. CASE name = "no_json"
    BY <2>1, <1>1, <1>2, <1>4, <1>5 DEF DataSound, ReportsSound, IsReport
  <2>2. CASE name = "no_md"
    BY <2>2, <1>1, <1>2, <1>4, <1>5 DEF DataSound, ReportsSound, IsReport
  <2> QED
    BY <2>1, <2>2
<1> QED
  BY <1>1, <1>2, <1>4, <1>6 DEF DataSound

LEMMA FoldersRemoved ==
  ASSUME DataSound, NEW row, writes # <<>>, Head(writes) = To("no_folders", row), WriteFile,
         PromiseKept, ledger = NewLedger
  PROVE  /\ DataSound' /\ Grew /\ ledger' = ledger /\ discarded' = discarded /\ dealt' = dealt
         /\ trace' = trace /\ reports' = reports
         /\ \/ writes' = writes
            \/ writes' = Tail(writes) /\ \A id \in TrialIds : folders'[id] = Nothing
<1>1. /\ dealt' = dealt /\ ledger' = ledger /\ discarded' = discarded
      /\ trace' = trace /\ reports' = reports
      /\ \/ folders' = folders /\ FoldersLeft = {}
         \/ \E id \in FoldersLeft : folders' = [folders EXCEPT ![id] = Removed(id)]
      /\ writes' = IF FoldersLeft # {} THEN writes ELSE Tail(writes)
  <2>1. /\ Effect("no_folders", row) /\ dealt' = dealt
        /\ writes' = IF FoldersLeft # {} THEN writes ELSE Tail(writes)
    BY Written
  <2> QED
    BY <2>1 DEF Effect
<1>2. LedgerSound' /\ TraceSound' /\ ReportsSound' /\ Grew
  BY <1>1, LedgerKept, TraceStays, ReportsStay DEF DataSound, Grew
<1>3. FoldersSound'
  <2>1. CASE folders' = folders
    BY <2>1, <1>1, FoldersStay DEF DataSound
  <2>2. CASE \E id \in FoldersLeft : folders' = [folders EXCEPT ![id] = Removed(id)]
    BY <2>2, <1>1 DEF DataSound, FoldersSound, NewLedger, Removed, FoldersLeft
  <2> QED
    BY <1>1, <2>1, <2>2
<1>4. FoldersLeft = {} => folders' = folders /\ \A id \in TrialIds : folders'[id] = Nothing
  BY <1>1 DEF FoldersLeft
<1> QED
  BY <1>1, <1>2, <1>3, <1>4 DEF DataSound

\* No file is written: at most one more trial has been dealt.
LEMMA Begins ==
  ASSUME DataSound, \A line : Belongs(line) => Belongs(line)', dealt' \in {dealt, dealt + 1},
         dealt' \in 0..MaxDeals,
         discarded \subseteq discarded', discarded' \subseteq 1..dealt',
         UNCHANGED <<ledger, folders, trace, reports>>
  PROVE  DataSound' /\ Grew /\ Remains /\ Reported' = Reported
<1>1. /\ dealt \in Nat /\ dealt' \in Nat /\ dealt <= dealt' /\ 1..dealt \subseteq 1..dealt'
      /\ ledger' = ledger /\ folders' = folders /\ trace' = trace /\ reports' = reports
  BY Dealt DEF DataSound
<1>2. TrialRow \subseteq TrialRow' /\ TraceLine \subseteq TraceLine'
  BY <1>1 DEF TrialRow, TraceLine, TrialIds
<1>3. LedgerSound'
  BY <1>1, <1>2 DEF DataSound, LedgerSound, BestId
<1>4. FoldersSound'
  BY <1>1 DEF DataSound, FoldersSound
<1>5. TraceSound'
  <2>2. \A i \in DOMAIN trace : Belongs(trace[i])
    BY DEF DataSound, TraceSound
  <2>3. (\A i \in DOMAIN trace : Belongs(trace[i]))'
    BY <1>1, <2>2, LinesBelong
  <2>4. trace' \in Seq(TraceLine)'
    BY <1>1, <1>2 DEF DataSound, TraceSound
  <2>5. \A r \in ledger'.rows : InTrace(r)'
    BY <1>1 DEF DataSound, TraceSound, InTrace, Sane
  <2> QED
    BY <2>3, <2>4, <2>5 DEF TraceSound
<1>6. Reported' = Reported
  BY <1>1 DEF Reported
<1>7. Grew
  BY <1>1, <1>6 DEF Grew
<1>8. ReportsSound'
  BY <1>1, <1>7, ReportsStay DEF DataSound, Grew
<1>9. Remains
  BY <1>1 DEF Remains
<1> QED
  BY <1>3, <1>4, <1>5, <1>6, <1>7, <1>8, <1>9 DEF DataSound

-----------------------------------------------------------------------------
(* One command after the other: each write keeps what is in the files sound.*)

LEMMA Fresh ==
  ASSUME LedgerSound, NEW row \in TrialRow, row.id = ledger.next
  PROVE  \A r \in ledger.rows : r.id # row.id
<1>1. \A r \in ledger.rows : r.id < ledger.next
  BY DEF LedgerSound
<1>2. row.id \in Nat
  BY TrialRows DEF TrialIds
<1> QED
  BY <1>1, <1>2

LEMMA EnteredStays ==
  ASSUME NEW id \in TrialIds, Entered(id), folders'[id] = folders[id],
         \A r \in ledger.rows : r.id = id => r \in ledger'.rows
  PROVE  Entered(id)'
<1>1. CASE folders[id] = Nothing
  BY <1>1 DEF Entered
<1>2. CASE \E r \in ledger.rows : r.id = id /\ InFolder(r)
  <2>1. PICK r \in ledger.rows : r.id = id /\ InFolder(r)
    BY <1>2
  <2>2. r \in ledger'.rows /\ InFolder(r)'
    BY <2>1 DEF InFolder
  <2> QED
    BY <2>1, <2>2 DEF Entered
<1> QED
  BY <1>1, <1>2 DEF Entered

LEMMA MakingStep ==
  ASSUME CampaignSound, NEW row \in TrialRow, Making(row), WriteFile
  PROVE  DataSound' /\ Grew /\ Remains /\ Commanded' /\ Head(writes).to \notin Removals
<1>1. /\ DataSound /\ LedgerSound /\ row.status = "pending" /\ row.id = ledger.next
      /\ row.id <= dealt /\ (died = 0 => AllBut(row) /\ InReports)
  BY DEF CampaignSound, DataSound, Making
<1>2. \A name : To(name, row).to = name
  BY DEF To
<1>3. /\ "folder" \notin Removals /\ "manifest" \notin Removals /\ "line" \notin Removals
      /\ "end" \notin Removals /\ "ledger" \notin Removals
  BY DEF Removals, Removal, ToSet
<1>4. \A r \in ledger.rows : r.id # row.id
  BY <1>1, Fresh
<1>5. row \in TrialRow' /\ died' = died /\ dealt' = dealt
  BY DEF WriteFile, TrialRow, TrialIds
<1>6. ASSUME ledger' = ledger, reports' = reports,
             \A id \in TrialIds : id # row.id => folders'[id] = folders[id], died = 0
      PROVE  AllBut(row)' /\ InReports'
  <2>1. AllBut(row)'
    <3>1. ASSUME NEW id \in TrialIds, id # row.id PROVE Entered(id)'
      <4>1. Entered(id)
        BY <1>1, <1>6, <3>1 DEF AllBut
      <4> QED
        BY <1>6, <3>1, <4>1, EnteredStays
    <3> QED
      BY <3>1 DEF AllBut, TrialIds
  <2> QED
    BY <1>1, <1>6, <2>1 DEF InReports, Reported
<1>7. CASE /\ writes = For(row, <<"folder", "manifest", "line", "end", "ledger">>)
           /\ died = 0 => Tidy /\ folders[row.id] = Nothing
  <2>1. /\ writes # <<>> /\ Head(writes) = To("folder", row) /\ Last(writes) = To("ledger", row)
        /\ Tail(writes) = For(row, <<"manifest", "line", "end", "ledger">>)
        /\ Tail(writes) # <<>> /\ Last(Tail(writes)) = To("ledger", row)
    <3>1. /\ Starts(row, <<"folder", "manifest", "line", "end", "ledger">>, "folder",
                       <<"manifest", "line", "end", "ledger">>, "ledger")
          /\ Starts(row, <<"manifest", "line", "end", "ledger">>, "manifest",
                       <<"line", "end", "ledger">>, "ledger")
      BY PlanOf
    <3> QED
      BY <1>7, <3>1 DEF Starts
  <2>2. writes' = Tail(writes)
    BY <2>1, Written
  <2>3. PromiseKept
    BY <2>1, <2>2 DEF PromiseKept
  <2>4. /\ DataSound' /\ Grew /\ Remains
        /\ ledger' = ledger /\ trace' = trace /\ reports' = reports
        /\ folders[row.id] = Nothing => folders'[row.id] = Bare
        /\ \A id \in TrialIds : id # row.id => folders'[id] = folders[id]
    BY <1>1, <2>1, <2>3, FolderWrite
  <2>5. Making(row)'
    BY <1>1, <1>5, <1>6, <1>7, <2>1, <2>2, <2>4 DEF Making, Tidy, Whole
  <2> QED
    BY <1>2, <1>3, <1>5, <2>1, <2>4, <2>5 DEF Commanded
<1>8. CASE /\ writes = For(row, <<"manifest", "line", "end", "ledger">>)
           /\ died = 0 => Whole(trace) /\ folders[row.id] = Bare
  <2>1. /\ writes # <<>> /\ Head(writes) = To("manifest", row)
        /\ Last(writes) = To("ledger", row)
        /\ Tail(writes) = For(row, <<"line", "end", "ledger">>)
        /\ Tail(writes) # <<>> /\ Last(Tail(writes)) = To("ledger", row)
    <3>1. /\ Starts(row, <<"manifest", "line", "end", "ledger">>, "manifest",
                       <<"line", "end", "ledger">>, "ledger")
          /\ Starts(row, <<"line", "end", "ledger">>, "line", <<"end", "ledger">>, "ledger")
      BY PlanOf
    <3> QED
      BY <1>8, <3>1 DEF Starts
  <2>2. writes' = Tail(writes)
    BY <2>1, Written
  <2>3. PromiseKept
    BY <2>1, <2>2 DEF PromiseKept
  <2>4. /\ DataSound' /\ Grew /\ Remains /\ InFolder(row)'
        /\ ledger' = ledger /\ trace' = trace /\ reports' = reports
        /\ \A id \in TrialIds : id # row.id => folders'[id] = folders[id]
    BY <1>1, <1>4, <2>1, <2>3, ManifestWrite
  <2>5. Making(row)'
    BY <1>1, <1>5, <1>6, <1>8, <2>1, <2>2, <2>4 DEF Making, Whole
  <2> QED
    BY <1>2, <1>3, <1>5, <2>1, <2>4, <2>5 DEF Commanded
<1>9. CASE /\ writes = For(row, <<"line", "end", "ledger">>) /\ InFolder(row)
           /\ died = 0 => Whole(trace)
  <2>1. /\ writes # <<>> /\ Head(writes) = To("line", row) /\ Last(writes) = To("ledger", row)
        /\ Tail(writes) = For(row, <<"end", "ledger">>)
        /\ Tail(writes) # <<>> /\ Last(Tail(writes)) = To("ledger", row)
    <3>1. /\ Starts(row, <<"line", "end", "ledger">>, "line", <<"end", "ledger">>, "ledger")
          /\ Starts(row, <<"end", "ledger">>, "end", <<"ledger">>, "ledger")
      BY PlanOf
    <3> QED
      BY <1>9, <3>1 DEF Starts
  <2>2. writes' = Tail(writes)
    BY <2>1, Written
  <2>3. PromiseKept
    BY <2>1, <2>2 DEF PromiseKept
  <2>4. /\ DataSound' /\ Grew /\ Remains /\ Cut(trace)' /\ InTrace(row)'
        /\ ledger' = ledger /\ folders' = folders /\ reports' = reports
        /\ Whole(trace) => Beginning'
    BY <1>1, <2>1, <2>2, <2>3, LineWrite
  <2>5. InFolder(row)'
    BY <1>9, <2>4 DEF InFolder
  <2>6. Making(row)'
    BY <1>1, <1>5, <1>6, <1>9, <2>1, <2>2, <2>4, <2>5 DEF Making
  <2> QED
    BY <1>2, <1>3, <1>5, <2>1, <2>4, <2>6 DEF Commanded
<1>10. CASE /\ writes = For(row, <<"end", "ledger">>) /\ InFolder(row) /\ Cut(trace)
                 /\ InTrace(row)
            /\ died = 0 => Beginning
  <2>1. /\ writes # <<>> /\ Head(writes) = To("end", row) /\ Last(writes) = To("ledger", row)
        /\ Tail(writes) = For(row, <<"ledger">>)
        /\ Tail(writes) # <<>> /\ Last(Tail(writes)) = To("ledger", row)
    <3>1. /\ Starts(row, <<"end", "ledger">>, "end", <<"ledger">>, "ledger")
          /\ Starts(row, <<"ledger">>, "ledger", <<>>, "ledger")
      BY PlanOf
    <3> QED
      BY <1>10, <3>1 DEF Starts
  <2>2. writes' = Tail(writes)
    BY <2>1, Written
  <2>3. PromiseKept
    BY <2>1, <2>2 DEF PromiseKept
  <2>4. /\ DataSound' /\ Grew /\ Remains /\ InTrace(row)'
        /\ ledger' = ledger /\ folders' = folders /\ reports' = reports
        /\ Beginning => Whole(trace)'
    BY <1>1, <1>10, <2>1, <2>2, <2>3, EndWrite
  <2>5. InFolder(row)'
    BY <1>10, <2>4 DEF InFolder
  <2>6. Making(row)'
    BY <1>1, <1>5, <1>6, <1>10, <2>1, <2>2, <2>4, <2>5 DEF Making
  <2> QED
    BY <1>2, <1>3, <1>5, <2>1, <2>4, <2>6 DEF Commanded
<1>11. CASE /\ writes = For(row, <<"ledger">>) /\ InFolder(row) /\ InTrace(row)
            /\ died = 0 => Whole(trace)
  <2>1. /\ writes # <<>> /\ Head(writes) = To("ledger", row) /\ Last(writes) = To("ledger", row)
        /\ Tail(writes) = <<>>
    <3>1. /\ Starts(row, <<"ledger">>, "ledger", <<>>, "ledger")
          /\ For(row, <<>>) = <<>>
      BY PlanOf
    <3> QED
      BY <1>11, <3>1 DEF Starts
  <2>2. writes' = <<>>
    <3>1. writes' = Tail(writes)
      BY <2>1, Written
    <3> QED
      BY <2>1, <3>1
  <2>3. row.id \in Nat
    BY TrialRows DEF TrialIds
  <2>4. row.id <= ledger.next
    BY <1>1, <2>3
  <2>5. /\ DataSound' /\ Grew /\ Remains
        /\ ledger'.rows = {r \in ledger.rows : r.id # row.id} \cup {row}
        /\ folders' = folders /\ trace' = trace /\ reports' = reports
        /\ Reported \subseteq Reported'
    BY <1>1, <1>4, <1>11, <2>1, <2>4, LedgerWrite
  <2>6. ASSUME died = 0 PROVE Tidy'
    <3>1. AllBut(row) /\ InReports
      BY <1>1, <2>6
    <3>2. ASSUME NEW id \in TrialIds PROVE Entered(id)'
      <4>1. CASE id = row.id
        <5>1. row \in ledger'.rows /\ InFolder(row)'
          BY <1>11, <2>5 DEF InFolder
        <5> QED
          BY <4>1, <5>1 DEF Entered
      <4>2. CASE id # row.id
        <5>1. Entered(id)
          BY <3>1, <4>2 DEF AllBut
        <5> QED
          BY <2>5, <4>2, <5>1, EnteredStays
      <4> QED
        BY <4>1, <4>2
    <3>3. AllEntered'
      BY <3>2 DEF AllEntered, TrialIds
    <3>4. Whole(trace)' /\ InReports'
      BY <1>11, <2>5, <2>6, <3>1 DEF Whole, InReports
    <3> QED
      BY <3>3, <3>4 DEF Tidy
  <2> QED
    BY <1>2, <1>3, <1>5, <2>1, <2>2, <2>5, <2>6 DEF Commanded
<1> QED
  BY <1>7, <1>8, <1>9, <1>10, <1>11 DEF Making

LEMMA TidinessStays ==
  /\ ledger' = ledger /\ folders' = folders /\ AllEntered => AllEntered'
  /\ ledger' = ledger /\ reports' = reports /\ InReports => InReports'
  /\ trace' = trace /\ Whole(trace) => Whole(trace)'
<1>1. ledger' = ledger /\ folders' = folders /\ AllEntered => AllEntered'
  BY DEF AllEntered, Entered, InFolder, TrialIds
<1> QED
  BY <1>1 DEF InReports, Reported, Whole

LEMMA Kinds ==
  /\ \A name, row : To(name, row).to = name /\ To(name, row).row = row
  /\ "folder" \notin Removals /\ "manifest" \notin Removals /\ "line" \notin Removals
  /\ "end" \notin Removals /\ "ledger" \notin Removals /\ "json" \notin Removals
  /\ "md" \notin Removals
  /\ {"no_ledger", "no_trace", "no_json", "no_md", "no_folders"} \subseteq Removals
<1>1. Removal[1] = "no_ledger" /\ Removal[2] = "no_trace" /\ Removal[3] = "no_json"
      /\ Removal[4] = "no_md" /\ Removal[5] = "no_folders" /\ DOMAIN Removal = 1..5
  BY DEF Removal
<1>2. {"no_ledger", "no_trace", "no_json", "no_md", "no_folders"} \subseteq Removals
  BY <1>1 DEF Removals, ToSet
<1>3. /\ "folder" \notin Removals /\ "manifest" \notin Removals /\ "line" \notin Removals
      /\ "end" \notin Removals /\ "ledger" \notin Removals /\ "json" \notin Removals
      /\ "md" \notin Removals
  BY DEF Removals, Removal, ToSet
<1> QED
  BY <1>2, <1>3 DEF To

LEMMA LoggingStep ==
  ASSUME CampaignSound, NEW row \in TrialRow, Logging(row), WriteFile
  PROVE  DataSound' /\ Grew /\ Remains /\ Commanded' /\ Head(writes).to \notin Removals
<1>1. DataSound /\ row.serial \in discarded /\ (died = 0 => AllEntered /\ InReports)
  BY DEF CampaignSound, Logging
<1>2. row \in TrialRow' /\ died' = died /\ dealt' = dealt
  BY DEF WriteFile, TrialRow, TrialIds
<1>3. CASE writes = For(row, <<"line", "end">>) /\ (died = 0 => Tidy)
  <2>1. /\ writes # <<>> /\ Head(writes) = To("line", row) /\ Last(writes) = To("end", row)
        /\ Tail(writes) = For(row, <<"end">>)
    <3>1. /\ Starts(row, <<"line", "end">>, "line", <<"end">>, "end")
          /\ Starts(row, <<"end">>, "end", <<>>, "end")
      BY PlanOf
    <3> QED
      BY <1>3, <3>1 DEF Starts
  <2>2. writes' = Tail(writes)
    BY <2>1, Written
  <2>3. PromiseKept
    BY <2>1 DEF PromiseKept, To
  <2>4. /\ DataSound' /\ Grew /\ Remains /\ Cut(trace)' /\ discarded' = discarded
        /\ ledger' = ledger /\ folders' = folders /\ reports' = reports
        /\ Whole(trace) => Beginning'
    BY <1>1, <2>1, <2>3, LineWrite
  <2>5. Logging(row)'
    BY <1>1, <1>2, <1>3, <2>1, <2>2, <2>4, TidinessStays DEF Logging, Tidy
  <2> QED
    BY <1>2, <2>1, <2>4, <2>5, Kinds DEF Commanded
<1>4. CASE writes = For(row, <<"end">>) /\ Cut(trace) /\ (died = 0 => Beginning)
  <2>1. /\ writes # <<>> /\ Head(writes) = To("end", row) /\ Last(writes) = To("end", row)
        /\ Tail(writes) = <<>>
    <3>1. /\ Starts(row, <<"end">>, "end", <<>>, "end")
          /\ For(row, <<>>) = <<>>
      BY PlanOf
    <3> QED
      BY <1>4, <3>1 DEF Starts
  <2>2. writes' = <<>>
    <3>1. writes' = Tail(writes)
      BY <2>1, Written
    <3> QED
      BY <2>1, <3>1
  <2>3. PromiseKept
    BY <2>1 DEF PromiseKept, To
  <2>4. /\ DataSound' /\ Grew /\ Remains
        /\ ledger' = ledger /\ folders' = folders /\ reports' = reports
        /\ Beginning => Whole(trace)'
    BY <1>1, <1>4, <2>1, <2>3, EndWrite
  <2>5. died' = 0 => Tidy'
    BY <1>1, <1>2, <1>4, <2>4, TidinessStays DEF Tidy
  <2> QED
    BY <2>1, <2>2, <2>4, <2>5, Kinds DEF Commanded
<1> QED
  BY <1>3, <1>4 DEF Logging

LEMMA SettlingStep ==
  ASSUME CampaignSound, NEW row \in TrialRow, Settling(row), WriteFile
  PROVE  DataSound' /\ Grew /\ Remains /\ Commanded' /\ Head(writes).to \notin Removals
<1>1. /\ DataSound /\ LedgerSound /\ FoldersSound /\ TraceSound /\ row.status \in Ended
      /\ died = 0 => Whole(trace) /\ InReports
  BY DEF CampaignSound, DataSound, Settling
<1>2. row \in TrialRow' /\ died' = died /\ dealt' = dealt
  BY DEF WriteFile, TrialRow, TrialIds
<1>3. PICK old \in ledger.rows :
        old.id = row.id /\ old.serial = row.serial /\ old.status = "pending"
  BY DEF Settling
<1>4. \A r \in ledger.rows : r.id = row.id =>
        r.serial = row.serial /\ r.status = "pending" /\ row.status \in Ended
  <2>1. \A r \in ledger.rows : r.id = old.id => r = old
    BY <1>1, <1>3 DEF LedgerSound
  <2> QED
    BY <1>1, <1>3, <2>1
<1>5. row.id \in TrialIds /\ row.id \in Nat /\ row.serial \in 1..dealt /\ dealt \in Nat
  BY <1>1, Dealt, TrialRows DEF TrialIds
<1>6. folders[row.id] # Nothing
  <2>1. folders[row.id].serial = row.serial /\ Nothing.serial = 0
    BY <1>1, <1>3 DEF FoldersSound, Nothing
  <2> QED
    BY <1>5, <2>1
<1>7. CASE writes = For(row, SettleWrites) /\ (died = 0 => AllEntered)
  <2>1. /\ writes # <<>> /\ Head(writes) = To("folder", row) /\ Last(writes) = To("ledger", row)
        /\ Tail(writes) = For(row, <<"manifest", "ledger">>)
        /\ Tail(writes) # <<>> /\ Last(Tail(writes)) = To("ledger", row)
    <3>1. /\ Starts(row, SettleWrites, "folder", <<"manifest", "ledger">>, "ledger")
          /\ Starts(row, <<"manifest", "ledger">>, "manifest", <<"ledger">>, "ledger")
      BY PlanOf
    <3> QED
      BY <1>7, <3>1 DEF Starts
  <2>2. writes' = Tail(writes)
    BY <2>1, Written
  <2>3. PromiseKept
    BY <2>1, <2>2 DEF PromiseKept
  <2>4. /\ DataSound' /\ Grew /\ Remains
        /\ ledger' = ledger /\ trace' = trace /\ reports' = reports
        /\ \A id \in TrialIds : folders'[id] = folders[id]
    BY <1>1, <1>6, <2>1, <2>3, FolderWrite
  <2>5. AllEntered => AllEntered'
    <3>1. ASSUME AllEntered, NEW id \in TrialIds PROVE Entered(id)'
      <4>1. Entered(id)
        BY <3>1 DEF AllEntered
      <4> QED
        BY <2>4, <4>1, EnteredStays
    <3> QED
      BY <3>1 DEF AllEntered, TrialIds
  <2>6. Settling(row)'
    <3>1. \E r \in ledger'.rows : r.id = row.id /\ r.serial = row.serial /\ r.status = "pending"
      BY <1>3, <2>4
    <3>2. died' = 0 => Whole(trace)' /\ InReports'
      BY <1>1, <1>2, <2>4, TidinessStays
    <3>3. writes' = For(row, <<"manifest", "ledger">>) /\ (died' = 0 => AllEntered')
      BY <1>2, <1>7, <2>1, <2>2, <2>4, <2>5
    <3> QED
      BY <1>1, <3>1, <3>2, <3>3 DEF Settling
  <2> QED
    BY <1>2, <2>1, <2>4, <2>6, Kinds DEF Commanded
<1>8. CASE writes = For(row, <<"manifest", "ledger">>) /\ (died = 0 => AllEntered)
  <2>1. /\ writes # <<>> /\ Head(writes) = To("manifest", row)
        /\ Last(writes) = To("ledger", row) /\ Tail(writes) = For(row, <<"ledger">>)
        /\ Tail(writes) # <<>> /\ Last(Tail(writes)) = To("ledger", row)
    <3>1. /\ Starts(row, <<"manifest", "ledger">>, "manifest", <<"ledger">>, "ledger")
          /\ Starts(row, <<"ledger">>, "ledger", <<>>, "ledger")
      BY PlanOf
    <3> QED
      BY <1>8, <3>1 DEF Starts
  <2>2. writes' = Tail(writes)
    BY <2>1, Written
  <2>3. PromiseKept
    BY <2>1, <2>2 DEF PromiseKept
  <2>4. /\ DataSound' /\ Grew /\ Remains /\ InFolder(row)'
        /\ ledger' = ledger /\ trace' = trace /\ reports' = reports
        /\ \A id \in TrialIds : id # row.id => folders'[id] = folders[id]
    BY <1>1, <1>4, <2>1, <2>3, ManifestWrite
  <2>5. AllEntered => AllBut(row)'
    <3>1. ASSUME AllEntered, NEW id \in TrialIds, id # row.id PROVE Entered(id)'
      <4>1. Entered(id)
        BY <3>1 DEF AllEntered
      <4> QED
        BY <2>4, <3>1, <4>1, EnteredStays
    <3> QED
      BY <3>1 DEF AllBut, TrialIds
  <2>6. Settling(row)'
    <3>1. \E r \in ledger'.rows : r.id = row.id /\ r.serial = row.serial /\ r.status = "pending"
      BY <1>3, <2>4
    <3>2. died' = 0 => Whole(trace)' /\ InReports'
      BY <1>1, <1>2, <2>4, TidinessStays
    <3>3. writes' = For(row, <<"ledger">>) /\ InFolder(row)' /\ (died' = 0 => AllBut(row)')
      BY <1>2, <1>8, <2>1, <2>2, <2>4, <2>5
    <3> QED
      BY <1>1, <3>1, <3>2, <3>3 DEF Settling
  <2> QED
    BY <1>2, <2>1, <2>4, <2>6, Kinds DEF Commanded
<1>9. CASE writes = For(row, <<"ledger">>) /\ InFolder(row) /\ (died = 0 => AllBut(row))
  <2>1. /\ writes # <<>> /\ Head(writes) = To("ledger", row) /\ Last(writes) = To("ledger", row)
        /\ Tail(writes) = <<>>
    <3>1. /\ Starts(row, <<"ledger">>, "ledger", <<>>, "ledger")
          /\ For(row, <<>>) = <<>>
      BY PlanOf
    <3> QED
      BY <1>9, <3>1 DEF Starts
  <2>2. writes' = <<>>
    <3>1. writes' = Tail(writes)
      BY <2>1, Written
    <3> QED
      BY <2>1, <3>1
  <2>3. row.id < ledger.next /\ ledger.next \in Nat
    BY <1>1, <1>3, <1>5 DEF LedgerSound
  <2>4. row.id <= ledger.next /\ row.id # ledger.next
    BY <1>5, <2>3
  <2>5. InTrace(row)
    BY <1>1, <1>3 DEF TraceSound, InTrace
  <2>6. /\ DataSound' /\ Grew /\ Remains
        /\ ledger'.rows = {r \in ledger.rows : r.id # row.id} \cup {row}
        /\ folders' = folders /\ trace' = trace /\ reports' = reports
        /\ Reported \subseteq Reported'
    BY <1>1, <1>4, <1>9, <2>1, <2>4, <2>5, LedgerWrite
  <2>7. ASSUME died = 0 PROVE Tidy'
    <3>1. ASSUME NEW id \in TrialIds PROVE Entered(id)'
      <4>1. CASE id = row.id
        <5>1. row \in ledger'.rows /\ InFolder(row)'
          BY <1>9, <2>6 DEF InFolder
        <5> QED
          BY <4>1, <5>1 DEF Entered
      <4>2. CASE id # row.id
        <5>1. Entered(id)
          BY <1>9, <2>7, <4>2 DEF AllBut
        <5> QED
          BY <2>6, <4>2, <5>1, EnteredStays
      <4> QED
        BY <4>1, <4>2
    <3>2. AllEntered'
      BY <3>1 DEF AllEntered, TrialIds
    <3>3. Whole(trace)' /\ InReports'
      BY <1>1, <2>6, <2>7, TidinessStays DEF InReports
    <3> QED
      BY <3>2, <3>3 DEF Tidy
  <2> QED
    BY <1>2, <2>1, <2>2, <2>6, <2>7, Kinds DEF Commanded
<1> QED
  BY <1>7, <1>8, <1>9 DEF Settling

LEMMA ReportStep ==
  ASSUME CampaignSound, ReportMaking, WriteFile
  PROVE  DataSound' /\ Grew /\ Remains /\ Commanded' /\ Head(writes).to \notin Removals
<1>1. DataSound /\ ReportsSound /\ (died = 0 => AllEntered /\ Whole(trace)) /\ died' = died
  BY DEF CampaignSound, DataSound, ReportMaking, WriteFile
<1>2. CASE writes = For(NoTrial, <<"json", "md">>) /\ (died = 0 => Tidy)
  <2>1. /\ writes # <<>> /\ Head(writes) = To("json", NoTrial)
             /\ Last(writes) = To("md", NoTrial)
        /\ Tail(writes) = For(NoTrial, <<"md">>)
    <3>1. /\ Starts(NoTrial, <<"json", "md">>, "json", <<"md">>, "md")
          /\ Starts(NoTrial, <<"md">>, "md", <<>>, "md")
      BY PlanOf
    <3> QED
      BY <1>2, <3>1 DEF Starts
  <2>2. writes' = Tail(writes)
    BY <2>1, Written
  <2>3. PromiseKept
    BY <2>1 DEF PromiseKept, To
  <2>4. /\ DataSound' /\ Grew /\ Remains /\ reports'["json"] = Shown
        /\ ledger' = ledger /\ folders' = folders /\ trace' = trace
    BY <1>1, <2>1, <2>3, ReportWrite
  <2>5. Shown' = Shown
    BY <2>4 DEF Shown
  <2>6. ReportMaking'
    BY <1>1, <2>1, <2>2, <2>4, <2>5, TidinessStays DEF ReportMaking
  <2> QED
    BY <2>1, <2>4, <2>6, Kinds DEF Commanded
<1>3. CASE writes = For(NoTrial, <<"md">>) /\ (died = 0 => reports.json = Shown)
  <2>1. /\ writes # <<>> /\ Head(writes) = To("md", NoTrial) /\ Last(writes) = To("md", NoTrial)
        /\ Tail(writes) = <<>>
    <3>1. /\ Starts(NoTrial, <<"md">>, "md", <<>>, "md")
          /\ For(NoTrial, <<>>) = <<>>
      BY PlanOf
    <3> QED
      BY <1>3, <3>1 DEF Starts
  <2>2. writes' = <<>>
    <3>1. writes' = Tail(writes)
      BY <2>1, Written
    <3> QED
      BY <2>1, <3>1
  <2>3. PromiseKept
    BY <2>1 DEF PromiseKept, To
  <2>4. /\ DataSound' /\ Grew /\ Remains /\ reports'["md"] = Shown
        /\ ledger' = ledger /\ folders' = folders /\ trace' = trace
        /\ reports'["json"] = reports["json"]
    BY <1>1, <2>1, <2>3, ReportWrite
  <2>5. died = 0 => InReports'
    <3>1. Shown.lists = Reported /\ Reported' = Reported
      BY <2>4 DEF Shown, Reported
    <3> QED
      BY <1>3, <2>4, <3>1 DEF InReports
  <2>6. died' = 0 => Tidy'
    BY <1>1, <2>4, <2>5, TidinessStays DEF Tidy
  <2> QED
    BY <2>1, <2>2, <2>4, <2>6, Kinds DEF Commanded
<1> QED
  BY <1>2, <1>3 DEF ReportMaking

LEMMA RemovingStep ==
  ASSUME CampaignSound, Removing, WriteFile
  PROVE  DataSound' /\ Grew /\ Commanded' /\ Head(writes).to \in Removals
<1>1. DataSound /\ died' = died
  BY DEF CampaignSound, WriteFile
<1>2. CASE writes = For(NoTrial, Removal) /\ (died = 0 => Tidy)
  <2>1. /\ writes # <<>> /\ Head(writes) = To("no_ledger", NoTrial)
        /\ Tail(writes) = For(NoTrial, <<"no_trace", "no_json", "no_md", "no_folders">>)
    <3>1. /\ Starts(NoTrial, Removal, "no_ledger",
                       <<"no_trace", "no_json", "no_md", "no_folders">>, "no_folders")
          /\ Starts(NoTrial, <<"no_trace", "no_json", "no_md", "no_folders">>, "no_trace",
                       <<"no_json", "no_md", "no_folders">>, "no_folders")
      BY PlanOf
    <3> QED
      BY <1>2, <3>1 DEF Starts
  <2>2. writes' = Tail(writes)
    BY <2>1, Written
  <2>3. DataSound' /\ Grew /\ ledger' = NewLedger /\ discarded' = 1..dealt'
    BY <1>1, <2>1, LedgerRemoved
  <2>4. Removing'
    BY <2>1, <2>2, <2>3 DEF Removing, NewLedger
  <2> QED
    BY <2>1, <2>3, <2>4, Kinds DEF Commanded
<1>3. CASE /\ ledger = NewLedger /\ discarded = 1..dealt
           /\ writes = For(NoTrial, <<"no_trace", "no_json", "no_md", "no_folders">>)
  <2>1. /\ writes # <<>> /\ Head(writes) = To("no_trace", NoTrial)
        /\ Tail(writes) = For(NoTrial, <<"no_json", "no_md", "no_folders">>)
    <3>1. /\ Starts(NoTrial, <<"no_trace", "no_json", "no_md", "no_folders">>, "no_trace",
                       <<"no_json", "no_md", "no_folders">>, "no_folders")
          /\ Starts(NoTrial, <<"no_json", "no_md", "no_folders">>, "no_json",
                       <<"no_md", "no_folders">>, "no_folders")
      BY PlanOf
    <3> QED
      BY <1>3, <3>1 DEF Starts
  <2>2. writes' = Tail(writes)
    BY <2>1, Written
  <2>3. DataSound' /\ Grew /\ trace' = <<>> /\ ledger' = ledger /\ discarded' = discarded
        /\ dealt' = dealt
    BY <1>1, <1>3, <2>1, TraceRemoved
  <2>4. Removing'
    BY <1>3, <2>1, <2>2, <2>3 DEF Removing, NewLedger
  <2> QED
    BY <2>1, <2>3, <2>4, Kinds DEF Commanded
<1>4. CASE /\ ledger = NewLedger /\ discarded = 1..dealt /\ trace = <<>>
           /\ writes = For(NoTrial, <<"no_json", "no_md", "no_folders">>)
  <2>1. /\ writes # <<>> /\ Head(writes) = To("no_json", NoTrial)
        /\ Tail(writes) = For(NoTrial, <<"no_md", "no_folders">>)
        /\ Last(writes) = To("no_folders", NoTrial)
    <3>1. /\ Starts(NoTrial, <<"no_json", "no_md", "no_folders">>, "no_json",
                       <<"no_md", "no_folders">>, "no_folders")
          /\ Starts(NoTrial, <<"no_md", "no_folders">>, "no_md", <<"no_folders">>, "no_folders")
      BY PlanOf
    <3> QED
      BY <1>4, <3>1 DEF Starts
  <2>2. writes' = Tail(writes)
    BY <2>1, Written
  <2>3. PromiseKept
    BY <2>1 DEF PromiseKept, To
  <2>4. DataSound' /\ Grew /\ trace' = trace /\ ledger' = ledger /\ discarded' = discarded
        /\ dealt' = dealt /\ reports'.json = NoReport
    BY <1>1, <2>1, <2>3, ReportRemoved
  <2>5. Removing'
    BY <1>4, <2>1, <2>2, <2>4 DEF Removing, NewLedger, NoReport
  <2> QED
    BY <2>1, <2>4, <2>5, Kinds DEF Commanded
<1>5. CASE /\ ledger = NewLedger /\ discarded = 1..dealt /\ trace = <<>>
           /\ reports.json = NoReport /\ writes = For(NoTrial, <<"no_md", "no_folders">>)
  <2>1. /\ writes # <<>> /\ Head(writes) = To("no_md", NoTrial)
        /\ Tail(writes) = For(NoTrial, <<"no_folders">>)
        /\ Last(writes) = To("no_folders", NoTrial)
    <3>1. /\ Starts(NoTrial, <<"no_md", "no_folders">>, "no_md", <<"no_folders">>, "no_folders")
          /\ Starts(NoTrial, <<"no_folders">>, "no_folders", <<>>, "no_folders")
      BY PlanOf
    <3> QED
      BY <1>5, <3>1 DEF Starts
  <2>2. writes' = Tail(writes)
    BY <2>1, Written
  <2>3. PromiseKept
    BY <2>1 DEF PromiseKept, To
  <2>4. DataSound' /\ Grew /\ trace' = trace /\ ledger' = ledger /\ discarded' = discarded
        /\ dealt' = dealt /\ reports'.md = NoReport /\ reports'.json = reports.json
    BY <1>1, <2>1, <2>3, ReportRemoved
  <2>5. Removing'
    BY <1>5, <2>1, <2>2, <2>4 DEF Removing, NewLedger, NoReport
  <2> QED
    BY <2>1, <2>4, <2>5, Kinds DEF Commanded
<1>6. CASE /\ ledger = NewLedger /\ discarded = 1..dealt /\ trace = <<>>
           /\ reports.json = NoReport /\ reports.md = NoReport
           /\ writes = For(NoTrial, <<"no_folders">>)
  <2>1. /\ writes # <<>> /\ Head(writes) = To("no_folders", NoTrial) /\ Tail(writes) = <<>>
        /\ Last(writes) = To("no_folders", NoTrial)
    <3>1. /\ Starts(NoTrial, <<"no_folders">>, "no_folders", <<>>, "no_folders")
          /\ For(NoTrial, <<>>) = <<>>
      BY PlanOf
    <3> QED
      BY <1>6, <3>1 DEF Starts
  <2>2. PromiseKept
    BY <2>1 DEF PromiseKept, To
  <2>3. /\ DataSound' /\ Grew /\ ledger' = ledger /\ discarded' = discarded /\ dealt' = dealt
        /\ trace' = trace /\ reports' = reports
        /\ \/ writes' = writes
           \/ writes' = Tail(writes) /\ \A id \in TrialIds : folders'[id] = Nothing
    BY <1>1, <1>6, <2>1, <2>2, FoldersRemoved
  <2>4. CASE writes' = writes
    <3>1. Removing'
      BY <1>6, <2>3, <2>4 DEF Removing, NewLedger, NoReport
    <3> QED
      BY <2>1, <2>3, <3>1, Kinds DEF Commanded
  <2>5. CASE writes' = Tail(writes) /\ \A id \in TrialIds : folders'[id] = Nothing
    <3>1. AllEntered'
      BY <2>5 DEF AllEntered, Entered, TrialIds
    <3>2. Whole(trace)' /\ InReports'
      BY <1>6, <2>3 DEF Whole, InReports, NoReport
    <3> QED
      BY <2>1, <2>3, <2>5, <3>1, <3>2, Kinds DEF Commanded, Tidy
  <2> QED
    BY <2>3, <2>4, <2>5
<1> QED
  BY <1>2, <1>3, <1>4, <1>5, <1>6 DEF Removing

-----------------------------------------------------------------------------
(* Commands begin, go on and end.                                           *)

\* What a command has left to write are files of the one trial it is about.
LEMMA Left ==
  ASSUME Commanded, writes # <<>>
  PROVE  /\ Last(writes) \in ToSet(writes)
         /\ \A w \in ToSet(writes) : w.row \in TrialRow \/ w.row = NoTrial
<1>1. ASSUME NEW row \in TrialRow, Making(row) \/ Logging(row) \/ Settling(row)
      PROVE  Last(writes) \in ToSet(writes) /\ \A w \in ToSet(writes) : w.row = row
  <2>1. CASE Making(row)
    <3>1. \E names, head, tail, last :
            writes = For(row, names) /\ Starts(row, names, head, tail, last)
      BY <2>1, PlanOf DEF Making
    <3> QED
      BY <3>1 DEF Starts
  <2>2. CASE Logging(row)
    <3>1. \E names, head, tail, last :
            writes = For(row, names) /\ Starts(row, names, head, tail, last)
      BY <2>2, PlanOf DEF Logging
    <3> QED
      BY <3>1 DEF Starts
  <2>3. CASE Settling(row)
    <3>1. \E names, head, tail, last :
            writes = For(row, names) /\ Starts(row, names, head, tail, last)
      BY <2>3, PlanOf DEF Settling
    <3> QED
      BY <3>1 DEF Starts
  <2> QED
    BY <1>1, <2>1, <2>2, <2>3
<1>2. ASSUME ReportMaking \/ Removing
      PROVE  Last(writes) \in ToSet(writes) /\ \A w \in ToSet(writes) : w.row = NoTrial
  <2>1. CASE ReportMaking
    BY ZenonT(30), <2>1, PlanOf DEF ReportMaking, Starts
  <2>2. CASE Removing
    <3>1. \E names, head, tail, last :
            writes = For(NoTrial, names) /\ Starts(NoTrial, names, head, tail, last)
      BY <2>2, PlanOf DEF Removing
    <3> QED
      BY <3>1 DEF Starts
  <2> QED
    BY <1>2, <2>1, <2>2
<1> QED
  BY <1>1, <1>2 DEF Commanded

LEMMA IdleIsTidy ==
  ASSUME Commanded, writes = <<>>, died = 0
  PROVE  Tidy
<1>1. ASSUME NEW row \in TrialRow PROVE ~Making(row) /\ ~Logging(row) /\ ~Settling(row)
  <2>1. ~Making(row)
    BY PlanOf DEF Making, Starts
  <2>2. ~Logging(row)
    BY PlanOf DEF Logging, Starts
  <2>3. ~Settling(row)
    BY PlanOf DEF Settling, Starts
  <2> QED
    BY <2>1, <2>2, <2>3
<1>2. ~ReportMaking
  BY PlanOf DEF ReportMaking, Starts
<1>3. ~Removing
  BY PlanOf DEF Removing, Starts
<1> QED
  BY <1>1, <1>2, <1>3 DEF Commanded

LEMMA CampaignWrites ==
  ASSUME CampaignSound, WriteFile
  PROVE  /\ CampaignSound' /\ Grew /\ dealt' = dealt /\ died' = died
         /\ Head(writes).to \notin Removals => Remains
         /\ look' = Noticed(Head(writes).to)
<1>1. writes # <<>> /\ Commanded /\ died \in Nat
  BY DEF WriteFile, Calm, CampaignSound
<1>2. dealt' = dealt /\ died' = died /\ look' = Noticed(Head(writes).to)
  BY DEF WriteFile
<1>3. DataSound' /\ Grew /\ Commanded' /\ (Head(writes).to \notin Removals => Remains)
  <2>1. CASE \E row \in TrialRow : Making(row) \/ Logging(row) \/ Settling(row)
    BY <2>1, MakingStep, LoggingStep, SettlingStep
  <2>2. CASE ReportMaking
    BY <2>2, ReportStep
  <2>3. CASE Removing
    BY <2>3, RemovingStep
  <2> QED
    BY <1>1, <2>1, <2>2, <2>3 DEF Commanded
<1> QED
  BY <1>1, <1>2, <1>3 DEF CampaignSound

FilesStand == UNCHANGED <<ledger, folders, trace, reports>>

LEMMA TidyStands == FilesStand /\ Tidy => Tidy'
<1>1. ASSUME FilesStand
      PROVE  ledger' = ledger /\ folders' = folders /\ trace' = trace /\ reports' = reports
  BY <1>1 DEF FilesStand
<1> QED
  BY <1>1, TidinessStays DEF Tidy

LEMMA CommandBegins ==
  ASSUME CampaignSound, Allocate \/ LogInfeasible
  PROVE  CampaignSound' /\ Grew /\ Remains /\ FilesStand /\ died' = died /\ look' = look
<1>1. /\ DataSound /\ LedgerSound /\ Commanded /\ died \in Nat /\ writes = <<>>
      /\ dealt < MaxDeals /\ dealt' = dealt + 1 /\ died' = died /\ look' = look
      /\ ledger' = ledger /\ folders' = folders /\ trace' = trace /\ reports' = reports
  BY DEF CampaignSound, DataSound, Allocate, LogInfeasible, Calm
<1>2. dealt \in Nat /\ MaxDeals \in Nat /\ discarded \subseteq 1..dealt
      /\ ledger.next \in 1..(dealt + 1)
  BY <1>1, Dealt, LookAssumption DEF LedgerSound
<1>3. dealt' \in 0..MaxDeals /\ discarded \subseteq discarded' /\ discarded' \subseteq 1..dealt'
  <2>1. CASE Allocate
    BY <1>1, <1>2, <2>1 DEF Allocate
  <2>2. CASE LogInfeasible
    BY <1>1, <1>2, <2>2 DEF LogInfeasible
  <2> QED
    BY <2>1, <2>2
<1>4. \A line : Belongs(line) => Belongs(line)'
  BY <1>1, <1>3 DEF Belongs
<1>5. DataSound' /\ Grew /\ Remains /\ FilesStand
  BY <1>1, <1>3, <1>4, Begins DEF FilesStand
<1>6. died = 0 => Tidy /\ Tidy'
  BY <1>1, <1>5, IdleIsTidy, TidyStands
<1> DEFINE row == [id |-> ledger.next, serial |-> dealt', status |-> "pending"]
<1>7. PICK dealing : dealing = row
  OBVIOUS
<1>8. /\ dealing.id = ledger.next /\ dealing.serial = dealt' /\ dealing.status = "pending"
      /\ dealing.id \in TrialIds /\ dealing.id <= dealt'
  BY <1>1, <1>2, <1>7 DEF TrialIds
<1>9. dealing \in TrialRow'
  <2>1. dealt' \in 1..dealt'
    BY <1>1, <1>2
  <2> QED
    BY <2>1, <1>7, <1>8 DEF TrialRow, TrialIds
<1>10. Commanded'
  <2>1. CASE Allocate
    <3>1. writes' = For(dealing, <<"folder", "manifest", "line", "end", "ledger">>)
      BY <1>7, <2>1 DEF Allocate
    <3>2. ASSUME died = 0 PROVE folders'[dealing.id] = Nothing /\ AllBut(dealing)' /\ InReports'
      <4>1. \A r \in ledger.rows : r.id < ledger.next
        BY <1>1 DEF LedgerSound
      <4>2. Entered(dealing.id)
        BY <1>6, <1>8, <3>2 DEF Tidy, AllEntered
      <4>3. folders[dealing.id] = Nothing
        BY <1>2, <1>8, <4>1, <4>2 DEF Entered
      <4> QED
        BY <1>1, <1>6, <3>2, <4>3 DEF Tidy, AllEntered, AllBut
    <3>3. Making(dealing)'
      BY <1>1, <1>6, <1>8, <3>1, <3>2 DEF Making
    <3> QED
      BY <1>9, <3>3 DEF Commanded
  <2>2. CASE LogInfeasible
    <3>1. writes' = For(dealing, <<"line", "end">>)
      BY <1>7, <2>2 DEF LogInfeasible
    <3>2. dealing.serial \in discarded'
      BY <1>8, <2>2 DEF LogInfeasible
    <3>3. Logging(dealing)'
      BY <1>1, <1>6, <3>1, <3>2 DEF Logging, Tidy
    <3> QED
      BY <1>9, <3>3 DEF Commanded
  <2> QED
    BY <2>1, <2>2
<1> QED
  BY <1>1, <1>5, <1>10 DEF CampaignSound

LEMMA OtherBegins ==
  ASSUME CampaignSound,
         \/ MakeReport \/ ResetCampaign
         \/ \E row \in RowsOf(ledger, {"pending"}), status \in Ended : Settle(row, status)
  PROVE  CampaignSound' /\ Grew /\ Remains /\ FilesStand /\ died' = died /\ look' = look
<1>1. /\ DataSound /\ LedgerSound /\ Commanded /\ died \in Nat /\ writes = <<>>
      /\ dealt' = dealt /\ died' = died /\ look' = look /\ discarded' = discarded
      /\ ledger' = ledger /\ folders' = folders /\ trace' = trace /\ reports' = reports
  BY DEF CampaignSound, DataSound, MakeReport, ResetCampaign, Settle, Calm
<1>2. dealt \in 0..MaxDeals /\ discarded \subseteq 1..dealt
  BY <1>1 DEF LedgerSound
<1>3. \A line : Belongs(line) => Belongs(line)'
  BY <1>1 DEF Belongs
<1>4. DataSound' /\ Grew /\ Remains /\ FilesStand
  BY <1>1, <1>2, <1>3, Begins DEF FilesStand
<1>5. died = 0 => Tidy'
  BY <1>1, <1>4, IdleIsTidy, TidyStands
<1>6. Commanded'
  <2>1. CASE MakeReport
    <3>1. ReportMaking'
      BY <1>1, <1>5, <2>1 DEF MakeReport, ReportMaking, NoTrial, Tidy
    <3> QED
      BY <3>1 DEF Commanded
  <2>2. CASE ResetCampaign
    <3>1. Removing'
      BY <1>1, <1>5, <2>2 DEF ResetCampaign, Removing, NoTrial
    <3> QED
      BY <3>1 DEF Commanded
  <2>3. CASE \E row \in RowsOf(ledger, {"pending"}), status \in Ended : Settle(row, status)
    <3>1. PICK row \in RowsOf(ledger, {"pending"}), status \in Ended : Settle(row, status)
      BY <2>3
    <3>2. row \in ledger.rows /\ row \in TrialRow /\ row.status = "pending"
      BY <1>1, Dealt DEF RowsOf
    <3>3. PICK settled : settled = [row EXCEPT !.status = status]
      OBVIOUS
    <3>4. /\ settled \in TrialRow' /\ settled.status \in Ended
          /\ settled.id = row.id /\ settled.serial = row.serial
      BY <1>1, <3>2, <3>3 DEF TrialRow, TrialIds
    <3>5. writes' = For(settled, SettleWrites)
      BY <3>1, <3>3 DEF Settle
    <3>6. Settling(settled)'
      BY <1>1, <1>5, <3>2, <3>4, <3>5 DEF Settling, Tidy
    <3> QED
      BY <3>4, <3>6 DEF Commanded
  <2> QED
    BY <2>1, <2>2, <2>3
<1> QED
  BY <1>1, <1>4, <1>6 DEF CampaignSound

LEMMA CommandUnwinds ==
  ASSUME CampaignSound, CommandDies
  PROVE  CampaignSound' /\ Grew /\ Remains /\ FilesStand /\ died' = died + 1 /\ look' = look
<1>1. /\ DataSound /\ LedgerSound /\ Commanded /\ died \in Nat /\ writes # <<>>
      /\ dealt' = dealt /\ died' = died + 1 /\ look' = look /\ writes' = <<>>
      /\ ledger' = ledger /\ folders' = folders /\ trace' = trace /\ reports' = reports
      /\ discarded' = discarded \cup
           {w.row.serial : w \in
              {x \in ToSet(writes) : x.to = "ledger" /\ x.row.status = "pending"}}
  BY DEF CampaignSound, DataSound, CommandDies, Calm
<1>2. /\ Last(writes) \in ToSet(writes)
      /\ \A w \in ToSet(writes) : w.row \in TrialRow \/ w.row = NoTrial
  BY <1>1, Left
<1>3. \A w \in ToSet(writes) : w.row.status = "pending" => w.row.serial \in 1..dealt
  BY <1>2, TrialRows DEF NoTrial
<1>4. /\ dealt \in 0..MaxDeals /\ discarded \subseteq discarded'
           /\ discarded' \subseteq 1..dealt
      /\ discarded \subseteq 1..dealt
  <2>1. dealt \in 0..MaxDeals /\ discarded \subseteq 1..dealt
    BY <1>1 DEF LedgerSound
  <2> QED
    BY <1>1, <1>3, <2>1
<1>5. ASSUME NEW line, Belongs(line) PROVE Belongs(line)'
  <2>1. CASE line.serial \in discarded \/ \E r \in ledger.rows : r.id = line.id
               /\ r.serial = line.serial
    BY <1>1, <1>4, <2>1 DEF Belongs
  <2>2. CASE Last(writes) = To("ledger", [id |-> line.id, serial |-> line.serial,
                                         status |-> "pending"])
    <3>1. /\ Last(writes).to = "ledger" /\ Last(writes).row.status = "pending"
          /\ Last(writes).row.serial = line.serial
      BY <2>2 DEF To
    <3>2. line.serial \in discarded'
      BY <1>1, <1>2, <3>1
    <3> QED
      BY <3>2 DEF Belongs
  <2> QED
    BY <1>5, <2>1, <2>2 DEF Belongs
<1>6. DataSound' /\ Grew /\ Remains /\ FilesStand
  BY <1>1, <1>4, <1>5, Begins DEF FilesStand
<1>7. died' # 0 /\ died' \in Nat
  BY <1>1
<1> QED
  BY <1>1, <1>6, <1>7 DEF CampaignSound, Commanded

-----------------------------------------------------------------------------
(* The reader waits while the files change.                                 *)

LEMMA NobodyLooks ==
  ASSUME look' = NoLook
  PROVE  LookShaped' /\ LookSound' /\ CheckSound'
<1>1. /\ look'.op = "none" /\ look'.state = NewLedger /\ look'.state.rows = {}
      /\ look'.views = {} /\ look'.report = {}
  BY DEF NoLook, NewLedger
<1>2. LookShaped'
  BY <1>1 DEF LookShaped, IsLook, NoLook, Stage, Checks
<1>3. LookSound'
  BY <1>1 DEF LookSound, StateLasts, Steady
<1>4. CheckSound'
  BY <1>1 DEF CheckSound, Checks
<1> QED
  BY <1>2, <1>3, <1>4

LEMMA TrialRowsStay ==
  ASSUME dealt \in Nat, dealt' \in Nat, dealt <= dealt'
  PROVE  TrialRow \subseteq TrialRow'
BY DEF TrialRow, TrialIds

\* A command begins or dies, and the reader waits.
LEMMA ReaderWaits ==
  ASSUME InspectionInv, CampaignSound', look' = look, FilesStand, Grew,
         died' \in {died, died + 1}
  PROVE  LookShaped' /\ LookSound' /\ CheckSound'
<1>1. /\ ledger' = ledger /\ folders' = folders /\ trace' = trace /\ reports' = reports
      /\ died \in Nat /\ discarded \subseteq discarded'
      /\ Reported \cup discarded \subseteq Reported' \cup discarded'
      /\ LookShaped /\ LookSound /\ CheckSound
  BY DEF FilesStand, InspectionInv, CampaignSound, Grew
<1>2. TrialRow \subseteq TrialRow'
  <2>1. dealt \in Nat /\ dealt <= dealt'
    BY Dealt DEF InspectionInv, CampaignSound, DataSound, Grew
  <2>2. dealt' \in Nat
    BY DEF CampaignSound, DataSound, LedgerSound
  <2> QED
    BY <2>1, <2>2, TrialRowsStay
<1>3. Steady' => Steady
  BY <1>1 DEF Steady
<1>4. LookShaped'
  BY <1>1, <1>3 DEF LookShaped, IsLook, Stage, TrialIds, ReadPart, Checks
<1>5. CheckSound'
  BY <1>1 DEF CheckSound, Unread, Unchecked, Whole, TrialIds
<1>6. LookSound'
  <2>1. StateLasts'
    BY <1>1, <1>2 DEF LookSound, StateLasts
  <2>2. \A v \in look.views : ViewOf(v)'
    BY <1>1 DEF LookSound, ViewOf
  <2>3. Steady' => Tidy'
    BY <1>1, <1>3, TidyStands DEF LookSound
  <2>4. Steady' /\ look'.op \in {"trials", "trial"} =>
          /\ ~Unread("state")' => look'.state = ledger'
          /\ \A v \in look'.views : v.pending = (v.status = "pending")
          /\ look'.alarms \subseteq (IF look'.op = "trial" THEN {"not_found"} ELSE {})
    BY <1>1, <1>3 DEF LookSound, Unread
  <2>5. look'.op = "trial" /\ look'.left = <<>> /\ look'.alarms = {} /\ ~look'.wiped =>
          \A v \in look'.views : v.known # Nothing =>
            look'.decision # {} /\ look'.decision \subseteq {v.known.serial} \cup discarded'
    BY <1>1 DEF LookSound
  <2>6. /\ look'.report \subseteq Reported' \cup discarded'
        /\ Steady' /\ look'.op = "report" /\ look'.left = <<>> /\ look'.alarms = {} =>
             look'.report = reports'.json.lists
        /\ look'.op = "alerts" /\ ~look'.wiped =>
             (look'.left # <<>> => look'.warnings = {})
               /\ (RowsOf(look'.state, {"pending"}) # {} => look'.warnings = {})
    BY <1>1, <1>3 DEF LookSound
  <2> QED
    BY <1>1, <2>1, <2>2, <2>3, <2>4, <2>5, <2>6 DEF LookSound, RowsOf
<1> QED
  BY <1>4, <1>5, <1>6

\* A file is written, and the reader that is under way will not call it quiet.
LEMMA ReaderNotices ==
  ASSUME InspectionInv, CampaignSound', Grew, NEW name, look' = Noticed(name),
         name \notin Removals => Remains
  PROVE  LookShaped' /\ LookSound' /\ CheckSound'
<1>1. /\ discarded \subseteq discarded'
      /\ Reported \cup discarded \subseteq Reported' \cup discarded'
      /\ LookShaped /\ LookSound /\ CheckSound /\ IsLook(look)
  BY DEF InspectionInv, Grew, LookShaped
<1>2. CASE look.op = "none"
  <2>1. look = NoLook
    BY <1>1, <1>2 DEF LookShaped
  <2>2. look' = NoLook
    BY <2>1 DEF Noticed, NoLook
  <2> QED
    BY <2>2, NobodyLooks
<1>3. CASE look.op # "none"
  <2>1. /\ look'.op = look.op /\ look'.id = look.id /\ look'.left = look.left
        /\ look'.state = look.state /\ look'.views = look.views
        /\ look'.decision = look.decision /\ look'.report = look.report
        /\ look'.alarms = look.alarms /\ look'.warnings = look.warnings
        /\ look'.done = look.done /\ look'.torn = look.torn /\ look'.bare = look.bare
        /\ look'.quiet = FALSE /\ look'.wiped = (look.wiped \/ name \in Removals)
        /\ IsLook(look)'
    BY <1>1, <1>3 DEF Noticed, IsLook
  <2>2. ~look'.wiped => ~look.wiped /\ Remains
    BY <2>1
  <2>3. look'.wiped \in BOOLEAN /\ ~Steady'
    BY <1>1, <2>1 DEF LookShaped, Steady
  <2>4. LookShaped'
    BY <1>1, <1>3, <2>1, <2>3 DEF LookShaped, Stage, TrialIds, ReadPart, Checks
  <2>5. TrialRow \subseteq TrialRow'
    <3>1. dealt \in Nat /\ dealt <= dealt'
      BY Dealt DEF InspectionInv, CampaignSound, DataSound, Grew
    <3>2. dealt' \in Nat
      BY DEF CampaignSound, DataSound, LedgerSound
    <3> QED
      BY <3>1, <3>2, TrialRowsStay
  <2>6. StateLasts'
    <3>1. look'.state.rows \subseteq TrialRow'
      BY <1>1, <2>1, <2>5 DEF LookSound, StateLasts
    <3>2. ASSUME ~look'.wiped, NEW r \in look.state.rows
          PROVE  \E q \in ledger'.rows :
                   q.id = r.id /\ q.serial = r.serial
                     /\ (r.status \in Ended => q.status = r.status)
      <4>1. PICK p \in ledger.rows :
              p.id = r.id /\ p.serial = r.serial /\ (r.status \in Ended => p.status = r.status)
        BY <1>1, <2>2, <3>2 DEF LookSound, StateLasts
      <4>2. PICK q \in ledger'.rows :
              q.id = p.id /\ q.serial = p.serial /\ (p.status \in Ended => q.status = p.status)
        BY <2>2, <3>2 DEF Remains
      <4> QED
        BY <4>1, <4>2
    <3> QED
      BY <2>1, <3>1, <3>2 DEF StateLasts
  <2>7. \A v \in look.views : ViewOf(v)'
    BY <1>1, <2>1, <2>2 DEF LookSound, ViewOf
  <2>8. LookSound'
    BY <1>1, <2>1, <2>2, <2>3, <2>6, <2>7 DEF LookSound
  <2>9. CheckSound'
    <3>1. ASSUME look.op \in Checks, ~look'.wiped
          PROVE  /\ look.torn => /\ \E i \in DOMAIN trace' : trace'[i].form = "broken"
                                 /\ Unread("trace")' \/ "broken_line" \in look.alarms
                 /\ \A id \in look.bare :
                      /\ folders'[id] # Nothing
                      /\ folders'[id] = Bare => Unchecked(id)' \/ look.alarms # {}
      <4>1. /\ look.torn => /\ \E i \in DOMAIN trace : trace[i].form = "broken"
                            /\ Unread("trace") \/ "broken_line" \in look.alarms
            /\ \A id \in look.bare :
                 /\ folders[id] # Nothing
                 /\ folders[id] = Bare => Unchecked(id) \/ look.alarms # {}
        BY <1>1, <2>2, <3>1 DEF CheckSound
      <4>2. Unread("trace") => Unread("trace")'
        BY <2>1 DEF Unread
      <4>3. \A id : Unchecked(id) => Unchecked(id)'
        BY <2>1 DEF Unchecked, Unread
      <4>4. \A id \in TrialIds : folders[id] # Nothing =>
              folders'[id] # Nothing /\ (folders'[id] = Bare => folders[id] = Bare)
        BY <2>2, <3>1 DEF Remains
      <4>5. look.bare \subseteq TrialIds
        BY <1>1 DEF LookShaped
      <4> QED
        BY <2>2, <3>1, <4>1, <4>2, <4>3, <4>4, <4>5 DEF Remains
    <3> QED
      BY <1>1, <2>1, <3>1 DEF CheckSound
  <2> QED
    BY <2>4, <2>8, <2>9
<1> QED
  BY <1>2, <1>3

-----------------------------------------------------------------------------
(* The reader asks.                                                         *)

Asks(op, id, reads) ==
  [NoLook EXCEPT !.op = op, !.id = id, !.left = reads,
                 !.torn = \E i \in DOMAIN trace : trace[i].form = "broken",
                 !.bare = {f \in TrialIds : folders[f] = Bare},
                 !.quiet = writes = <<>>]

\* The files of a look, as the set of those that are left to read.
LEMMA ChecksRead ==
  /\ ValidateReads \in Seq(ReadPart) /\ ValidateReads # <<>>
  /\ MetricsReads \in Seq(ReadPart) /\ MetricsReads # <<>>
  /\ {Read("trace"), Read("folders")} \subseteq ToSet(ValidateReads)
  /\ {Read("trace"), Read("folders")} \subseteq ToSet(MetricsReads)
  /\ \A item \in ToSet(ValidateReads) \cup ToSet(MetricsReads) : item.file # "folder"
<1>1. \A name \in {"state", "trace", "folders", "presence", "statuses", "latency"} :
        Read(name) \in ReadPart /\ Read(name).file = name
  BY DEF Read, ReadPart
<1>2. /\ ValidateReads \in Seq(ReadPart) /\ DOMAIN ValidateReads = 1..4
      /\ ValidateReads[1] = Read("state") /\ ValidateReads[2] = Read("trace")
      /\ ValidateReads[3] = Read("folders") /\ ValidateReads[4] = Read("presence")
  BY <1>1 DEF ValidateReads
<1>3. /\ HealthReads \in Seq(ReadPart) /\ Len(HealthReads) = 5
      /\ HealthReads[1] = Read("state") /\ HealthReads[2] = Read("trace")
      /\ HealthReads[3] = Read("presence") /\ HealthReads[4] = Read("folders")
      /\ HealthReads[5] = Read("statuses")
  BY <1>1 DEF HealthReads
<1>4. /\ MetricsReads \in Seq(ReadPart) /\ DOMAIN MetricsReads = 1..6
      /\ MetricsReads[1] = Read("state") /\ MetricsReads[2] = Read("trace")
      /\ MetricsReads[3] = Read("presence") /\ MetricsReads[4] = Read("folders")
      /\ MetricsReads[5] = Read("statuses") /\ MetricsReads[6] = Read("latency")
  <2>1. PICK health \in Seq(ReadPart) : health = HealthReads
    BY <1>3
  <2>2. PICK latency \in ReadPart : latency = Read("latency")
    BY <1>1
  <2>3. Len(health) = 5
    BY <1>3, <2>1
  <2>4. /\ Append(health, latency) \in Seq(ReadPart) /\ Len(Append(health, latency)) = 6
        /\ \A i \in 1..5 : Append(health, latency)[i] = health[i]
        /\ Append(health, latency)[6] = latency
    <3>1. ASSUME NEW S, NEW s \in Seq(S), NEW x \in S
          PROVE  /\ Append(s, x) \in Seq(S) /\ Len(Append(s, x)) = Len(s) + 1
                 /\ \A i \in 1..Len(s) : Append(s, x)[i] = s[i]
                 /\ Append(s, x)[Len(s) + 1] = x
      OBVIOUS
    <3>2. /\ Append(health, latency) \in Seq(ReadPart)
          /\ Len(Append(health, latency)) = Len(health) + 1
          /\ \A i \in 1..Len(health) : Append(health, latency)[i] = health[i]
          /\ Append(health, latency)[Len(health) + 1] = latency
      BY <3>1
    <3> HIDE <3>1
    <3> QED
      BY <2>3, <3>2
  <2>5. MetricsReads = Append(health, latency)
    BY <2>1, <2>2 DEF MetricsReads
  <2> QED
    BY <1>3, <2>1, <2>2, <2>4, <2>5
<1>5. {Read("trace"), Read("folders")} \subseteq ToSet(ValidateReads)
  BY <1>2 DEF ToSet
<1>6. {Read("trace"), Read("folders")} \subseteq ToSet(MetricsReads)
  BY <1>4 DEF ToSet
<1>7. \A item \in ToSet(ValidateReads) : item.file # "folder"
  BY <1>1, <1>2 DEF ToSet
<1>8. \A item \in ToSet(MetricsReads) : item.file # "folder"
  <2>1. \A i \in 1..6 : MetricsReads[i].file # "folder"
    <3>1. \A i \in 1..6 : i = 1 \/ i = 2 \/ i = 3 \/ i = 4 \/ i = 5 \/ i = 6
      OBVIOUS
    <3> QED
      BY <1>1, <1>4, <3>1
  <2> QED
    BY <1>4, <2>1 DEF ToSet
<1>9. ValidateReads # <<>> /\ MetricsReads # <<>>
  <2>1. 1 \in DOMAIN ValidateReads /\ 1 \in DOMAIN MetricsReads
    BY <1>2, <1>4
  <2> QED
    BY <2>1
<1> QED
  BY <1>2, <1>4, <1>5, <1>6, <1>7, <1>8, <1>9

LEMMA ReaderAsks ==
  ASSUME InspectionInv, look.op = "none", NEW op, NEW id, NEW reads,
         look' = Asks(op, id, reads), UNCHANGED campaignVars,
         \/ op \in Checks /\ reads \in {ValidateReads, MetricsReads}
         \/ op = "trials" /\ reads = TrialsReads
         \/ op = "trial" /\ id \in TrialIds /\ reads = TrialReads(id)
         \/ op = "report" /\ reads = ReportReads
         \/ op = "alerts" /\ reads = AlertReads
  PROVE  LookShaped' /\ LookSound' /\ CheckSound'
<1>1. /\ ledger' = ledger /\ folders' = folders /\ trace' = trace /\ reports' = reports
      /\ writes' = writes /\ died' = died /\ CampaignSound
  BY DEF InspectionInv, campaignVars
<1>2. /\ look'.op = op /\ look'.id = id /\ look'.left = reads /\ look'.state = NewLedger
      /\ look'.views = {} /\ look'.decision = {} /\ look'.report = {} /\ look'.alarms = {}
      /\ look'.warnings = {} /\ look'.done = FALSE /\ look'.wiped = FALSE
      /\ look'.torn = (\E i \in DOMAIN trace : trace[i].form = "broken")
      /\ look'.bare = {f \in TrialIds : folders[f] = Bare}
      /\ look'.quiet = (writes = <<>>) /\ IsLook(look)'
  BY DEF Asks, NoLook, IsLook
<1>3. reads # <<>>
  <2>1. /\ ValidateReads # <<>> /\ MetricsReads # <<>> /\ TrialsReads # <<>>
        /\ TrialReads(id) # <<>> /\ ReportReads # <<>> /\ AlertReads # <<>>
    BY ChecksRead DEF TrialsReads, TrialReads, ReportReads, AlertReads
  <2> QED
    BY <2>1
<1>4. op \in {"validate", "metrics", "trials", "trial", "report", "alerts"}
  BY DEF Checks
<1>5. op \in Checks => reads \in Seq(ReadPart)
        /\ (\A item \in ToSet(reads) : item.file # "folder")
                       /\ {Read("trace"), Read("folders")} \subseteq ToSet(reads)
  BY ChecksRead DEF Checks
<1>6. Stage'
  BY <1>2, <1>4, <1>5 DEF Stage, Checks, ReadPart, TrialIds
<1>7. LookShaped'
  <2>1. /\ look'.done \in BOOLEAN /\ look'.quiet \in BOOLEAN /\ look'.wiped \in BOOLEAN
        /\ look'.bare \subseteq TrialIds
    BY <1>2
  <2>2. /\ look'.op \in Checks \cup {"none", "trials", "trial", "report", "alerts"}
        /\ look'.op # "none" /\ look'.done = FALSE /\ look'.left # <<>>
    BY <1>2, <1>3, <1>4 DEF Checks
  <2> QED
    BY <1>2, <1>6, <2>1, <2>2 DEF LookShaped, TrialIds, Checks
<1>8. Steady' => Tidy'
  <2>1. Steady' => writes = <<>> /\ died = 0
    BY <1>1, <1>2 DEF Steady
  <2> QED
    BY <1>1, <2>1, IdleIsTidy, TidyStands DEF CampaignSound, FilesStand
<1>9. look'.state.rows = {} /\ RowsOf(look'.state, {"pending"}) = {}
  BY <1>2 DEF NewLedger, RowsOf
<1>10. op = "trial" \/ op = "trials" => Unread("state")'
  <2>1. ASSUME op = "trial" \/ op = "trials"
        PROVE  \E item \in ToSet(reads) : item.file = "state"
    <3>1. reads[1] = Read("state") /\ 1 \in DOMAIN reads
      BY <2>1, <1>4 DEF TrialsReads, TrialReads, Checks
    <3> QED
      BY <3>1 DEF ToSet, Read
  <2> QED
    BY <1>2, <2>1 DEF Unread
<1>11. LookSound'
  <2>1. StateLasts'
    BY <1>9 DEF StateLasts
  <2> QED
    BY <1>2, <1>3, <1>8, <1>9, <1>10, <2>1 DEF LookSound
<1>12. CheckSound'
  <2>1. op \in Checks => Unread("trace")' /\ Unread("folders")'
    BY <1>2, <1>5 DEF Unread, Read
  <2> QED
    BY <1>1, <1>2, <2>1 DEF CheckSound, Unchecked, Whole, Bare, Nothing
<1> QED
  BY <1>7, <1>11, <1>12

-----------------------------------------------------------------------------
(* Checks: the files of validate, health and metrics, one after another.    *)

LEMMA RestOf ==
  ASSUME NEW S, NEW s \in Seq(S), s # <<>>
  PROVE  Tail(s) \in Seq(S) /\ Head(s) \in S /\ ToSet(s) = {Head(s)} \cup ToSet(Tail(s))
<1>1. /\ Tail(s) \in Seq(S) /\ Head(s) = s[1] /\ Len(s) \in Nat \ {0}
      /\ Len(Tail(s)) = Len(s) - 1
      /\ \A i \in 1..(Len(s) - 1) : Tail(s)[i] = s[i + 1]
  BY HeadTailProperties
<1>2. DOMAIN s = 1..Len(s) /\ DOMAIN Tail(s) = 1..(Len(s) - 1) /\ Head(s) \in S
  BY <1>1
<1>3. \A i \in 1..Len(s) : i = 1 \/ (i - 1 \in 1..(Len(s) - 1) /\ (i - 1) + 1 = i)
  BY <1>1
<1>4. \A i \in 1..(Len(s) - 1) : i + 1 \in 1..Len(s)
  BY <1>1
<1>5. ASSUME NEW x \in ToSet(s) PROVE x \in {Head(s)} \cup ToSet(Tail(s))
  <2>1. PICK i \in 1..Len(s) : x = s[i]
    BY <1>2 DEF ToSet
  <2>2. CASE i = 1
    BY <1>1, <2>1, <2>2
  <2>3. CASE i # 1
    <3>1. i - 1 \in DOMAIN Tail(s) /\ Tail(s)[i - 1] = x
      BY <1>1, <1>2, <1>3, <2>1, <2>3
    <3> QED
      BY <3>1 DEF ToSet
  <2> QED
    BY <2>2, <2>3
<1>6. ASSUME NEW x \in ToSet(Tail(s)) PROVE x \in ToSet(s)
  <2>1. PICK i \in 1..(Len(s) - 1) : x = Tail(s)[i]
    BY <1>2 DEF ToSet
  <2>2. i + 1 \in DOMAIN s /\ s[i + 1] = x
    BY <1>1, <1>2, <1>4, <2>1
  <2> QED
    BY <2>2 DEF ToSet
<1>7. Head(s) \in ToSet(s)
  <2>1. 1 \in DOMAIN s /\ s[1] = Head(s)
    BY <1>1, <1>2
  <2> QED
    BY <2>1 DEF ToSet
<1> QED
  BY <1>1, <1>2, <1>5, <1>6, <1>7

LEMMA TrialsToRead ==
  ASSUME NEW S, NEW s \in Seq(S), NEW ids, ids # {} => ReadFolders(ids) \in S
  PROVE  /\ WithTrials(ids, s) \in Seq(S)
         /\ ToSet(WithTrials(ids, s)) = (IF ids = {} THEN {} ELSE {ReadFolders(ids)})
              \cup ToSet(s)
<1>1. CASE ids = {}
  BY <1>1 DEF WithTrials
<1>2. CASE ids # {}
  <2>1. PICK item \in S : item = ReadFolders(ids)
    BY <1>2
  <2>2. <<item>> \in Seq(S) /\ Len(<<item>>) = 1 /\ <<item>>[1] = item
    BY <2>1
  <2>3. PICK all : all = <<item>> \o s
    OBVIOUS
  <2>4. /\ all \in Seq(S) /\ Len(all) = 1 + Len(s) /\ Len(s) \in Nat
        /\ \A i \in 1..(1 + Len(s)) : all[i] = IF i <= 1 THEN <<item>>[i] ELSE s[i - 1]
    BY <2>2, <2>3, ConcatProperties
  <2>5. /\ DOMAIN all = 1..(1 + Len(s)) /\ DOMAIN s = 1..Len(s) /\ all[1] = item
        /\ \A i \in 1..Len(s) : i + 1 \in DOMAIN all /\ all[i + 1] = s[i]
        /\ \A i \in DOMAIN all : i = 1 \/ (i - 1 \in DOMAIN s /\ all[i] = s[i - 1])
    BY <2>2, <2>4
  <2>6. 1 \in DOMAIN all
    BY <2>4, <2>5
  <2>7. ToSet(all) = {item} \cup ToSet(s)
    <3>1. ASSUME NEW i \in DOMAIN all PROVE all[i] \in {item} \cup ToSet(s)
      BY <2>5 DEF ToSet
    <3>2. \A i \in DOMAIN s : s[i] \in ToSet(all)
      BY <2>5 DEF ToSet
    <3>3. item \in ToSet(all)
      BY <2>5, <2>6 DEF ToSet
    <3> QED
      BY <3>1, <3>2, <3>3 DEF ToSet
  <2> QED
    BY <1>2, <2>1, <2>3, <2>4, <2>7 DEF WithTrials
<1> QED
  BY <1>1, <1>2

LEMMA StateIsSound ==
  ASSUME LedgerSound
  PROVE  ~StateErrors(ledger)
<1> DEFINE rows == ledger.rows
           ids == IdsOf(rows)
           Id == [r \in rows |-> r.id]
<1>1. /\ IsFiniteSet(rows) /\ ledger.best = BestId(rows)
      /\ \A r \in rows : r.id < ledger.next /\ \A q \in rows : r.id = q.id => r = q
      /\ \A r \in rows : r.id \in Nat
      /\ ledger.next \in Nat
  <2>1. ledger.best = BestId(rows)
    BY DEF LedgerSound
  <2>2. \A r \in rows : r.id \in Nat
    BY Dealt, TrialRows DEF TrialIds
  <2>3. ledger.next \in Nat
    BY Dealt DEF LedgerSound
  <2> QED
    BY <2>1, <2>2, <2>3 DEF LedgerSound
<1>2. Cardinality(rows) = Cardinality(ids)
  <2>1. Id \in Bijection(rows, ids)
    BY <1>1 DEF Bijection, Injection, Surjection, IsInjective, IdsOf
  <2>2. ExistsBijection(rows, ids)
    BY <2>1 DEF ExistsBijection
  <2> QED
    BY <1>1, <2>2, FS_Bijection
<1>3. ~\E id \in ids : id >= ledger.next
  BY <1>1 DEF IdsOf
<1>4. ledger.best \subseteq IdsOf(RowsOf(ledger, {"ok"}))
  BY <1>1 DEF BestId, IdsOf, RowsOf
<1> QED
  BY <1>1, <1>2, <1>3, <1>4 DEF StateErrors

\* The state that was read, or that is read now, lasts.
LEMMA StateHolds ==
  ASSUME InspectionInv, UNCHANGED campaignVars, look'.state \in {look.state, ledger},
         look'.wiped = look.wiped
  PROVE  StateLasts'
<1>1. /\ ledger' = ledger /\ dealt' = dealt /\ LookSound /\ LedgerSound
  BY DEF InspectionInv, campaignVars, CampaignSound, DataSound
<1>2. CASE look'.state = look.state
  BY <1>1, <1>2 DEF LookSound, StateLasts, TrialRow, TrialIds
<1>3. CASE look'.state = ledger
  <2>1. ledger.rows \subseteq TrialRow'
    BY <1>1, Dealt DEF TrialRow, TrialIds
  <2> QED
    BY <1>1, <1>3, <2>1 DEF StateLasts
<1> QED
  BY <1>2, <1>3

\* A check goes on to the next file, with what it found.
LEMMA CheckGoesOn ==
  ASSUME InspectionInv, look.op \in Checks, UNCHANGED campaignVars,
         IsLook(look)', look'.op = look.op, look'.views = look.views,
         look'.report = look.report, look'.torn = look.torn, look'.bare = look.bare,
         look'.quiet = look.quiet, look'.wiped = look.wiped,
         look'.state \in {look.state, ledger},
         look'.left \in Seq(ReadPart), look'.done = (look'.left = <<>>),
         \A item \in ToSet(look'.left) : item.file = "folder" => item.ids # {},
         NEW raised, look'.alarms = look.alarms \cup raised,
         raised \subseteq {"broken_line", "no_manifest"},
         "broken_line" \in raised => ~Whole(trace),
         "no_manifest" \in raised => \E id \in TrialIds : folders[id] = Bare,
         ~Whole(trace) /\ Unread("trace") => Unread("trace")' \/ "broken_line" \in raised,
         \A id \in TrialIds :
           folders[id] = Bare /\ Unchecked(id) => Unchecked(id)' \/ raised # {}
  PROVE  LookShaped' /\ LookSound' /\ CheckSound'
<1>1. /\ ledger' = ledger /\ folders' = folders /\ trace' = trace /\ reports' = reports
      /\ dealt' = dealt /\ discarded' = discarded /\ died' = died /\ LookShaped /\ LookSound
      /\ CheckSound /\ CampaignSound /\ LedgerSound
  BY DEF InspectionInv, campaignVars, CampaignSound, DataSound
<1>2. look.op \in {"validate", "metrics"} /\ look'.op \in Checks
  BY DEF Checks
<1>3. LookShaped'
  <2>1. look.views = {}
    BY <1>1, <1>2 DEF LookShaped, Stage
  <2>2. Stage'
    BY <1>1, <1>2, <2>1 DEF Stage, ReadPart, TrialIds
  <2>3. look'.done \in BOOLEAN /\ look'.quiet \in BOOLEAN /\ look'.wiped \in BOOLEAN
        /\ look'.bare \subseteq TrialIds
    BY <1>1 DEF LookShaped
  <2>4. look'.op \in Checks \cup {"none", "trials", "trial", "report", "alerts"}
        /\ look'.op # "none"
    BY <1>2
  <2> QED
    BY <2>2, <2>3, <2>4 DEF LookShaped, TrialIds, Checks
<1>4. StateLasts'
  BY StateHolds
<1>5. Steady' => Tidy'
  <2>1. Steady' => Steady
    BY <1>1 DEF Steady
  <2> QED
    BY <1>1, <2>1, TidyStands DEF LookSound, FilesStand
<1>6. LookSound'
  <2>1. look'.views = {} /\ look'.report \subseteq Reported' \cup discarded'
    BY <1>1, <1>2 DEF LookShaped, Stage, LookSound, Reported
  <2> QED
    BY <1>2, <1>4, <1>5, <2>1 DEF LookSound
<1>7. CheckSound'
  <2>1. /\ look'.alarms \subseteq {"broken_line", "no_manifest"}
        /\ Whole(trace)' = Whole(trace)
        /\ (\E i \in DOMAIN trace : trace[i].form = "broken") => ~Whole(trace)
        /\ ~Whole(trace) /\ (Unread("trace") \/ "broken_line" \in look.alarms) =>
             Unread("trace")' \/ "broken_line" \in look'.alarms
        /\ \A id \in TrialIds : folders[id] = Bare /\ (Unchecked(id) \/ look.alarms # {}) =>
             Unchecked(id)' \/ look'.alarms # {}
    BY <1>1 DEF CheckSound, Whole
  <2>2. look.quiet =>
          /\ "broken_line" \in look.alarms => ~Whole(trace)
          /\ "no_manifest" \in look.alarms => \E id \in TrialIds : folders[id] = Bare
          /\ ~Whole(trace) => Unread("trace") \/ "broken_line" \in look.alarms
          /\ \A id \in TrialIds : folders[id] = Bare => Unchecked(id) \/ look.alarms # {}
    BY <1>1 DEF CheckSound
  <2>3. look'.quiet =>
          /\ "broken_line" \in look'.alarms => ~Whole(trace)
          /\ "no_manifest" \in look'.alarms => \E id \in TrialIds : folders[id] = Bare
          /\ ~Whole(trace) => Unread("trace")' \/ "broken_line" \in look'.alarms
          /\ \A id \in TrialIds : folders[id] = Bare => Unchecked(id)' \/ look'.alarms # {}
    BY <2>1, <2>2
  <2>4. ~look'.wiped /\ look'.torn =>
          /\ \E i \in DOMAIN trace : trace[i].form = "broken"
          /\ Unread("trace")' \/ "broken_line" \in look'.alarms
    BY <1>1, <2>1 DEF CheckSound
  <2>5. ~look'.wiped => \A id \in look'.bare :
          /\ folders[id] # Nothing
          /\ folders[id] = Bare => Unchecked(id)' \/ look'.alarms # {}
    <3>1. look.bare \subseteq TrialIds
      BY <1>1 DEF LookShaped
    <3> QED
      BY <1>1, <2>1, <3>1 DEF CheckSound
  <2> QED
    BY <1>1, <2>1, <2>3, <2>4, <2>5 DEF CheckSound, TrialIds
<1> QED
  BY <1>3, <1>6, <1>7

LEMMA OnwardIs ==
  ASSUME NEW rest, IsLook(rest), NEW left, NEW raised, Onward(rest, left, raised)
  PROVE  /\ IsLook(look)' /\ look'.op = rest.op /\ look'.id = rest.id /\ look'.left = left
         /\ look'.state = rest.state /\ look'.views = rest.views
         /\ look'.decision = rest.decision /\ look'.report = rest.report
         /\ look'.alarms = rest.alarms \cup raised /\ look'.warnings = rest.warnings
         /\ look'.done = (left = <<>>) /\ look'.torn = rest.torn /\ look'.bare = rest.bare
         /\ look'.quiet = rest.quiet /\ look'.wiped = rest.wiped
BY DEF Onward, IsLook

LEMMA RaisesIs ==
  ASSUME IsLook(look), NEW alarm, Raises(alarm)
  PROVE  /\ IsLook(look)' /\ look'.op = look.op /\ look'.id = look.id /\ look'.left = <<>>
         /\ look'.state = look.state /\ look'.views = look.views
         /\ look'.decision = look.decision /\ look'.report = look.report
         /\ look'.alarms = {alarm} /\ look'.warnings = look.warnings
         /\ look'.done = TRUE /\ look'.torn = look.torn /\ look'.bare = look.bare
         /\ look'.quiet = look.quiet /\ look'.wiped = look.wiped
BY DEF Raises, IsLook

\* What a file changes of the look when nothing else but its answer does.
Follows(l) ==
  /\ IsLook(l) /\ l.op = look.op /\ l.id = look.id /\ l.left = look.left
  /\ l.alarms = look.alarms /\ l.torn = look.torn /\ l.bare = look.bare
  /\ l.quiet = look.quiet /\ l.wiped = look.wiped

LEMMA CheckStep ==
  ASSUME InspectionInv, look.op \in Checks, UNCHANGED campaignVars,
         \/ ReadState \/ ReadTrace \/ ReadLatency \/ ReadPresence \/ ReadStatuses
         \/ ReadAvailable \/ ReadReport
  PROVE  LookShaped' /\ LookSound' /\ CheckSound'
<1>1. /\ IsLook(look) /\ look.left \in Seq(ReadPart) /\ look.left # <<>>
      /\ \A item \in ToSet(look.left) : item.file = "folder" => item.ids # {}
      /\ LedgerSound
  BY DEF InspectionInv, LookShaped, Stage, CampaignSound, DataSound, ReadState, ReadTrace,
         ReadLatency, ReadPresence, ReadStatuses, ReadAvailable, ReadReport, Reading
<1>2. PICK head : head = Head(look.left)
  OBVIOUS
<1>3. /\ head \in ReadPart /\ Tail(look.left) \in Seq(ReadPart)
      /\ ToSet(look.left) = {head} \cup ToSet(Tail(look.left))
  BY <1>1, <1>2, RestOf
<1>4. /\ head.file \in {"state", "trace", "folders", "folder", "presence", "statuses",
           "latency"}
      /\ \A item \in ToSet(Tail(look.left)) : item.file = "folder" => item.ids # {}
  BY <1>1, <1>3 DEF ReadPart
<1>5. ASSUME head.file \in {"state", "trace", "presence", "statuses", "latency"},
             NEW rest, Follows(rest), rest.views = look.views, rest.report = look.report,
             rest.state \in {look.state, ledger}, NEW raised, Further(rest, raised),
             raised \subseteq {"broken_line"}, raised # {} => ~Whole(trace),
             head.file = "trace" /\ ~Whole(trace) => "broken_line" \in raised
      PROVE  LookShaped' /\ LookSound' /\ CheckSound'
  <2>1. Onward(rest, Tail(look.left), raised)
    BY <1>5 DEF Further
  <2>2. /\ IsLook(look)' /\ look'.op = rest.op /\ look'.left = Tail(look.left)
        /\ look'.state = rest.state /\ look'.views = rest.views /\ look'.report = rest.report
        /\ look'.alarms = rest.alarms \cup raised
        /\ look'.done = (Tail(look.left) = <<>>) /\ look'.torn = rest.torn
        /\ look'.bare = rest.bare /\ look'.quiet = rest.quiet /\ look'.wiped = rest.wiped
    <3>1. IsLook(rest)
      BY <1>5 DEF Follows
    <3> QED
      BY ZenonT(30), <2>1, <3>1, OnwardIs
  <2>3. ~Whole(trace) /\ Unread("trace") => Unread("trace")' \/ "broken_line" \in raised
    BY <1>3, <1>5, <2>2 DEF Unread
  <2>4. \A id : Unchecked(id) => Unchecked(id)'
    BY <1>3, <1>5, <2>2 DEF Unchecked, Unread
  <2>5. /\ raised \subseteq {"broken_line", "no_manifest"}
        /\ "broken_line" \in raised => ~Whole(trace)
        /\ "no_manifest" \in raised => \E id \in TrialIds : folders[id] = Bare
        /\ \A id \in TrialIds : folders[id] = Bare /\ Unchecked(id) => Unchecked(id)'
             \/ raised # {}
    BY <1>5, <2>4
  <2>6. /\ look'.op = look.op /\ look'.views = look.views
        /\ look'.report = look.report /\ look'.torn = look.torn /\ look'.bare = look.bare
        /\ look'.quiet = look.quiet /\ look'.wiped = look.wiped
        /\ look'.state \in {look.state, ledger} /\ look'.alarms = look.alarms \cup raised
    BY <1>5, <2>2 DEF Follows
  <2>7. /\ look'.left \in Seq(ReadPart) /\ look'.done = (look'.left = <<>>)
        /\ \A item \in ToSet(look'.left) : item.file = "folder" => item.ids # {}
    BY <1>3, <1>4, <2>2
  <2> QED
    BY <2>2, <2>3, <2>5, <2>6, <2>7, CheckGoesOn
<1>6. Follows(look)
  BY <1>1 DEF Follows
<1>7. CASE ReadState
  <2>1. ~StateErrors(ledger)
    BY <1>1, StateIsSound
  <2>2. PICK rest : rest = [look EXCEPT !.state = ledger]
    OBVIOUS
  <2>3. head.file = "state" /\ Further(rest, {})
    BY <1>2, <1>7, <2>1, <2>2 DEF ReadState, Reading, Alarm
  <2>4. Follows(rest) /\ rest.state = ledger /\ rest.views = look.views
        /\ rest.report = look.report
    BY <1>1, <2>2 DEF IsLook, Follows
  <2> QED
    BY <1>5, <2>3, <2>4
<1>8. CASE ReadTrace
  <2>1. head.file = "trace" /\ Further(look, Alarm("broken_line", ~Whole(trace)))
    BY <1>2, <1>8 DEF ReadTrace, Reading
  <2>2. PICK raised : raised = Alarm("broken_line", ~Whole(trace))
    OBVIOUS
  <2>3. /\ Further(look, raised) /\ raised \subseteq {"broken_line"}
        /\ raised # {} => ~Whole(trace)
        /\ ~Whole(trace) => "broken_line" \in raised
    BY <2>1, <2>2 DEF Alarm
  <2> QED
    BY <1>5, <1>6, <2>1, <2>3
<1>9. CASE ReadLatency
  <2>1. head.file = "latency"
        /\ Further(look, Alarm("broken_line", look.alarms = {} /\ ~Whole(trace)))
    BY <1>2, <1>9 DEF ReadLatency, Reading
  <2>2. PICK raised : raised = Alarm("broken_line", look.alarms = {} /\ ~Whole(trace))
    OBVIOUS
  <2>3. /\ Further(look, raised) /\ raised \subseteq {"broken_line"}
        /\ raised # {} => ~Whole(trace)
    BY <2>1, <2>2 DEF Alarm
  <2> QED
    BY <1>5, <1>6, <2>1, <2>3
<1>10. CASE ReadPresence
  <2>1. PICK warnings : warnings = look.warnings \cup
          Alarm("missing", trace = <<>> \/ FoldersLeft = {})
    OBVIOUS
  <2>2. PICK rest : rest = [look EXCEPT !.warnings = warnings]
    OBVIOUS
  <2>3. head.file = "presence" /\ Further(rest, {})
    BY <1>2, <1>10, <2>1, <2>2 DEF ReadPresence, Reading, Further, Onward
  <2>4. Follows(rest) /\ rest.state = look.state /\ rest.views = look.views
        /\ rest.report = look.report
    BY <1>1, <2>2 DEF IsLook, Follows
  <2> QED
    BY <1>5, <2>3, <2>4
<1>11. CASE ReadStatuses
  <2>1. PICK warnings : warnings = look.warnings \cup
          Alarm("status", ~({r.status : r \in RowsOf(look.state, Ended)} \subseteq Allowed))
    OBVIOUS
  <2>2. PICK rest : rest = [look EXCEPT !.warnings = warnings]
    OBVIOUS
  <2>3. head.file = "statuses" /\ Further(rest, {})
    BY <1>2, <1>11, <2>1, <2>2 DEF ReadStatuses, Reading, Further, Onward
  <2>4. Follows(rest) /\ rest.state = look.state /\ rest.views = look.views
        /\ rest.report = look.report
    BY <1>1, <2>2 DEF IsLook, Follows
  <2> QED
    BY <1>5, <2>3, <2>4
<1>12. ~ReadAvailable /\ ~ReadReport
  BY <1>2, <1>4 DEF ReadAvailable, ReadReport, Reading
<1> QED
  BY <1>7, <1>8, <1>9, <1>10, <1>11, <1>12

\* The trial that is read next is one of those that are to be read.
LEMMA TurnIsTaken ==
  ASSUME Head(look.left).ids \subseteq TrialIds, Head(look.left).ids # {}
  PROVE  Turn \in Head(look.left).ids
<1>1. PICK ids : ids = Head(look.left).ids
  OBVIOUS
<1>2. ids \in SUBSET (0..MaxDeals) /\ ids \in SUBSET Nat /\ ids # {} /\ MaxDeals \in Nat
  BY <1>1, LookAssumption DEF TrialIds
<1>3. PICK least \in ids : \A other \in ids : least <= other
  BY <1>2, LeastOfNaturals
<1>4. PICK greatest \in ids : \A other \in ids : other <= greatest
  BY <1>2, GreatestOfNaturals
<1>5. \A other \in ids : greatest >= other
  BY <1>2, <1>4
<1>6. \E id \in ids : \A other \in ids :
        IF look.op \in Checks THEN id <= other ELSE id >= other
  BY <1>3, <1>5
<1> QED
  BY <1>1, <1>6 DEF Turn

LEMMA CheckLists ==
  ASSUME InspectionInv, look.op \in Checks, UNCHANGED campaignVars, ListFolders \/ CheckFolder
  PROVE  LookShaped' /\ LookSound' /\ CheckSound'
<1>1. /\ IsLook(look) /\ look.left \in Seq(ReadPart) /\ look.left # <<>>
      /\ \A item \in ToSet(look.left) : item.file = "folder" => item.ids # {}
  BY DEF InspectionInv, LookShaped, Stage, ListFolders, CheckFolder, Reading
<1>2. PICK head : head = Head(look.left)
  OBVIOUS
<1>3. /\ head \in ReadPart /\ Tail(look.left) \in Seq(ReadPart)
      /\ ToSet(look.left) = {head} \cup ToSet(Tail(look.left))
  BY <1>1, <1>2, RestOf
<1>4. /\ \A item \in ToSet(Tail(look.left)) : item.file = "folder" => item.ids # {}
      /\ head.ids \subseteq TrialIds /\ (head.file = "folder" => head.ids # {})
  BY <1>1, <1>3 DEF ReadPart
<1>5. ASSUME NEW ids \in SUBSET TrialIds, NEW raised,
             Onward(look, WithTrials(ids, Tail(look.left)), raised),
             raised \subseteq {"no_manifest"},
             raised # {} => \E id \in TrialIds : folders[id] = Bare,
             head.file \in {"folders", "folder"},
             \A id \in TrialIds : folders[id] = Bare
               /\ (head.file = "folders" \/ id \in head.ids)
               => id \in ids \/ raised # {}
      PROVE  LookShaped' /\ LookSound' /\ CheckSound'
  <2>1. /\ IsLook(look)' /\ look'.op = look.op
        /\ look'.left = WithTrials(ids, Tail(look.left))
        /\ look'.state = look.state /\ look'.views = look.views /\ look'.report = look.report
        /\ look'.alarms = look.alarms \cup raised
        /\ look'.done = (look'.left = <<>>) /\ look'.torn = look.torn
        /\ look'.bare = look.bare /\ look'.quiet = look.quiet /\ look'.wiped = look.wiped
    BY <1>1, <1>5, OnwardIs
  <2>2. ReadFolders(ids) \in ReadPart /\ ReadFolders(ids).file = "folder"
        /\ ReadFolders(ids).ids = ids
    BY DEF ReadFolders, ReadPart
  <2>3. /\ look'.left \in Seq(ReadPart)
        /\ ToSet(look'.left) = (IF ids = {} THEN {} ELSE {ReadFolders(ids)})
                                  \cup ToSet(Tail(look.left))
    <3>1. PICK rest \in Seq(ReadPart) : rest = Tail(look.left)
      BY <1>3
    <3>2. /\ WithTrials(ids, rest) \in Seq(ReadPart)
          /\ ToSet(WithTrials(ids, rest)) =
               (IF ids = {} THEN {} ELSE {ReadFolders(ids)}) \cup ToSet(rest)
      BY <2>2, <3>1, TrialsToRead
    <3> QED
      BY <2>1, <3>1, <3>2
  <2>4. \A item \in ToSet(look'.left) : item.file = "folder" => item.ids # {}
    BY <1>4, <2>2, <2>3
  <2>5. Unread("trace") => Unread("trace")'
    BY <1>3, <1>5, <2>3 DEF Unread
  <2>6. ASSUME NEW id \in TrialIds, folders[id] = Bare, Unchecked(id)
        PROVE  Unchecked(id)' \/ raised # {}
    <3>1. CASE id \in ids
      BY <2>2, <2>3, <3>1 DEF Unchecked
    <3>2. CASE id \notin ids /\ raised = {}
      <4>1. head.file = "folder" /\ id \notin head.ids
        BY <1>5, <2>6, <3>2
      <4>2. \E item \in ToSet(Tail(look.left)) :
              item.file = "folders" \/ (item.file = "folder" /\ id \in item.ids)
        BY <1>3, <2>6, <4>1 DEF Unchecked, Unread
      <4> QED
        BY <2>3, <4>2 DEF Unchecked, Unread
    <3> QED
      BY <3>1, <3>2
  <2>7. /\ raised \subseteq {"broken_line", "no_manifest"}
        /\ "broken_line" \in raised => ~Whole(trace)
        /\ "no_manifest" \in raised => \E id \in TrialIds : folders[id] = Bare
        /\ ~Whole(trace) /\ Unread("trace") => Unread("trace")' \/ "broken_line" \in raised
        /\ \A id \in TrialIds : folders[id] = Bare /\ Unchecked(id) => Unchecked(id)'
             \/ raised # {}
        /\ look'.state \in {look.state, ledger}
    BY <1>5, <2>1, <2>5, <2>6
  <2> QED
    BY <2>1, <2>3, <2>4, <2>7, CheckGoesOn
<1>6. CASE ListFolders
  <2>1. head.file = "folders" /\ Onward(look, WithTrials(Listed, Tail(look.left)), {})
    BY <1>2, <1>6 DEF ListFolders, Reading
  <2>2. Listed = {id \in TrialIds : folders[id] # Nothing}
    BY DEF Listed
  <2>3. Bare # Nothing
    BY DEF Bare, Nothing
  <2> QED
    BY <1>5, <2>1, <2>2, <2>3
<1>7. CASE CheckFolder
  <2>1. PICK raised : raised = Alarm("no_manifest", folders[Turn] = Bare)
    OBVIOUS
  <2>2. /\ head.file = "folder"
        /\ Onward(look, WithTrials(head.ids \ {Turn}, Tail(look.left)), raised)
    BY <1>2, <1>7, <2>1 DEF CheckFolder, Reading, Others, Onward
  <2>3. Turn \in head.ids
    BY <1>2, <1>4, <2>2, TurnIsTaken
  <2>4. /\ raised \subseteq {"no_manifest"} /\ (raised # {} <=> folders[Turn] = Bare)
        /\ head.ids \ {Turn} \in SUBSET TrialIds /\ Turn \in TrialIds
    BY <1>4, <2>1, <2>3 DEF Alarm
  <2> QED
    BY <1>5, <2>2, <2>3, <2>4
<1> QED
  BY <1>6, <1>7

-----------------------------------------------------------------------------
(* The reads of the service.                                                *)

\* The order in which the files of a look are opened.
LEMMA FilesInOrder ==
  /\ \A name : Read(name).file = name
  /\ \A ids : ReadFolders(ids).file = "folder" /\ ReadFolders(ids).ids = ids
  /\ \A a : Head(<<a>>) = a /\ Tail(<<a>>) = <<>> /\ <<a>> # <<>>
  /\ Head(TrialsReads) = Read("state") /\ Tail(TrialsReads) = <<Read("folders")>>
  /\ \A id : /\ Head(TrialReads(id)) = Read("state")
             /\ Tail(TrialReads(id)) = <<ReadFolders({id}), Read("trace")>>
             /\ Head(<<ReadFolders({id}), Read("trace")>>) = ReadFolders({id})
             /\ Tail(<<ReadFolders({id}), Read("trace")>>) = <<Read("trace")>>
             /\ <<ReadFolders({id}), Read("trace")>> # <<>>
  /\ Head(AlertReads) = Read("state") /\ Tail(AlertReads) = <<Read("available")>>
  /\ Head(ReportReads) = Read("report") /\ Tail(ReportReads) = <<>>
  /\ \A a : ToSet(<<a>>) = {a}
  /\ \A a, b : ToSet(<<a, b>>) = {a, b}
  /\ ToSet(<<>>) = {}
<1>1. /\ \A a : Head(<<a>>) = a /\ Tail(<<a>>) = <<>> /\ <<a>> # <<>>
      /\ \A a, b : Head(<<a, b>>) = a /\ Tail(<<a, b>>) = <<b>> /\ <<a, b>> # <<>>
      /\ \A a, b, c : Head(<<a, b, c>>) = a /\ Tail(<<a, b, c>>) = <<b, c>>
  OBVIOUS
<1>2. /\ \A a : ToSet(<<a>>) = {a}
      /\ \A a, b : ToSet(<<a, b>>) = {a, b}
      /\ ToSet(<<>>) = {}
  BY DEF ToSet
<1>3. /\ \A name : Read(name).file = name
      /\ \A ids : ReadFolders(ids).file = "folder" /\ ReadFolders(ids).ids = ids
  BY DEF Read, ReadFolders
<1>4. Head(TrialsReads) = Read("state") /\ Tail(TrialsReads) = <<Read("folders")>>
  BY <1>1 DEF TrialsReads
<1>5. \A id : /\ Head(TrialReads(id)) = Read("state")
             /\ Tail(TrialReads(id)) = <<ReadFolders({id}), Read("trace")>>
  BY <1>1 DEF TrialReads
<1>6. Head(AlertReads) = Read("state") /\ Tail(AlertReads) = <<Read("available")>>
  BY <1>1 DEF AlertReads
<1>7. Head(ReportReads) = Read("report") /\ Tail(ReportReads) = <<>>
  BY <1>1 DEF ReportReads
<1> QED
  BY <1>1, <1>2, <1>3, <1>4, <1>5, <1>6, <1>7

LEMMA OtherGoesOn ==
  ASSUME InspectionInv, UNCHANGED campaignVars,
         look.op \in {"trials", "trial", "report", "alerts"}, IsLook(look)',
         look'.op = look.op, look'.id = look.id, look'.bare = look.bare,
         look'.quiet = look.quiet, look'.wiped = look.wiped, look'.done = (look'.left = <<>>),
         look'.state \in {look.state, ledger}, Stage', (\A v \in look.views : ViewOf(v))',
         look.op \in {"trials", "trial"} /\ Steady =>
           /\ ~Unread("state")' => look'.state = ledger
           /\ \A v \in look'.views : v.pending = (v.status = "pending")
           /\ look'.alarms \subseteq (IF look.op = "trial" THEN {"not_found"} ELSE {}),
         look.op = "trial" /\ look'.left = <<>> /\ look'.alarms = {} /\ ~look.wiped =>
           \A v \in look'.views : v.known # Nothing =>
             look'.decision # {} /\ look'.decision \subseteq {v.known.serial} \cup discarded,
         look'.report \subseteq Reported \cup discarded,
         Steady /\ look.op = "report" /\ look'.left = <<>> /\ look'.alarms = {} =>
           look'.report = reports.json.lists,
         look.op = "alerts" /\ ~look.wiped =>
           (look'.left # <<>> => look'.warnings = {})
             /\ (RowsOf(look'.state, {"pending"}) # {} => look'.warnings = {})
  PROVE  LookShaped' /\ LookSound' /\ CheckSound'
<1>1. /\ ledger' = ledger /\ folders' = folders /\ trace' = trace /\ reports' = reports
      /\ discarded' = discarded /\ died' = died /\ LookShaped /\ LookSound
  BY DEF InspectionInv, campaignVars
<1>2. look'.op \notin Checks
  BY DEF Checks
<1>3. LookShaped'
  <2>1. look'.done \in BOOLEAN /\ look'.quiet \in BOOLEAN /\ look'.wiped \in BOOLEAN
        /\ look'.bare \subseteq TrialIds
    BY <1>1 DEF LookShaped
  <2>2. look'.op \in Checks \cup {"none", "trials", "trial", "report", "alerts"}
        /\ look'.op # "none"
    OBVIOUS
  <2> QED
    BY <2>1, <2>2 DEF LookShaped, TrialIds, Checks
<1>4. Steady' = Steady /\ (Steady' => Tidy')
  <2>1. Steady' = Steady
    BY <1>1 DEF Steady
  <2> QED
    BY <1>1, <2>1, TidyStands DEF LookSound, FilesStand
<1>5. StateLasts'
  BY StateHolds
<1>6. Reported' = Reported
  BY <1>1 DEF Reported
<1>7. LookSound'
  BY <1>1, <1>4, <1>5, <1>6 DEF LookSound, RowsOf
<1>8. CheckSound'
  BY <1>2 DEF CheckSound, Checks
<1> QED
  BY <1>3, <1>7, <1>8

\* A command that is to write a pending trial last has taken the next id for it.
LEMMA PromisedIsNext ==
  ASSUME CampaignSound, writes # <<>>, NEW row, row.status = "pending",
         Last(writes) = To("ledger", row)
  PROVE  row.id = ledger.next
<1>1. Last(writes).to = "ledger" /\ Last(writes).row = row
  BY Kinds
<1>2. ASSUME NEW begun \in TrialRow, Making(begun)
      PROVE  row.id = ledger.next
  <2>1. \E names, head, tail : writes = For(begun, names)
          /\ Starts(begun, names, head, tail, "ledger")
    BY <1>2, PlanOf DEF Making
  <2>2. Last(writes) = To("ledger", begun)
    BY <2>1 DEF Starts
  <2>3. row = begun
    BY <1>1, <2>2, Kinds
  <2> QED
    BY <1>2, <2>3 DEF Making
<1>3. ASSUME NEW other \in TrialRow, Logging(other)
      PROVE  FALSE
  <2>1. \E names, head, tail : writes = For(other, names)
          /\ Starts(other, names, head, tail, "end")
    BY <1>3, PlanOf DEF Logging
  <2>2. Last(writes) = To("end", other)
    BY <2>1 DEF Starts
  <2> QED
    BY <1>1, <2>2, Kinds
<1>4. ASSUME NEW other \in TrialRow, Settling(other)
      PROVE  FALSE
  <2>1. \E names, head, tail : writes = For(other, names)
          /\ Starts(other, names, head, tail, "ledger")
    BY <1>4, PlanOf DEF Settling
  <2>2. Last(writes) = To("ledger", other)
    BY <2>1 DEF Starts
  <2>3. row = other
    BY <1>1, <2>2, Kinds
  <2> QED
    BY <1>4, <2>3 DEF Settling, Ended
<1>5. ASSUME ReportMaking PROVE FALSE
  <2>1. \E names, head, tail : writes = For(NoTrial, names)
          /\ Starts(NoTrial, names, head, tail, "md")
    BY <1>5, PlanOf DEF ReportMaking
  <2>2. Last(writes) = To("md", NoTrial)
    BY <2>1 DEF Starts
  <2> QED
    BY <1>1, <2>2, Kinds
<1>6. ASSUME Removing PROVE FALSE
  <2>1. \E names, head, tail : writes = For(NoTrial, names)
          /\ Starts(NoTrial, names, head, tail, "no_folders")
    BY <1>6, PlanOf DEF Removing
  <2>2. Last(writes) = To("no_folders", NoTrial)
    BY <2>1 DEF Starts
  <2> QED
    BY <1>1, <2>2, Kinds
<1> QED
  BY <1>2, <1>3, <1>4, <1>5, <1>6 DEF CampaignSound, Commanded

\* The first line with a trial's id: there is one, and it is of that trial, or of one
\* that was given up.
LEMMA FirstLine ==
  ASSUME CampaignSound, NEW q \in ledger.rows
  PROVE  /\ FirstWith(q.id) \subseteq {q.serial} \cup discarded
         /\ Whole(trace) => FirstWith(q.id) # {}
<1>1. /\ LedgerSound /\ TraceSound /\ trace \in Seq(TraceLine)
      /\ \A i \in DOMAIN trace : Belongs(trace[i])
      /\ InTrace(q) /\ q.id < ledger.next
      /\ \A r \in ledger.rows : r.id = q.id => r = q
  BY DEF CampaignSound, DataSound, TraceSound, LedgerSound
<1>2. DOMAIN trace = 1..Len(trace) /\ Len(trace) \in Nat
  BY <1>1
<1>3. q.id \in Nat /\ ledger.next \in Nat
  <2>1. q \in TrialRow /\ dealt \in Nat
    BY <1>1, Dealt
  <2> QED
    BY <1>1, <2>1, TrialRows DEF TrialIds, LedgerSound
<1>4. ASSUME NEW serial \in FirstWith(q.id) PROVE serial \in {q.serial} \cup discarded
  <2>1. PICK i \in DOMAIN trace : trace[i].id = q.id /\ trace[i].serial = serial
    BY <1>4 DEF FirstWith
  <2>2. PICK line : line = trace[i]
    OBVIOUS
  <2>3. Belongs(line) /\ line.id = q.id /\ line.serial = serial
    BY <1>1, <2>1, <2>2
  <2>4. CASE writes # <<>> /\ Last(writes) =
               To("ledger", [id |-> line.id, serial |-> line.serial, status |-> "pending"])
    <3>1. PICK row : row = [id |-> line.id, serial |-> line.serial, status |-> "pending"]
      OBVIOUS
    <3>2. row.status = "pending" /\ row.id = q.id /\ Last(writes) = To("ledger", row)
      BY <2>3, <2>4, <3>1
    <3>3. row.id = ledger.next
      BY <2>4, <3>2, PromisedIsNext
    <3> QED
      BY <1>1, <1>3, <3>2, <3>3
  <2> QED
    BY <1>1, <2>3, <2>4 DEF Belongs
<1>5. ASSUME Whole(trace) PROVE FirstWith(q.id) # {}
  <2>1. Sane
    BY <1>5 DEF Whole, Sane
  <2> DEFINE Hits == {i \in DOMAIN trace : trace[i].id = q.id}
  <2>2. Hits # {} /\ Hits \in SUBSET Nat
    BY <1>1, <1>2, <2>1 DEF InTrace
  <2>3. PICK i \in Hits : \A j \in Hits : i <= j
    <3> HIDE DEF Hits
    <3> QED
      BY <2>2, LeastOfNaturals
  <2>4. i \in DOMAIN trace /\ trace[i].id = q.id
        /\ \A k \in 1..i - 1 : trace[k].id # q.id
    <3>1. i \in 1..Len(trace) /\ trace[i].id = q.id
      BY <1>2
    <3>2. ASSUME NEW k \in 1..i - 1, trace[k].id = q.id PROVE FALSE
      <4>1. k \in 1..Len(trace) /\ ~(i <= k)
        BY <1>2, <3>1
      <4> QED
        BY <1>2, <2>3, <3>2, <4>1
    <3> QED
      BY <1>2, <3>1, <3>2
  <2> QED
    BY <2>4 DEF FirstWith
<1> QED
  BY <1>4, <1>5

\* What an action that opens a file reads is the file that is next.
LEMMA OpensNext ==
  ASSUME LookOn
  PROVE  /\ look.op # "none" /\ look.left # <<>>
         /\ ReadState => Head(look.left).file = "state"
         /\ ReadTrace => Head(look.left).file = "trace"
         /\ ReadLatency => Head(look.left).file = "latency"
         /\ ListFolders => Head(look.left).file = "folders"
         /\ CheckFolder => look.op \in Checks /\ Head(look.left).file = "folder"
         /\ ShowFolder => look.op \notin Checks /\ Head(look.left).file = "folder"
         /\ ReadPresence => Head(look.left).file = "presence"
         /\ ReadAvailable => Head(look.left).file = "available"
         /\ ReadStatuses => Head(look.left).file = "statuses"
         /\ ReadReport => Head(look.left).file = "report"
BY DEF LookOn, ReadState, ReadTrace, ReadLatency, ListFolders, CheckFolder, ShowFolder,
       ReadPresence, ReadAvailable, ReadStatuses, ReadReport, Reading

\* Asking for the report.
LEMMA ReportLook ==
  ASSUME InspectionInv, LookOn, look.op = "report"
  PROVE  LookShaped' /\ LookSound' /\ CheckSound'
<1>1. /\ UNCHANGED campaignVars /\ IsLook(look) /\ look.left = ReportReads
      /\ look.views = {} /\ LookSound /\ ReportsSound
  BY OpensNext DEF InspectionInv, LookOn, LookShaped, Stage, CampaignSound, DataSound, Checks
<1>2. /\ reports' = reports /\ discarded' = discarded /\ ledger' = ledger
  BY <1>1 DEF campaignVars
<1>3. ReadReport
  <2>1. Head(look.left).file = "report"
    BY <1>1, FilesInOrder
  <2> QED
    BY <2>1, OpensNext DEF LookOn
<1>4. /\ IsLook(look)' /\ look'.op = look.op /\ look'.id = look.id /\ look'.left = <<>>
      /\ look'.state = look.state /\ look'.views = look.views
      /\ look'.done = TRUE /\ look'.bare = look.bare
      /\ look'.quiet = look.quiet /\ look'.wiped = look.wiped
      /\ look'.report \subseteq Reported \cup discarded
      /\ look'.alarms = {} => look'.report = reports.json.lists
  <2>1. CASE reports.json.exists
    <3>1. PICK rest : rest = [look EXCEPT !.report = reports.json.lists]
      OBVIOUS
    <3>2. IsLook(rest) /\ rest.op = look.op /\ rest.id = look.id /\ rest.state = look.state
          /\ rest.views = look.views /\ rest.bare = look.bare /\ rest.quiet = look.quiet
          /\ rest.wiped = look.wiped /\ rest.report = reports.json.lists
      BY <1>1, <3>1 DEF IsLook
    <3>3. Onward(rest, <<>>, {})
      <4>1. Further(rest, {})
        BY <1>3, <2>1, <3>1 DEF ReadReport
      <4>2. Tail(look.left) = <<>>
        BY <1>1, FilesInOrder
      <4> QED
        BY <4>1, <4>2 DEF Further
    <3> QED
      BY ZenonT(30), <1>1, <3>2, <3>3, OnwardIs DEF ReportsSound
  <2>2. CASE ~reports.json.exists
    <3>1. Raises("not_generated")
      BY <1>3, <2>2 DEF ReadReport
    <3> QED
      BY <1>1, <3>1, RaisesIs DEF LookSound
  <2> QED
    BY <2>1, <2>2
<1>5. Stage'
  BY <1>1, <1>4 DEF Stage, Checks
<1> QED
  BY <1>1, <1>4, <1>5, OtherGoesOn

\* The state is read: the look goes on with it.
LEMMA StateIsRead ==
  ASSUME IsLook(look), look.op \notin Checks, ReadState
  PROVE  /\ IsLook(look)' /\ look'.op = look.op /\ look'.id = look.id
         /\ look'.left = Tail(look.left) /\ look'.done = (look'.left = <<>>)
         /\ look'.state = ledger /\ look'.views = look.views /\ look'.alarms = look.alarms
         /\ look'.decision = look.decision /\ look'.report = look.report
         /\ look'.warnings = look.warnings /\ look'.bare = look.bare
         /\ look'.quiet = look.quiet /\ look'.wiped = look.wiped
<1>1. PICK rest : rest = [look EXCEPT !.state = ledger]
  OBVIOUS
<1>2. /\ IsLook(rest) /\ rest.op = look.op /\ rest.id = look.id /\ rest.state = ledger
      /\ rest.views = look.views /\ rest.alarms = look.alarms
      /\ rest.decision = look.decision /\ rest.report = look.report
      /\ rest.warnings = look.warnings /\ rest.bare = look.bare
      /\ rest.quiet = look.quiet /\ rest.wiped = look.wiped
  BY <1>1 DEF IsLook
<1>3. PICK left : left = Tail(look.left)
  OBVIOUS
<1>4. Onward(rest, left, {})
  <2>1. Alarm("state", look.op \in Checks /\ StateErrors(ledger)) = {}
    BY DEF Alarm
  <2> QED
    BY <1>1, <1>3, <2>1 DEF ReadState, Further
<1>5. /\ IsLook(look)' /\ look'.op = rest.op /\ look'.id = rest.id /\ look'.left = left
      /\ look'.state = rest.state /\ look'.views = rest.views
      /\ look'.decision = rest.decision /\ look'.report = rest.report
      /\ look'.alarms = rest.alarms \cup {} /\ look'.warnings = rest.warnings
      /\ look'.done = (left = <<>>) /\ look'.bare = rest.bare
      /\ look'.quiet = rest.quiet /\ look'.wiped = rest.wiped
  <2>1. IsLook(rest)
    BY <1>2
  <2> QED
    BY <1>4, <2>1 DEF Onward, IsLook
<1> QED
  BY <1>2, <1>3, <1>5

\* Asking for the alerts.
LEMMA AlertLook ==
  ASSUME InspectionInv, LookOn, look.op = "alerts"
  PROVE  LookShaped' /\ LookSound' /\ CheckSound'
<1>1. /\ UNCHANGED campaignVars /\ IsLook(look) /\ look.left # <<>>
      /\ look.left \in {AlertReads, <<Read("available")>>}
      /\ look.views = {} /\ LookSound /\ TraceSound
  BY OpensNext DEF InspectionInv, LookOn, LookShaped, Stage, CampaignSound, DataSound, Checks
<1>2. /\ reports' = reports /\ discarded' = discarded /\ ledger' = ledger /\ trace' = trace
  BY <1>1 DEF campaignVars
<1>3. look.op \notin Checks
  BY DEF Checks
<1>4. CASE look.left = AlertReads
  <2>1. ReadState /\ Tail(look.left) = <<Read("available")>> /\ <<Read("available")>> # <<>>
    <3>1. Head(look.left).file = "state"
      BY <1>4, FilesInOrder
    <3> QED
      BY <1>4, <3>1, OpensNext, FilesInOrder DEF LookOn
  <2>2. /\ IsLook(look)' /\ look'.op = look.op /\ look'.id = look.id
        /\ look'.left = <<Read("available")>> /\ look'.done = (look'.left = <<>>)
        /\ look'.state = ledger /\ look'.views = look.views /\ look'.report = look.report
        /\ look'.warnings = look.warnings /\ look'.bare = look.bare
        /\ look'.quiet = look.quiet /\ look'.wiped = look.wiped
    BY <1>1, <1>3, <2>1, StateIsRead
  <2>3. Stage'
    BY <1>1, <2>2 DEF Stage, Checks
  <2>4. ~look.wiped => look'.warnings = {}
    BY <1>1, <2>2 DEF LookSound
  <2> QED
    BY <1>1, <2>2, <2>3, <2>4, OtherGoesOn DEF LookSound
<1>5. CASE look.left = <<Read("available")>>
  <2>1. ReadAvailable /\ Tail(look.left) = <<>>
    <3>1. Head(look.left).file = "available"
      BY <1>5, FilesInOrder
    <3> QED
      BY <1>5, <3>1, OpensNext, FilesInOrder DEF LookOn
  <2>2. PICK warnings : warnings = Alarm("no_trace", trace = <<>>)
    OBVIOUS
  <2>3. PICK rest : rest = [look EXCEPT !.warnings = warnings]
    OBVIOUS
  <2>4. IsLook(rest) /\ rest.op = look.op /\ rest.id = look.id /\ rest.state = look.state
        /\ rest.views = look.views /\ rest.bare = look.bare /\ rest.quiet = look.quiet
        /\ rest.wiped = look.wiped /\ rest.report = look.report /\ rest.warnings = warnings
    BY <1>1, <2>3 DEF IsLook
  <2>5. Onward(rest, <<>>, {})
    BY <2>1, <2>2, <2>3 DEF ReadAvailable, Further, Onward
  <2>6. /\ IsLook(look)' /\ look'.op = look.op /\ look'.id = look.id /\ look'.left = <<>>
        /\ look'.done = (look'.left = <<>>)
        /\ look'.state = look.state /\ look'.views = look.views /\ look'.report = look.report
        /\ look'.warnings = warnings /\ look'.bare = look.bare
        /\ look'.quiet = look.quiet /\ look'.wiped = look.wiped
    BY <2>4, <2>5, OnwardIs
  <2>7. Stage'
    BY <1>1, <2>6 DEF Stage, Checks
  <2>8. ASSUME ~look.wiped, RowsOf(look.state, {"pending"}) # {} PROVE warnings = {}
    <3>1. PICK r \in look.state.rows : TRUE
      BY <2>8 DEF RowsOf
    <3>2. PICK q \in ledger.rows : q.id = r.id
      BY <1>1, <2>8 DEF LookSound, StateLasts
    <3>3. trace # <<>>
      BY <1>1, <3>2 DEF TraceSound, InTrace
    <3> QED
      BY <2>2, <3>3 DEF Alarm
  <2> QED
    BY <1>1, <2>6, <2>7, <2>8, OtherGoesOn DEF LookSound
<1> QED
  BY <1>1, <1>4, <1>5

\* What is shown of a trial, and when the trial is not found.
LEMMA TrialIsShown ==
  ASSUME InspectionInv, look.op \in {"trials", "trial"}, ShowFolder,
         Head(look.left).ids \subseteq TrialIds, Head(look.left).ids # {},
         look.op = "trial" => Turn = look.id
  PROVE  \/ RowFor(look.state, Turn) = {} /\ Raises("not_found")
         \/ \E v : /\ ViewOf(v)
                   /\ Steady /\ look.state = ledger => v.pending = (v.status = "pending")
                   /\ Onward([look EXCEPT !.views = @ \cup {v}], Others, {})
<1>1. /\ LookSound /\ LedgerSound /\ FoldersSound /\ dealt \in Nat
      /\ ledger.rows \subseteq TrialRow /\ look.state.rows \subseteq TrialRow
  BY Dealt DEF InspectionInv, CampaignSound, DataSound, LookSound, StateLasts
<1>2. PICK id \in TrialIds : id = Turn
  BY TurnIsTaken
<1>3. PICK entry : entry = folders[id]
  OBVIOUS
<1>4. PICK rows : rows = RowFor(look.state, id)
  OBVIOUS
<1>5. PICK known : known = IF rows = {} THEN Nothing
                          ELSE LET r == CHOOSE x \in rows : TRUE
                               IN [serial |-> r.serial, status |-> r.status]
  OBVIOUS
<1>6. IF rows = {} /\ entry.serial = 0
        THEN Raises("not_found")
        ELSE Onward([look EXCEPT !.views = @ \cup {View(id, entry, known)}], Others, {})
  BY <1>2, <1>3, <1>4, <1>5 DEF ShowFolder
<1>7. PICK v : v = View(id, entry, known)
  OBVIOUS
<1>8. /\ v.id = id /\ v.known = known /\ v.pending = (known.status = "pending")
      /\ v.serial = (IF entry.serial # 0 THEN entry.serial ELSE known.serial)
      /\ v.status = (IF entry.serial # 0 THEN entry.status ELSE known.status)
  BY <1>7 DEF View
<1>9. \A q \in ledger.rows : q.serial # 0
  BY <1>1, TrialRows
<1>10. Steady => Entered(id)
  BY <1>1 DEF LookSound, Tidy, AllEntered
<1>11. CASE rows = {}
  <2>1. known = Nothing
    BY <1>5, <1>11
  <2>2. ViewOf(v)
    BY <1>2, <1>8, <2>1 DEF ViewOf
  <2>3. ASSUME Steady, look.state = ledger, entry.serial # 0 PROVE FALSE
    <3>1. PICK r \in ledger.rows : r.id = id
      BY <1>3, <1>10, <2>3 DEF Entered, Nothing
    <3> QED
      BY <1>4, <1>11, <2>3, <3>1 DEF RowFor
  <2> QED
    BY <1>2, <1>4, <1>6, <1>7, <1>11, <2>2, <2>3
<1>12. CASE rows # {}
  <2>1. PICK r : r = CHOOSE x \in rows : TRUE
    OBVIOUS
  <2>2. r \in look.state.rows /\ r.id = id /\ r \in TrialRow
    BY <1>1, <1>4, <1>12, <2>1 DEF RowFor
  <2>3. known = [serial |-> r.serial, status |-> r.status]
    BY <1>5, <1>12, <2>1
  <2>4. ASSUME ~look.wiped
        PROVE  v.serial = known.serial /\ (known.status \in Ended => v.status = known.status)
    <3>1. PICK q \in ledger.rows :
            q.id = r.id /\ q.serial = r.serial /\ (r.status \in Ended => q.status = r.status)
      BY <1>1, <2>2, <2>4 DEF LookSound, StateLasts
    <3>2. /\ entry.serial = q.serial
          /\ entry.status = q.status \/ (q.status = "pending" /\ entry.status \in Ended)
      BY <1>1, <1>3, <2>2, <3>1 DEF FoldersSound
    <3> QED
      BY <1>8, <1>9, <2>3, <3>1, <3>2 DEF Ended
  <2>5. ViewOf(v)
    BY <1>2, <1>8, <2>2, <2>3, <2>4 DEF ViewOf
  <2>6. ASSUME Steady, look.state = ledger PROVE v.pending = (v.status = "pending")
    <3>1. r \in ledger.rows /\ entry.serial = r.serial /\ r.serial # 0
      BY <1>1, <1>3, <1>9, <2>2, <2>6 DEF FoldersSound
    <3>2. PICK q \in ledger.rows : q.id = id /\ InFolder(q)
      BY <1>3, <1>10, <2>6, <3>1 DEF Entered, Nothing
    <3>3. q = r
      BY <1>1, <2>2, <3>1, <3>2 DEF LedgerSound
    <3>4. entry = [serial |-> r.serial, status |-> r.status]
      BY <1>3, <2>2, <3>2, <3>3 DEF InFolder
    <3> QED
      BY <1>8, <2>3, <3>1, <3>4
  <2> QED
    BY <1>6, <1>7, <1>12, <2>5, <2>6
<1> QED
  BY <1>11, <1>12

\* A view that is added to the look, and the look that goes on with it.
LEMMA LookShows ==
  ASSUME IsLook(look), NEW v, NEW left, Onward([look EXCEPT !.views = @ \cup {v}], left, {})
  PROVE  /\ IsLook(look)' /\ look'.op = look.op /\ look'.id = look.id
         /\ look'.left = left /\ look'.done = (look'.left = <<>>)
         /\ look'.state = look.state /\ look'.views = look.views \cup {v}
         /\ look'.alarms = look.alarms /\ look'.decision = look.decision
         /\ look'.report = look.report /\ look'.warnings = look.warnings
         /\ look'.bare = look.bare /\ look'.quiet = look.quiet /\ look'.wiped = look.wiped
<1>1. PICK rest : rest = [look EXCEPT !.views = @ \cup {v}]
  OBVIOUS
<1>2. /\ IsLook(rest) /\ rest.op = look.op /\ rest.id = look.id /\ rest.state = look.state
      /\ rest.views = look.views \cup {v} /\ rest.alarms = look.alarms
      /\ rest.decision = look.decision /\ rest.report = look.report
      /\ rest.warnings = look.warnings /\ rest.bare = look.bare
      /\ rest.quiet = look.quiet /\ rest.wiped = look.wiped
  BY <1>1 DEF IsLook
<1>3. Onward(rest, left, {})
  BY <1>1
<1>4. /\ IsLook(look)' /\ look'.op = rest.op /\ look'.id = rest.id /\ look'.left = left
      /\ look'.state = rest.state /\ look'.views = rest.views
      /\ look'.decision = rest.decision /\ look'.report = rest.report
      /\ look'.alarms = rest.alarms \cup {} /\ look'.warnings = rest.warnings
      /\ look'.done = (left = <<>>) /\ look'.bare = rest.bare
      /\ look'.quiet = rest.quiet /\ look'.wiped = rest.wiped
  <2>1. IsLook(rest)
    BY <1>2
  <2> QED
    BY <1>3, <2>1 DEF Onward, IsLook
<1> QED
  BY <1>2, <1>4

\* What is seen of the trials stays true while the look goes on.
LEMMA ViewsStand ==
  ASSUME look'.op = look.op, look'.id = look.id, look'.wiped = look.wiped,
         look'.state = look.state, NEW v, ViewOf(v)
  PROVE  ViewOf(v)'
BY DEF ViewOf

LEMMA LastTrials ==
  \A ids : WithTrials(ids, <<>>) = IF ids = {} THEN <<>> ELSE <<ReadFolders(ids)>>
<1>1. \A x : <<x>> \o <<>> = <<x>>
  OBVIOUS
<1> QED
  BY <1>1 DEF WithTrials

\* Asking for the list of the trials.
LEMMA TrialsLook ==
  ASSUME InspectionInv, LookOn, look.op = "trials"
  PROVE  LookShaped' /\ LookSound' /\ CheckSound'
<1>1. /\ UNCHANGED campaignVars /\ IsLook(look) /\ look.left # <<>> /\ LookSound
      /\ look.op \notin Checks
      /\ \/ look.left = TrialsReads /\ look.views = {}
         \/ look.left = <<Read("folders")>> /\ look.views = {}
         \/ \E ids \in (SUBSET TrialIds) \ {{}} :
              /\ look.left = <<ReadFolders(ids)>>
              /\ Steady => ids \subseteq IdsOf(look.state.rows)
  BY OpensNext DEF InspectionInv, LookOn, LookShaped, Stage, Checks
<1>2. \A ids : Read("folders").file # "state" /\ ReadFolders(ids).file # "state"
  BY DEF Read, ReadFolders
<1>3. /\ discarded' = discarded /\ ledger' = ledger /\ died' = died
  BY <1>1 DEF campaignVars
<1>4. CASE look.left = TrialsReads /\ look.views = {}
  <2>1. ReadState /\ Tail(look.left) = <<Read("folders")>> /\ <<Read("folders")>> # <<>>
    <3>1. Head(look.left).file = "state"
      BY <1>4, FilesInOrder
    <3> QED
      BY <1>1, <1>4, <3>1, OpensNext, FilesInOrder DEF LookOn
  <2>2. /\ IsLook(look)' /\ look'.op = look.op /\ look'.id = look.id
        /\ look'.left = <<Read("folders")>> /\ look'.done = (look'.left = <<>>)
        /\ look'.state = ledger /\ look'.views = look.views /\ look'.alarms = look.alarms
        /\ look'.report = look.report /\ look'.bare = look.bare
        /\ look'.quiet = look.quiet /\ look'.wiped = look.wiped
    BY <1>1, <2>1, StateIsRead
  <2>3. Stage'
    BY <1>1, <1>4, <2>2 DEF Stage, Checks
  <2> QED
    BY <1>1, <1>4, <2>2, <2>3, OtherGoesOn DEF LookSound
<1>5. CASE look.left = <<Read("folders")>> /\ look.views = {}
  <2>1. ListFolders /\ Tail(look.left) = <<>>
    <3>1. Head(look.left).file = "folders"
      BY <1>5, FilesInOrder
    <3> QED
      BY <1>1, <1>5, <3>1, OpensNext, FilesInOrder DEF LookOn
  <2>2. PICK ids : ids = Listed
    OBVIOUS
  <2>3. PICK left : left = IF ids = {} THEN <<>> ELSE <<ReadFolders(ids)>>
    OBVIOUS
  <2>4. Onward(look, left, {})
    BY <2>1, <2>2, <2>3, LastTrials DEF ListFolders
  <2>5. /\ IsLook(look)' /\ look'.op = look.op /\ look'.id = look.id
        /\ look'.left = left /\ look'.done = (look'.left = <<>>)
        /\ look'.state = look.state /\ look'.views = look.views
        /\ look'.alarms = look.alarms \cup {}
        /\ look'.report = look.report /\ look'.bare = look.bare
        /\ look'.quiet = look.quiet /\ look'.wiped = look.wiped
    <3>1. /\ IsLook(look)' /\ look'.op = look.op /\ look'.id = look.id /\ look'.left = left
          /\ look'.state = look.state /\ look'.views = look.views
          /\ look'.report = look.report /\ look'.alarms = look.alarms \cup {}
          /\ look'.done = (left = <<>>) /\ look'.bare = look.bare
          /\ look'.quiet = look.quiet /\ look'.wiped = look.wiped
      BY ZenonT(30), <1>1, <2>4, OnwardIs
    <3> QED
      BY <3>1
  <2>6. Steady => look.state = ledger
    <3>1. PICK item : item = Read("folders")
      OBVIOUS
    <3>2. ToSet(look.left) = {item} /\ item.file # "state"
      BY <1>2, <1>5, <3>1, FilesInOrder
    <3>3. ~Unread("state")
      BY <3>2 DEF Unread
    <3> QED
      BY <1>1, <3>3 DEF LookSound
  <2>7. ids \in SUBSET TrialIds
    <3>1. look.state.rows \subseteq TrialRow
      BY <1>1 DEF LookSound, StateLasts
    <3> QED
      BY <1>1, <2>2, <3>1, TrialRows DEF Listed, IdsOf
  <2>8. Steady => ids \subseteq IdsOf(look.state.rows)
    <3>1. ASSUME Steady, NEW id \in TrialIds, folders[id] # Nothing
          PROVE  id \in IdsOf(look.state.rows)
      <4>1. Entered(id)
        BY <1>1, <3>1 DEF LookSound, Tidy, AllEntered
      <4>2. PICK r \in ledger.rows : r.id = id
        BY <3>1, <4>1 DEF Entered
      <4> QED
        BY <2>6, <3>1, <4>2 DEF IdsOf
    <3> QED
      BY <1>1, <2>2, <3>1 DEF Listed
  <2>9. Steady' = Steady /\ TrialIds' = TrialIds
    BY <1>3, <2>5 DEF Steady, TrialIds
  <2>10. Stage'
    <3>1. ids # {} => /\ ids \in (SUBSET TrialIds) \ {{}} /\ look'.left = <<ReadFolders(ids)>>
                      /\ Steady' => ids \subseteq IdsOf(look'.state.rows)
      BY <2>3, <2>5, <2>7, <2>8, <2>9
    <3>2. ids = {} => look'.left = <<>>
      BY <2>3, <2>5
    <3>3. \/ look'.left = <<>>
          \/ \E some \in (SUBSET TrialIds) \ {{}} :
               /\ look'.left = <<ReadFolders(some)>>
               /\ Steady' => some \subseteq IdsOf(look'.state.rows)
      BY <3>1, <3>2
    <3> QED
      BY <1>1, <2>5, <3>3 DEF Stage, Checks, TrialIds
  <2> QED
    BY <1>1, <1>5, <2>5, <2>6, <2>10, OtherGoesOn DEF LookSound
<1>6. CASE \E ids \in (SUBSET TrialIds) \ {{}} :
             /\ look.left = <<ReadFolders(ids)>>
             /\ Steady => ids \subseteq IdsOf(look.state.rows)
  <2>1. PICK ids \in (SUBSET TrialIds) \ {{}} :
          /\ look.left = <<ReadFolders(ids)>>
          /\ Steady => ids \subseteq IdsOf(look.state.rows)
    BY <1>6
  <2>2. Head(look.left).ids = ids /\ Tail(look.left) = <<>> /\ ShowFolder
    <3>1. Head(look.left).file = "folder" /\ Head(look.left).ids = ids /\ Tail(look.left) = <<>>
      BY <2>1, FilesInOrder
    <3> QED
      BY <1>1, <3>1, OpensNext DEF LookOn
  <2>3. Turn \in ids
    BY <2>1, <2>2, TurnIsTaken
  <2>4. \/ RowFor(look.state, Turn) = {} /\ Raises("not_found")
        \/ \E v : /\ ViewOf(v)
                  /\ Steady /\ look.state = ledger => v.pending = (v.status = "pending")
                  /\ Onward([look EXCEPT !.views = @ \cup {v}], Others, {})
    BY <2>1, <2>2, TrialIsShown
  <2>5. Steady => look.state = ledger
    <3>1. PICK item : item = ReadFolders(ids)
      OBVIOUS
    <3>2. ToSet(look.left) = {item} /\ item.file # "state"
      BY <1>2, <2>1, <3>1, FilesInOrder
    <3>3. ~Unread("state")
      BY <3>2 DEF Unread
    <3> QED
      BY <1>1, <3>3 DEF LookSound
  <2>6. CASE RowFor(look.state, Turn) = {} /\ Raises("not_found")
    <3>1. ~Steady
      BY <2>1, <2>3, <2>6 DEF IdsOf, RowFor
    <3>2. /\ IsLook(look)' /\ look'.op = look.op /\ look'.id = look.id
          /\ look'.left = <<>> /\ look'.done = TRUE
          /\ look'.state = look.state /\ look'.views = look.views
          /\ look'.report = look.report /\ look'.bare = look.bare
          /\ look'.quiet = look.quiet /\ look'.wiped = look.wiped
      BY <1>1, <2>6, RaisesIs
    <3>3. Stage'
      BY <1>1, <3>2 DEF Stage, Checks
    <3>4. (\A v \in look.views : ViewOf(v))'
      BY <1>1, <3>2, ViewsStand DEF LookSound
    <3> QED
      BY <1>1, <3>1, <3>2, <3>3, <3>4, OtherGoesOn DEF LookSound
  <2>7. CASE \E v : /\ ViewOf(v)
                    /\ Steady /\ look.state = ledger => v.pending = (v.status = "pending")
                    /\ Onward([look EXCEPT !.views = @ \cup {v}], Others, {})
    <3>1. PICK v : /\ ViewOf(v)
                   /\ Steady /\ look.state = ledger => v.pending = (v.status = "pending")
                   /\ Onward([look EXCEPT !.views = @ \cup {v}], Others, {})
      BY <2>7
    <3>2. PICK others : others = ids \ {Turn}
      OBVIOUS
    <3>3. PICK left : left = IF others = {} THEN <<>> ELSE <<ReadFolders(others)>>
      OBVIOUS
    <3>4. Others = left
      BY <2>2, <3>2, <3>3, LastTrials DEF Others
    <3>5. /\ IsLook(look)' /\ look'.op = look.op /\ look'.id = look.id
          /\ look'.left = left /\ look'.done = (look'.left = <<>>)
          /\ look'.state = look.state /\ look'.views = look.views \cup {v}
          /\ look'.alarms = look.alarms /\ look'.report = look.report
          /\ look'.bare = look.bare /\ look'.quiet = look.quiet /\ look'.wiped = look.wiped
      BY <1>1, <3>1, <3>4, LookShows
    <3>6. Steady' = Steady
      BY <1>3, <3>5 DEF Steady
    <3>7. Stage'
      <4>1. \/ look'.left = <<>>
            \/ /\ others \in (SUBSET TrialIds) \ {{}} /\ look'.left = <<ReadFolders(others)>>
               /\ Steady' => others \subseteq IdsOf(look'.state.rows)
        BY <2>1, <3>2, <3>3, <3>5, <3>6
      <4> QED
        BY <1>1, <3>5, <4>1 DEF Stage, Checks, TrialIds
    <3>8. (\A w \in look.views : ViewOf(w))'
      <4>1. ASSUME NEW w \in look'.views PROVE ViewOf(w)'
        <5>1. ViewOf(w)
          BY <1>1, <3>1, <3>5 DEF LookSound
        <5> QED
          BY <3>5, <5>1, ViewsStand
      <4> QED
        BY <4>1
    <3> QED
      BY <1>1, <2>5, <3>1, <3>5, <3>7, <3>8, OtherGoesOn DEF LookSound
  <2> QED
    BY <2>4, <2>6, <2>7
<1> QED
  BY <1>1, <1>4, <1>5, <1>6

\* Asking for one trial.
LEMMA TrialLook ==
  ASSUME InspectionInv, LookOn, look.op = "trial"
  PROVE  LookShaped' /\ LookSound' /\ CheckSound'
<1>1. /\ UNCHANGED campaignVars /\ IsLook(look) /\ look.left # <<>> /\ LookSound
      /\ CampaignSound /\ LedgerSound /\ look.op \notin Checks /\ look.id \in TrialIds
      /\ \/ look.left = TrialReads(look.id) /\ look.views = {}
         \/ look.left = <<ReadFolders({look.id}), Read("trace")>>
         \/ look.left = <<Read("trace")>>
  BY OpensNext DEF InspectionInv, LookOn, LookShaped, Stage, Checks, CampaignSound, DataSound
<1>2. Read("trace").file # "state" /\ \A ids : ReadFolders(ids).file # "state"
  BY DEF Read, ReadFolders
<1>3. /\ discarded' = discarded /\ ledger' = ledger /\ died' = died
  BY <1>1 DEF campaignVars
<1>4. PICK trial : trial = look.id
  OBVIOUS
<1>5. CASE look.left = TrialReads(look.id) /\ look.views = {}
  <2>1. ReadState /\ Tail(look.left) = <<ReadFolders({look.id}), Read("trace")>>
        /\ Tail(look.left) # <<>>
    <3>1. Head(look.left).file = "state"
            /\ Tail(look.left) = <<ReadFolders({trial}), Read("trace")>>
          /\ <<ReadFolders({trial}), Read("trace")>> # <<>>
      BY <1>4, <1>5, FilesInOrder
    <3> QED
      BY <1>1, <1>4, <3>1, OpensNext DEF LookOn
  <2>2. /\ IsLook(look)' /\ look'.op = look.op /\ look'.id = look.id
        /\ look'.left = Tail(look.left) /\ look'.done = (look'.left = <<>>)
        /\ look'.state = ledger /\ look'.views = look.views /\ look'.alarms = look.alarms
        /\ look'.report = look.report /\ look'.bare = look.bare
        /\ look'.quiet = look.quiet /\ look'.wiped = look.wiped
    BY <1>1, <2>1, StateIsRead
  <2>3. Stage'
    BY <1>1, <1>5, <2>1, <2>2 DEF Stage, Checks, TrialIds
  <2> QED
    BY <1>1, <1>5, <2>1, <2>2, <2>3, OtherGoesOn DEF LookSound
<1>6. CASE look.left = <<ReadFolders({look.id}), Read("trace")>>
  <2>1. PICK item, last : item = ReadFolders({trial}) /\ last = Read("trace")
    OBVIOUS
  <2>2. look.left = <<item, last>> /\ item.ids = {trial} /\ item.file = "folder"
        /\ last.file = "trace"
    BY <1>4, <1>6, <2>1, FilesInOrder
  <2>3. Head(look.left) = item /\ Tail(look.left) = <<last>> /\ <<last>> # <<>>
        /\ ToSet(look.left) = {item, last}
    BY <2>2, FilesInOrder
  <2>4. ShowFolder
    BY <1>1, <2>2, <2>3, OpensNext DEF LookOn
  <2>5. Turn = trial /\ Head(look.left).ids \subseteq TrialIds /\ Head(look.left).ids # {}
    BY <1>1, <1>4, <2>2, <2>3, TurnIsTaken
  <2>6. Others = <<last>>
    BY <2>2, <2>3, <2>5 DEF Others, WithTrials
  <2>7. Steady => look.state = ledger
    <3>1. ~Unread("state")
      BY <2>2, <2>3 DEF Unread
    <3> QED
      BY <1>1, <3>1 DEF LookSound
  <2>8. \/ Raises("not_found")
        \/ \E v : /\ ViewOf(v)
                  /\ Steady /\ look.state = ledger => v.pending = (v.status = "pending")
                  /\ Onward([look EXCEPT !.views = @ \cup {v}], Others, {})
    BY <1>4, <2>4, <2>5, TrialIsShown
  <2>9. CASE Raises("not_found")
    <3>1. /\ IsLook(look)' /\ look'.op = look.op /\ look'.id = look.id
          /\ look'.left = <<>> /\ look'.done = TRUE /\ look'.alarms = {"not_found"}
          /\ look'.state = look.state /\ look'.views = look.views
          /\ look'.report = look.report /\ look'.bare = look.bare
          /\ look'.quiet = look.quiet /\ look'.wiped = look.wiped
      BY <1>1, <2>9, RaisesIs
    <3>2. Stage'
      BY <1>1, <3>1 DEF Stage, Checks, TrialIds
    <3>3. (\A v \in look.views : ViewOf(v))'
      BY <1>1, <3>1, ViewsStand DEF LookSound
    <3>4. look'.alarms # {}
      BY <3>1
    <3> QED
      BY <1>1, <2>7, <3>1, <3>2, <3>3, <3>4, OtherGoesOn DEF LookSound
  <2>10. CASE \E v : /\ ViewOf(v)
                     /\ Steady /\ look.state = ledger => v.pending = (v.status = "pending")
                     /\ Onward([look EXCEPT !.views = @ \cup {v}], Others, {})
    <3>1. PICK v : /\ ViewOf(v)
                   /\ Steady /\ look.state = ledger => v.pending = (v.status = "pending")
                   /\ Onward([look EXCEPT !.views = @ \cup {v}], Others, {})
      BY <2>10
    <3>2. PICK left : left = <<last>>
      OBVIOUS
    <3>3. /\ IsLook(look)' /\ look'.op = look.op /\ look'.id = look.id
          /\ look'.left = left /\ look'.done = (look'.left = <<>>)
          /\ look'.state = look.state /\ look'.views = look.views \cup {v}
          /\ look'.alarms = look.alarms /\ look'.report = look.report
          /\ look'.bare = look.bare /\ look'.quiet = look.quiet /\ look'.wiped = look.wiped
      BY <1>1, <2>6, <3>1, <3>2, LookShows
    <3>4. Stage' /\ look'.left # <<>>
      BY <1>1, <2>1, <2>3, <3>2, <3>3 DEF Stage, Checks, TrialIds
    <3>5. (\A w \in look.views : ViewOf(w))'
      <4>1. ASSUME NEW w \in look'.views PROVE ViewOf(w)'
        <5>1. ViewOf(w)
          BY <1>1, <3>1, <3>3, <4>1 DEF LookSound
        <5> QED
          BY <3>3, <5>1, ViewsStand
      <4> QED
        BY <4>1
    <3> QED
      BY <1>1, <2>7, <3>1, <3>3, <3>4, <3>5, OtherGoesOn DEF LookSound
  <2> QED
    BY <2>8, <2>9, <2>10
<1>7. CASE look.left = <<Read("trace")>>
  <2>1. PICK item : item = Read("trace")
    OBVIOUS
  <2>2. look.left = <<item>> /\ item.file = "trace"
    BY <1>7, <2>1, FilesInOrder
  <2>3. Head(look.left) = item /\ Tail(look.left) = <<>> /\ ToSet(look.left) = {item}
    BY <2>2, FilesInOrder
  <2>4. ReadTrace
    BY <1>1, <2>2, <2>3, OpensNext DEF LookOn
  <2>5. Steady => look.state = ledger
    <3>1. ~Unread("state")
      BY <2>2, <2>3 DEF Unread
    <3> QED
      BY <1>1, <3>1 DEF LookSound
  <2>6. CASE Whole(trace)
    <3>1. PICK decision : decision = FirstWith(trial)
      OBVIOUS
    <3>2. PICK rest : rest = [look EXCEPT !.decision = decision]
      OBVIOUS
    <3>3. /\ IsLook(rest) /\ rest.op = look.op /\ rest.id = look.id /\ rest.state = look.state
          /\ rest.views = look.views /\ rest.alarms = look.alarms
          /\ rest.decision = decision /\ rest.report = look.report
          /\ rest.bare = look.bare /\ rest.quiet = look.quiet /\ rest.wiped = look.wiped
      BY <1>1, <3>2 DEF IsLook
    <3>4. Onward(rest, <<>>, {})
      BY <1>1, <1>4, <2>3, <2>4, <2>6, <3>1, <3>2 DEF ReadTrace, Further
    <3>5. /\ IsLook(look)' /\ look'.op = rest.op /\ look'.id = rest.id /\ look'.left = <<>>
          /\ look'.state = rest.state /\ look'.views = rest.views
          /\ look'.decision = rest.decision /\ look'.report = rest.report
          /\ look'.alarms = rest.alarms \cup {} /\ look'.done = (<<>> = <<>>)
          /\ look'.bare = rest.bare /\ look'.quiet = rest.quiet /\ look'.wiped = rest.wiped
      BY <3>3, <3>4, OnwardIs
    <3>6. /\ IsLook(look)' /\ look'.op = look.op /\ look'.id = look.id /\ look'.left = <<>>
          /\ look'.state = look.state /\ look'.views = look.views
          /\ look'.decision = decision /\ look'.report = look.report
          /\ look'.alarms = look.alarms /\ look'.done = TRUE
          /\ look'.bare = look.bare /\ look'.quiet = look.quiet /\ look'.wiped = look.wiped
      BY <3>3, <3>5
    <3>7. Stage'
      BY <1>1, <3>6 DEF Stage, Checks, TrialIds
    <3>8. (\A v \in look.views : ViewOf(v))'
      BY <1>1, <3>6, ViewsStand DEF LookSound
    <3>9. ASSUME ~look.wiped, NEW v \in look.views, v.known # Nothing
          PROVE  decision # {} /\ decision \subseteq {v.known.serial} \cup discarded
      <4>1. PICK r \in look.state.rows : r.id = trial /\ v.known.serial = r.serial
        <5>1. ViewOf(v)
          BY <1>1 DEF LookSound
        <5>2. v.id = trial
          BY <1>4, <5>1 DEF ViewOf
        <5>3. PICK r \in look.state.rows :
                r.id = v.id /\ v.known = [serial |-> r.serial, status |-> r.status]
          BY <3>9, <5>1 DEF ViewOf
        <5> QED
          BY <5>2, <5>3
      <4>2. PICK q \in ledger.rows : q.id = trial /\ q.serial = v.known.serial
        BY <1>1, <3>9, <4>1 DEF LookSound, StateLasts
      <4>3. FirstWith(q.id) \subseteq {q.serial} \cup discarded /\ FirstWith(q.id) # {}
        BY <1>1, <2>6, FirstLine
      <4> QED
        BY <3>1, <4>2, <4>3
    <3> QED
      BY <1>1, <2>5, <3>6, <3>7, <3>8, <3>9, OtherGoesOn DEF LookSound
  <2>7. CASE ~Whole(trace)
    <3>1. Raises("broken_line")
      BY <1>1, <2>4, <2>7 DEF ReadTrace
    <3>2. /\ IsLook(look)' /\ look'.op = look.op /\ look'.id = look.id
          /\ look'.left = <<>> /\ look'.done = TRUE /\ look'.alarms = {"broken_line"}
          /\ look'.state = look.state /\ look'.views = look.views
          /\ look'.report = look.report /\ look'.bare = look.bare
          /\ look'.quiet = look.quiet /\ look'.wiped = look.wiped
      BY <1>1, <3>1, RaisesIs
    <3>3. Stage' /\ look'.alarms # {}
      BY <1>1, <3>2 DEF Stage, Checks, TrialIds
    <3>4. (\A v \in look.views : ViewOf(v))'
      BY <1>1, <3>2, ViewsStand DEF LookSound
    <3>5. ~Steady
      BY <1>1, <2>7 DEF LookSound, Tidy
    <3> QED
      BY <1>1, <3>2, <3>3, <3>4, <3>5, OtherGoesOn DEF LookSound
  <2> QED
    BY <2>6, <2>7
<1> QED
  BY <1>1, <1>5, <1>6, <1>7

-----------------------------------------------------------------------------
(* Whatever runs, dies or is read.                                          *)

\* A look goes on, whatever it is about.
LEMMA LookGoesOn ==
  ASSUME InspectionInv, LookOn
  PROVE  LookShaped' /\ LookSound' /\ CheckSound'
<1>1. UNCHANGED campaignVars /\ look.op # "none"
  BY OpensNext DEF LookOn
<1>2. CASE look.op \in Checks
  <2>1. ~ShowFolder
    BY <1>2, OpensNext
  <2> QED
    BY <1>1, <1>2, <2>1, CheckStep, CheckLists DEF LookOn
<1>3. CASE look.op \notin Checks
  BY <1>1, <1>3, TrialsLook, TrialLook, ReportLook, AlertLook DEF InspectionInv, LookShaped
<1> QED
  BY <1>2, <1>3

\* The files stand while somebody reads them.
LEMMA CampaignStands ==
  ASSUME CampaignSound, UNCHANGED campaignVars
  PROVE  CampaignSound'
<1>1. /\ ledger' = ledger /\ folders' = folders /\ trace' = trace /\ reports' = reports
      /\ writes' = writes /\ dealt' = dealt /\ discarded' = discarded /\ died' = died
      /\ DataSound /\ Commanded /\ died \in Nat /\ LedgerSound
  BY DEF campaignVars, CampaignSound, DataSound
<1>2. \A line : Belongs(line) => Belongs(line)'
  BY <1>1 DEF Belongs
<1>3. dealt' \in 0..MaxDeals /\ discarded' \subseteq 1..dealt'
  BY <1>1 DEF LedgerSound
<1>4. DataSound'
  BY <1>1, <1>2, <1>3, Dealt, Begins
<1>5. TrialRow' = TrialRow
  BY <1>1 DEF TrialRow, TrialIds
<1>6. /\ AllEntered' = AllEntered /\ InReports' = InReports /\ Whole(trace)' = Whole(trace)
      /\ Tidy' = Tidy /\ Shown' = Shown /\ Beginning' = Beginning /\ Cut(trace)' = Cut(trace)
      /\ \A row : /\ AllBut(row)' = AllBut(row) /\ InFolder(row)' = InFolder(row)
                  /\ InTrace(row)' = InTrace(row)
  <2>1. AllEntered' = AllEntered /\ \A row : AllBut(row)' = AllBut(row)
          /\ InFolder(row)' = InFolder(row)
    BY <1>1 DEF AllEntered, AllBut, Entered, InFolder, TrialIds
  <2>2. InReports' = InReports /\ Shown' = Shown
    BY <1>1 DEF InReports, Shown, Reported, RowsOf
  <2>3. Whole(trace)' = Whole(trace) /\ Beginning' = Beginning /\ Cut(trace)' = Cut(trace)
        /\ \A row : InTrace(row)' = InTrace(row)
    BY <1>1 DEF Whole, Beginning, Cut, InTrace, Sane
  <2> QED
    BY <2>1, <2>2, <2>3 DEF Tidy
<1>7. Commanded'
  <2>1. \A row : Making(row) => Making(row)'
    BY <1>1, <1>6 DEF Making
  <2>2. \A row : Logging(row) => Logging(row)'
    BY <1>1, <1>6 DEF Logging
  <2>3. \A row : Settling(row) => Settling(row)'
    BY <1>1, <1>6 DEF Settling
  <2>4. ReportMaking => ReportMaking'
    BY <1>1, <1>6 DEF ReportMaking
  <2>5. Removing => Removing'
    BY <1>1, <1>6 DEF Removing
  <2> QED
    BY <1>1, <1>5, <1>6, <2>1, <2>2, <2>3, <2>4, <2>5 DEF Commanded
<1> QED
  BY <1>1, <1>4, <1>7 DEF CampaignSound

LEMMA InspectionKept == InspectionInv /\ [InspectionNext]_inspectionVars => InspectionInv'
<1> SUFFICES ASSUME InspectionInv, [InspectionNext]_inspectionVars PROVE InspectionInv'
  OBVIOUS
<1>1. CampaignSound /\ died \in Nat
  BY DEF InspectionInv, CampaignSound
<1>2. CASE Allocate \/ LogInfeasible
  BY <1>1, <1>2, CommandBegins, ReaderWaits DEF InspectionInv
<1>3. CASE \/ MakeReport \/ ResetCampaign
           \/ \E row \in RowsOf(ledger, {"pending"}), status \in Ended : Settle(row, status)
  BY <1>1, <1>3, OtherBegins, ReaderWaits DEF InspectionInv
<1>4. CASE WriteFile
  <2>1. PICK name : name = Head(writes).to
    OBVIOUS
  <2>2. /\ CampaignSound' /\ Grew /\ (name \notin Removals => Remains) /\ look' = Noticed(name)
    BY <1>1, <1>4, <2>1, CampaignWrites
  <2> QED
    BY <2>2, ReaderNotices DEF InspectionInv
<1>5. CASE CommandDies
  BY <1>1, <1>5, CommandUnwinds, ReaderWaits DEF InspectionInv
<1>6. ASSUME NEW op, NEW id, NEW reads, Ask(op, id, reads),
             \/ op \in Checks /\ reads \in {ValidateReads, MetricsReads}
             \/ op = "trials" /\ reads = TrialsReads
             \/ op = "trial" /\ id \in TrialIds /\ reads = TrialReads(id)
             \/ op = "report" /\ reads = ReportReads
             \/ op = "alerts" /\ reads = AlertReads
      PROVE  InspectionInv'
  <2>1. look.op = "none" /\ look' = Asks(op, id, reads) /\ UNCHANGED campaignVars
    BY <1>6 DEF Ask, Asks
  <2>2. LookShaped' /\ LookSound' /\ CheckSound'
    BY <1>6, <2>1, ReaderAsks
  <2> QED
    BY <1>1, <2>1, <2>2, CampaignStands DEF InspectionInv
<1>7. CASE \/ Ask("validate", 0, ValidateReads) \/ Ask("metrics", 0, MetricsReads)
           \/ Ask("trials", 0, TrialsReads) \/ Ask("report", 0, ReportReads)
           \/ Ask("alerts", 0, AlertReads)
           \/ \E id \in TrialIds : Ask("trial", id, TrialReads(id))
  <2>1. "validate" \in Checks /\ "metrics" \in Checks
    BY DEF Checks
  <2>2. CASE Ask("validate", 0, ValidateReads) \/ Ask("metrics", 0, MetricsReads)
    BY <1>6, <2>1, <2>2
  <2>3. CASE Ask("trials", 0, TrialsReads)
    BY <1>6, <2>3
  <2>4. CASE Ask("report", 0, ReportReads)
    BY <1>6, <2>4
  <2>5. CASE Ask("alerts", 0, AlertReads)
    BY <1>6, <2>5
  <2>6. CASE \E id \in TrialIds : Ask("trial", id, TrialReads(id))
    BY <1>6, <2>6
  <2> QED
    BY <1>7, <2>2, <2>3, <2>4, <2>5, <2>6
<1>8. CASE LookOn
  BY <1>1, <1>8, LookGoesOn, CampaignStands DEF InspectionInv, LookOn
<1>9. CASE UNCHANGED inspectionVars
  <2>1. UNCHANGED campaignVars /\ look' = look
    BY <1>9 DEF inspectionVars
  <2>2. CampaignSound' /\ FilesStand /\ Grew /\ died' = died
    <3>1. Grew
      BY <1>1, <2>1, Dealt DEF Grew, campaignVars, Reported, CampaignSound, DataSound, RowsOf
    <3> QED
      BY <1>1, <2>1, <3>1, CampaignStands DEF FilesStand, campaignVars
  <2> QED
    BY <2>1, <2>2, ReaderWaits DEF InspectionInv
<1> QED
  BY <1>2, <1>3, <1>4, <1>5, <1>7, <1>8, <1>9 DEF InspectionNext

LEMMA InspectionInitInv == InspectionInit => InspectionInv
<1> SUFFICES ASSUME InspectionInit PROVE InspectionInv
  OBVIOUS
<1>1. /\ ledger = NewLedger /\ folders = [id \in TrialIds |-> Nothing] /\ trace = <<>>
      /\ reports = [json |-> NoReport, md |-> NoReport] /\ writes = <<>> /\ look = NoLook
      /\ dealt = 0 /\ discarded = {} /\ died = 0
  BY DEF InspectionInit
<1>2. ledger.rows = {} /\ ledger.next = 1 /\ ledger.best = {} /\ BestId({}) = {}
  BY <1>1 DEF NewLedger, BestId
<1>3. LedgerSound
  <2>1. dealt \in 0..MaxDeals /\ discarded \subseteq 1..dealt /\ ledger.next \in 1..(dealt + 1)
    BY <1>1, <1>2, LookAssumption
  <2>2. ledger = [rows |-> ledger.rows, next |-> ledger.next, best |-> BestId(ledger.rows)]
    BY <1>1, <1>2 DEF NewLedger
  <2>3. IsFiniteSet(ledger.rows)
    BY <1>2, FS_EmptySet
  <2> QED
    BY <1>2, <2>1, <2>2, <2>3 DEF LedgerSound
<1>4. FoldersSound /\ TraceSound
  <2>1. FoldersSound
    BY <1>1, <1>2 DEF FoldersSound
  <2>2. trace \in Seq(TraceLine) /\ DOMAIN trace = {}
    BY <1>1
  <2> QED
    BY <1>2, <2>1, <2>2 DEF TraceSound
<1>5. /\ IsReport(reports.json) /\ IsReport(reports.md) /\ reports.json = reports.md
      /\ reports.json.lists = {} /\ reports = [json |-> reports.json, md |-> reports.md]
  BY <1>1 DEF IsReport, NoReport
<1>6. ReportsSound
  BY <1>5 DEF ReportsSound
<1>7. Tidy
  BY <1>1, <1>5 DEF Tidy, AllEntered, Entered, Whole, InReports
<1>8. CampaignSound
  BY <1>1, <1>3, <1>4, <1>6, <1>7 DEF CampaignSound, DataSound, Commanded
<1>9. LookShaped
  BY <1>1 DEF LookShaped, IsLook, NoLook, Stage, Checks
<1>10. LookSound
  BY <1>1 DEF LookSound, StateLasts, Steady, NoLook, NewLedger
<1>11. CheckSound
  BY <1>1 DEF CheckSound, Checks, NoLook
<1> QED
  BY <1>8, <1>9, <1>10, <1>11 DEF InspectionInv

\* What is read without the lock is true.
LEMMA LooksTrue == InspectionInv => AlarmsHaveCause /\ ViewsAreTrue
<1> SUFFICES ASSUME InspectionInv PROVE AlarmsHaveCause /\ ViewsAreTrue
  OBVIOUS
<1>1. /\ LookShaped /\ LookSound /\ CheckSound /\ look.op \in Checks \cup
           {"none", "trials", "trial", "report", "alerts"}
      /\ look.op # "none" => (look.done <=> look.left = <<>>)
  BY DEF InspectionInv, LookShaped
<1>2. look.op = "none" => ~look.done
  BY <1>1 DEF LookShaped, NoLook
<1>3. look.left = <<>> => \A name, id : ~Unread(name) /\ ~Unchecked(id)
  BY FilesInOrder DEF Unread, Unchecked
<1>4. AlarmsHaveCause
  <2> SUFFICES ASSUME look.done, look.op \in Checks
               PROVE  /\ "state" \notin look.alarms
                      /\ look.quiet => (Verdict = "error") = Damaged
                      /\ look.quiet /\ died = 0 => Verdict # "error"
                      /\ ~look.wiped /\ look.torn => Verdict = "error"
                      /\ ~look.wiped /\ (\E id \in look.bare : folders[id] = Bare)
                           => Verdict = "error"
    BY DEF AlarmsHaveCause
  <2>1. look.left = <<>> /\ look.op # "none"
          /\ look.alarms \subseteq {"broken_line", "no_manifest"}
    BY <1>1, <1>2 DEF CheckSound
  <2>2. Verdict = "error" <=> look.alarms # {}
    BY DEF Verdict
  <2>3. ASSUME look.quiet PROVE look.alarms # {} <=> Damaged
    <3>1. /\ "broken_line" \in look.alarms => ~Whole(trace)
          /\ "no_manifest" \in look.alarms => \E id \in TrialIds : folders[id] = Bare
          /\ ~Whole(trace) => "broken_line" \in look.alarms
          /\ \A id \in TrialIds : folders[id] = Bare => look.alarms # {}
      BY <1>1, <1>3, <2>1, <2>3 DEF CheckSound
    <3> QED
      BY <2>1, <3>1 DEF Damaged
  <2>4. ASSUME look.quiet, died = 0 PROVE ~Damaged
    <3>1. Tidy
      BY <1>1, <2>1, <2>4 DEF LookSound, Steady
    <3>2. ASSUME NEW id \in TrialIds, folders[id] = Bare PROVE FALSE
      <4>1. Entered(id)
        BY <3>1, <3>2 DEF Tidy, AllEntered
      <4>2. PICK r \in ledger.rows : InFolder(r) /\ r.id = id
        BY <3>2, <4>1 DEF Entered, Bare, Nothing
      <4>3. r.status \in {"pending"} \cup Ended
        BY Dealt, TrialRows DEF InspectionInv, CampaignSound, DataSound
      <4> QED
        BY <3>2, <4>2, <4>3 DEF InFolder, Bare, Ended
    <3> QED
      BY <3>1, <3>2 DEF Tidy, Damaged
  <2>5. ~look.wiped /\ look.torn => look.alarms # {}
    BY <1>1, <1>3, <2>1 DEF CheckSound
  <2>6. ~look.wiped /\ (\E id \in look.bare : folders[id] = Bare) => look.alarms # {}
    BY <1>1, <1>3, <2>1 DEF CheckSound
  <2>7. Damaged \in BOOLEAN
    BY DEF Damaged
  <2> QED
    BY <2>1, <2>2, <2>3, <2>4, <2>5, <2>6, <2>7
<1>5. TrialsRunAhead
  <2> SUFFICES ASSUME look.done, look.op \in {"trials", "trial"}
               PROVE  /\ ~look.wiped => \A v \in look.views :
                           v.known # Nothing =>
                             /\ v.serial = v.known.serial
                             /\ v.known.status \in Ended => v.status = v.known.status
                      /\ look.quiet /\ died = 0 =>
                           /\ look.alarms \subseteq
                                (IF look.op = "trial" THEN {"not_found"} ELSE {})
                           /\ \A v \in look.views : v.pending = (v.status = "pending")
    BY DEF TrialsRunAhead
  <2>1. \A v \in look.views : ViewOf(v)
    BY <1>1 DEF LookSound
  <2>2. look.quiet /\ died = 0 => Steady
    BY DEF Steady
  <2> QED
    BY <1>1, <2>1, <2>2 DEF LookSound, ViewOf
<1>6. DecisionsAreExplained
  BY <1>1 DEF DecisionsAreExplained, LookSound
<1>7. ReportsFollow
  <2> SUFFICES ASSUME look.done, look.op = "report", look.alarms = {}
               PROVE  /\ look.report \subseteq Reported \cup discarded
                      /\ look.quiet /\ died = 0 =>
                           look.report \subseteq Reported /\ look.report = reports.md.lists
    BY DEF ReportsFollow, Reported
  <2>1. look.left = <<>>
    BY <1>1
  <2>2. look.quiet /\ died = 0 => Steady
    BY DEF Steady
  <2> QED
    BY <1>1, <2>1, <2>2 DEF LookSound, Tidy, InReports
<1>8. AlertsAreTraced
  BY <1>1 DEF AlertsAreTraced, LookSound
<1> QED
  BY <1>4, <1>5, <1>6, <1>7, <1>8 DEF ViewsAreTrue

-----------------------------------------------------------------------------
(* Folds over a finite set: an element is picked, and the rest comes first. *)

Picks(ch, S) == ch \in [(SUBSET S) \ {{}} -> S] /\ \A s \in (SUBSET S) \ {{}} : ch[s] \in s

Folds(iter, D, ch, v, base) ==
  /\ iter = [s \in D |-> iter[s]]
  /\ \A s \in D : iter[s] = IF s = {} THEN base ELSE v[<<ch[s], iter[s \ {ch[s]}]>>]

\* What is left when the element picked is taken out has one element less.
LEMMA PickLeaves ==
  ASSUME NEW S, IsFiniteSet(S), NEW ch, Picks(ch, S), NEW s \in SUBSET S
  PROVE  /\ IsFiniteSet(s) /\ Cardinality(s) \in Nat /\ Cardinality(s) <= Cardinality(S)
         /\ (Cardinality(s) = 0 <=> s = {})
         /\ s # {} => /\ ch[s] \in s /\ s \ {ch[s]} \in SUBSET S
                      /\ Cardinality(s \ {ch[s]}) = Cardinality(s) - 1
<1>1. /\ IsFiniteSet(s) /\ Cardinality(s) \in Nat /\ Cardinality(s) <= Cardinality(S)
      /\ (Cardinality(s) = 0 <=> s = {})
  BY FS_Subset, FS_CardinalityType, FS_EmptySet
<1>2. ASSUME s # {}
      PROVE  /\ ch[s] \in s /\ s \ {ch[s]} \in SUBSET S
             /\ Cardinality(s \ {ch[s]}) = Cardinality(s) - 1
  <2>1. ch[s] \in s
    BY <1>2 DEF Picks
  <2> QED
    BY <1>1, <2>1, FS_RemoveElement
<1> QED
  BY <1>1, <1>2

\* There is such a function: one for the subsets of a size makes one for those that
\* have one element more.
LEMMA FoldExists ==
  ASSUME NEW S, IsFiniteSet(S), NEW ch, Picks(ch, S), NEW v, NEW base
  PROVE  \E iter : Folds(iter, SUBSET S, ch, v, base)
<1> DEFINE Upto(n) == {s \in SUBSET S : Cardinality(s) <= n}
           Bad == {n \in Nat : ~\E iter : Folds(iter, Upto(n), ch, v, base)}
<1>1. \A s \in SUBSET S : /\ IsFiniteSet(s) /\ Cardinality(s) \in Nat
                          /\ Cardinality(s) <= Cardinality(S)
                          /\ (Cardinality(s) = 0 <=> s = {})
  BY PickLeaves
<1>2. \A s \in SUBSET S : s # {} => /\ ch[s] \in s /\ s \ {ch[s]} \in SUBSET S
                                    /\ Cardinality(s \ {ch[s]}) = Cardinality(s) - 1
  BY PickLeaves
<1>3. ASSUME Bad # {} PROVE FALSE
  <2>1. Bad \in SUBSET Nat
    OBVIOUS
  <2>2. PICK n \in Bad : \A m \in Bad : n <= m
    <3> HIDE DEF Bad
    <3> QED
      BY <1>3, <2>1, LeastOfNaturals
  <2>3. CASE n = 0
    <3>1. \A s \in Upto(0) : s = {}
      BY <1>1
    <3>2. PICK iter : iter = [s \in Upto(0) |-> base]
      OBVIOUS
    <3>3. Folds(iter, Upto(0), ch, v, base)
      BY <3>1, <3>2 DEF Folds
    <3> QED
      BY <2>2, <2>3, <3>3
  <2>4. CASE n # 0
    <3>1. n - 1 \in Nat /\ n - 1 \notin Bad
      <4>1. n \in Nat
        OBVIOUS
      <4> HIDE DEF Bad
      <4> QED
        BY <2>2, <2>4, <4>1
    <3>2. PICK piece : Folds(piece, Upto(n - 1), ch, v, base)
      BY <3>1
    <3>3. PICK iter : iter = [s \in Upto(n) |-> IF s = {} THEN base
                                                ELSE v[<<ch[s], piece[s \ {ch[s]}]>>]]
      OBVIOUS
    <3>4. ASSUME NEW s \in Upto(n), s # {}
          PROVE  iter[s \ {ch[s]}] = piece[s \ {ch[s]}]
      <4>1. PICK t : t = s \ {ch[s]}
        OBVIOUS
      <4>2. t \in Upto(n - 1) /\ t \in Upto(n)
        BY <1>1, <1>2, <3>4, <4>1
      <4>3. piece[t] = IF t = {} THEN base ELSE v[<<ch[t], piece[t \ {ch[t]}]>>]
        BY <3>2, <4>2 DEF Folds
      <4> QED
        BY <3>3, <4>1, <4>2, <4>3
    <3>5. Folds(iter, Upto(n), ch, v, base)
      BY <3>3, <3>4 DEF Folds
    <3> QED
      BY <2>2, <3>5
  <2> QED
    BY <2>3, <2>4
<1>4. Cardinality(S) \in Nat
  BY FS_CardinalityType
<1>5. Upto(Cardinality(S)) = SUBSET S
  BY <1>1
<1>6. Cardinality(S) \notin Bad
  BY <1>3
<1> QED
  BY <1>4, <1>5, <1>6

\* What holds of the empty set, and of a set if it does without the element picked,
\* holds of all.
LEMMA SetsGrow ==
  ASSUME NEW S, IsFiniteSet(S), NEW ch, Picks(ch, S), NEW iter, NEW I, iter[{}] \in I[{}],
         \A s \in (SUBSET S) \ {{}} :
           iter[s \ {ch[s]}] \in I[s \ {ch[s]}] => iter[s] \in I[s]
  PROVE  \A s \in SUBSET S : iter[s] \in I[s]
<1> DEFINE Sizes == {n \in Nat : \E s \in SUBSET S : Cardinality(s) = n /\ iter[s] \notin I[s]}
<1>1. ASSUME Sizes # {} PROVE FALSE
  <2>1. PICK n \in Sizes : \A m \in Sizes : n <= m
    <3>1. Sizes \in SUBSET Nat
      OBVIOUS
    <3> HIDE DEF Sizes
    <3> QED
      BY <1>1, <3>1, LeastOfNaturals
  <2>2. PICK s \in SUBSET S : Cardinality(s) = n /\ iter[s] \notin I[s]
    BY <2>1
  <2>3. s # {} /\ n \in Nat
    BY <2>1, <2>2
  <2>4. PICK t : t = s \ {ch[s]}
    OBVIOUS
  <2>5. t \in SUBSET S /\ Cardinality(t) = Cardinality(s) - 1
    BY <2>3, <2>4, PickLeaves
  <2>6. Cardinality(t) \in Nat /\ Cardinality(t) = n - 1
    BY <2>2, <2>5, PickLeaves
  <2>7. iter[t] \in I[t]
    <3>1. Cardinality(t) \notin Sizes
      <4>1. ~(n <= n - 1)
        BY <2>3
      <4> HIDE DEF Sizes
      <4> QED
        BY <2>1, <2>6, <4>1
    <3> QED
      BY <2>5, <2>6, <3>1
  <2>8. iter[s] \in I[s]
    BY <2>3, <2>4, <2>7
  <2> QED
    BY <2>2, <2>8
<1> QED
  BY <1>1, PickLeaves

\* FoldSet, of an operation that is a function of pairs.
SetFold(v, base, S) ==
  LET iter[s \in SUBSET S] ==
        IF s = {} THEN base
        ELSE LET x == CHOOSE y \in s : TRUE
             IN  v[<<x, iter[s \ {x}]>>]
  IN  iter[S]

Chosen(S) == [s \in (SUBSET S) \ {{}} |-> CHOOSE y \in s : TRUE]

\* The fold takes the elements in the order in which CHOOSE gives them.
LEMMA SetFoldIs ==
  ASSUME NEW S, IsFiniteSet(S), NEW v, NEW base
  PROVE  /\ Picks(Chosen(S), S)
         /\ \E iter : Folds(iter, SUBSET S, Chosen(S), v, base) /\ SetFold(v, base, S) = iter[S]
<1> DEFINE Made(f) == f = [s \in SUBSET S |-> IF s = {} THEN base
                             ELSE LET x == CHOOSE y \in s : TRUE IN v[<<x, f[s \ {x}]>>]]
<1>1. Picks(Chosen(S), S)
  BY DEF Picks, Chosen
<1>2. PICK g : Folds(g, SUBSET S, Chosen(S), v, base)
  BY <1>1, FoldExists
<1>3. Made(g)
  BY <1>2 DEF Folds, Chosen
<1>4. PICK iter : iter = CHOOSE f : Made(f)
  OBVIOUS
<1>5. Made(iter)
  <2>1. \E f : Made(f)
    BY <1>3
  <2> QED
    BY <1>4, <2>1
<1>6. SetFold(v, base, S) = iter[S]
  BY <1>4 DEF SetFold
<1>7. Folds(iter, SUBSET S, Chosen(S), v, base)
  BY <1>5 DEF Folds, Chosen
<1> QED
  BY <1>1, <1>6, <1>7

\* Operations that agree where the fold gets make one fold.
LEMMA SetFoldSame ==
  ASSUME NEW S, IsFiniteSet(S), NEW v, NEW w, NEW B, NEW base \in B,
         \A c \in S : \A x \in B : v[<<c, x>>] \in B /\ w[<<c, x>>] = v[<<c, x>>]
  PROVE  SetFold(v, base, S) \in B /\ SetFold(w, base, S) = SetFold(v, base, S)
<1>1. Picks(Chosen(S), S)
  BY SetFoldIs
<1>2. PICK f : Folds(f, SUBSET S, Chosen(S), v, base) /\ SetFold(v, base, S) = f[S]
  BY SetFoldIs
<1>3. PICK g : Folds(g, SUBSET S, Chosen(S), w, base) /\ SetFold(w, base, S) = g[S]
  BY SetFoldIs
<1>4. PICK ch : ch = Chosen(S)
  OBVIOUS
<1>5. PICK I : I = [s \in SUBSET S |-> {x \in B : x = g[s]}]
  OBVIOUS
<1>6. \A s \in SUBSET S : /\ f[s] = IF s = {} THEN base ELSE v[<<ch[s], f[s \ {ch[s]}]>>]
                          /\ g[s] = IF s = {} THEN base ELSE w[<<ch[s], g[s \ {ch[s]}]>>]
  BY <1>2, <1>3, <1>4 DEF Folds
<1>7. f[{}] \in I[{}]
  BY <1>5, <1>6
<1>8. ASSUME NEW s \in (SUBSET S) \ {{}}, f[s \ {ch[s]}] \in I[s \ {ch[s]}]
      PROVE  f[s] \in I[s]
  <2>1. PICK t : t = s \ {ch[s]}
    OBVIOUS
  <2>2. ch[s] \in S /\ t \in SUBSET S
    BY <1>1, <1>4, <2>1 DEF Picks
  <2>3. f[t] \in B /\ f[t] = g[t]
    BY <1>5, <1>8, <2>1, <2>2
  <2>4. f[s] = v[<<ch[s], f[t]>>] /\ g[s] = w[<<ch[s], g[t]>>]
    BY <1>6, <2>1
  <2> QED
    BY <1>5, <2>2, <2>3, <2>4
<1>9. f[S] \in I[S]
  BY <1>1, <1>4, <1>7, <1>8, SetsGrow
<1> QED
  BY <1>2, <1>3, <1>5, <1>9

-----------------------------------------------------------------------------
(* The order of the parameters.                                             *)

Above(params, n) == DOMAIN Named(params, n).when

\* The part of SpaceAccepted that does not read the ranges.
Arranged(params) ==
  /\ Cardinality(Names(params)) = Len(params)
  /\ \A p \in ToSet(params) : DOMAIN p.when \in SUBSET (Names(params) \ {p.name})
  /\ Acyclic(params)

\* The validator accepts only such spaces.
LEMMA AcceptedArranged ==
  ASSUME NEW params, SpaceAccepted(params) PROVE Arranged(params)
  BY DEF SpaceAccepted, ConditionsFit, Arranged

\* A name stands for one parameter, and what a parameter hangs on is declared.
LEMMA SpaceIs ==
  ASSUME NEW params, params \in Seq(ToSet(params)), Arranged(params)
  PROVE  /\ IsFiniteSet(Names(params)) /\ Cardinality(Names(params)) = Len(params)
         /\ DOMAIN params = 1..Len(params) /\ Len(params) \in Nat
         /\ \A i \in DOMAIN params :
              params[i] \in ToSet(params) /\ params[i].name \in Names(params)
         /\ \A p \in ToSet(params) : p.name \in Names(params) /\ Named(params, p.name) = p
         /\ \A n \in Names(params) :
              /\ Named(params, n) \in ToSet(params) /\ Named(params, n).name = n
              /\ Above(params, n) \in SUBSET (Names(params) \ {n})
              /\ IsFiniteSet(Above(params, n))
<1>1. DOMAIN params = 1..Len(params) /\ Len(params) \in Nat
  OBVIOUS
<1>2. PICK f : f = [i \in 1..Len(params) |-> params[i].name]
  OBVIOUS
<1>3. f \in Surjection(1..Len(params), Names(params))
  BY <1>1, <1>2 DEF Surjection, Names, ToSet
<1>4. IsFiniteSet(1..Len(params)) /\ Cardinality(1..Len(params)) = Len(params)
  BY SMTT(30), <1>1, FS_Interval
<1>5. IsFiniteSet(Names(params))
  BY <1>3, <1>4, FS_Surjection
<1>6. Cardinality(Names(params)) = Len(params)
  BY DEF Arranged
<1>7. f \in Injection(1..Len(params), Names(params))
  BY <1>3, <1>4, <1>5, <1>6, FS_SurjSameCardinalityImpliesInj
<1>8. \A p, q \in ToSet(params) : p.name = q.name => p = q
  <2>1. \A i, j \in 1..Len(params) : f[i] = f[j] => i = j
    BY <1>7 DEF Injection, IsInjective
  <2> QED
    BY <1>1, <1>2, <2>1 DEF ToSet
<1>9. \A p \in ToSet(params) : p.name \in Names(params) /\ Named(params, p.name) = p
  BY <1>8 DEF Names, Named
<1>10. \A n \in Names(params) : Named(params, n) \in ToSet(params) /\ Named(params, n).name = n
  BY DEF Names, Named
<1>11. \A n \in Names(params) :
         /\ Above(params, n) \in SUBSET (Names(params) \ {n})
         /\ IsFiniteSet(Above(params, n))
  <2>1. TAKE n \in Names(params)
  <2>2. Above(params, n) \in SUBSET (Names(params) \ {n})
    BY <1>10 DEF Arranged, Above
  <2> QED
    BY <1>5, <2>2, FS_Subset
<1> QED
  BY <1>1, <1>5, <1>6, <1>9, <1>10, <1>11 DEF ToSet

\* What holds of no parameters, and goes on to those whose controllers are there, holds
\* of all: conditions have no cycle.
LEMMA Climb ==
  ASSUME NEW params, params \in Seq(ToSet(params)), Arranged(params),
         NEW G \in SUBSET SUBSET Names(params), {} \in G,
         \A D \in G :
           \A n \in Names(params) \ D : Above(params, n) \subseteq D => D \cup {n} \in G
  PROVE  Names(params) \in G
<1>1. PICK N : N = Names(params)
  OBVIOUS
<1>2. IsFiniteSet(N) /\ Cardinality(N) \in Nat /\ \A n \in N : Above(params, n) \in SUBSET N
  BY <1>1, SpaceIs, FS_CardinalityType
<1>3. PICK Sizes : Sizes = {Cardinality(D) : D \in G}
  OBVIOUS
<1>4. \A D \in G : IsFiniteSet(D) /\ Cardinality(D) \in 0..Cardinality(N)
  BY <1>1, <1>2, FS_Subset, FS_CardinalityType
<1>5. Sizes \in SUBSET (0..Cardinality(N)) /\ Sizes # {}
  BY <1>3, <1>4
<1>6. PICK k \in Sizes : \A j \in Sizes : j <= k
  BY <1>2, <1>5, GreatestOfNaturals
<1>7. PICK D \in G : k = Cardinality(D)
  BY <1>3, <1>6
<1>8. ASSUME D # N PROVE FALSE
  <2>1. N \ D \in (SUBSET Names(params)) \ {{}}
    BY <1>1, <1>8
  <2>2. PICK n \in N \ D : DOMAIN Named(params, n).when \cap (N \ D) = {}
    BY <2>1 DEF Arranged, Acyclic
  <2>3. Above(params, n) \subseteq D
    BY <1>2, <2>2 DEF Above
  <2>4. D \cup {n} \in G
    BY <1>1, <2>2, <2>3
  <2>5. Cardinality(D \cup {n}) = Cardinality(D) + 1
    BY <1>4, <2>2, FS_AddElement
  <2>6. Cardinality(D \cup {n}) <= Cardinality(D)
    BY <1>3, <1>6, <1>7, <2>4
  <2> QED
    BY <1>4, <2>5, <2>6
<1> QED
  BY <1>1, <1>7, <1>8

\* The recursion of Visit.
VisitedFirst(params, v, p) ==
  IF p[1] \in ToSet(p[2]) THEN p[2]
  ELSE Append(SetFold(v, p[2], Above(params, p[1])), p[1])

Visits(params, v, D) ==
  /\ v = [p \in D \X Seq(Names(params)) |-> v[p]]
  /\ \A n \in D, done \in Seq(Names(params)) :
       v[<<n, done>>] = VisitedFirst(params, v, <<n, done>>)

Keeps(v, D, N) == \A n \in D, done \in Seq(N) : v[<<n, done>>] \in Seq(N)

\* The recursion of Visit has a solution, as conditions have no cycle.
LEMMA VisitExists ==
  ASSUME NEW params, params \in Seq(ToSet(params)), Arranged(params)
  PROVE  \E v : Visits(params, v, Names(params))
<1>1. PICK N : N = Names(params)
  OBVIOUS
<1>2. \A n \in N : Above(params, n) \in SUBSET N /\ IsFiniteSet(Above(params, n))
  BY <1>1, SpaceIs
<1>3. PICK G : G = {D \in SUBSET N : /\ \A n \in D : Above(params, n) \subseteq D
                                     /\ \E v : Visits(params, v, D) /\ Keeps(v, D, N)}
  OBVIOUS
<1>4. {} \in G
  <2>1. PICK v : v = [p \in {} \X Seq(N) |-> p]
    OBVIOUS
  <2>2. Visits(params, v, {}) /\ Keeps(v, {}, N)
    BY <1>1, <2>1 DEF Visits, Keeps
  <2> QED
    BY <1>3, <2>2
<1>5. ASSUME NEW D \in G, NEW n \in N \ D, Above(params, n) \subseteq D PROVE D \cup {n} \in G
  <2>1. PICK v : Visits(params, v, D) /\ Keeps(v, D, N)
    BY <1>3
  <2>2. D \in SUBSET N /\ \A m \in D \cup {n} : Above(params, m) \subseteq D
    BY <1>3, <1>5
  <2>3. PICK w : w = [p \in (D \cup {n}) \X Seq(N) |-> VisitedFirst(params, v, p)]
    OBVIOUS
  <2>4. ASSUME NEW m \in D, NEW done \in Seq(N)
        PROVE  v[<<m, done>>] \in Seq(N) /\ w[<<m, done>>] = v[<<m, done>>]
    <3>1. <<m, done>> \in (D \cup {n}) \X Seq(N)
      OBVIOUS
    <3> QED
      BY <1>1, <2>1, <2>3, <3>1 DEF Visits, Keeps
  <2>5. ASSUME NEW m \in D \cup {n}, NEW done \in Seq(N)
        PROVE  /\ w[<<m, done>>] = VisitedFirst(params, w, <<m, done>>)
               /\ w[<<m, done>>] \in Seq(N)
    <3>1. <<m, done>> \in (D \cup {n}) \X Seq(N) /\ m \in N
      BY <2>2
    <3>2. w[<<m, done>>] = VisitedFirst(params, v, <<m, done>>)
      BY <2>3, <3>1
    <3>3. IsFiniteSet(Above(params, m)) /\ \A c \in Above(params, m) : c \in D
      BY <1>2, <2>2, <3>1
    <3>4. /\ SetFold(v, done, Above(params, m)) \in Seq(N)
          /\ SetFold(w, done, Above(params, m)) = SetFold(v, done, Above(params, m))
      BY <2>4, <3>3, SetFoldSame
    <3>5. VisitedFirst(params, w, <<m, done>>) = VisitedFirst(params, v, <<m, done>>)
      BY <3>4 DEF VisitedFirst
    <3>6. Append(SetFold(v, done, Above(params, m)), m) \in Seq(N)
      BY <3>1, <3>4
    <3>7. VisitedFirst(params, v, <<m, done>>) \in Seq(N)
      BY <3>6 DEF VisitedFirst
    <3> QED
      BY <3>2, <3>5, <3>7
  <2>6. w = [p \in (D \cup {n}) \X Seq(N) |-> w[p]]
    BY <2>3
  <2>7. Visits(params, w, D \cup {n}) /\ Keeps(w, D \cup {n}, N)
    BY <1>1, <2>5, <2>6 DEF Visits, Keeps
  <2> QED
    BY <1>3, <2>2, <2>7
<1>6. N \in G
  <2>1. G \in SUBSET SUBSET Names(params)
    BY <1>1, <1>3
  <2> QED
    BY <1>1, <1>4, <1>5, <2>1, Climb
<1> QED
  BY <1>1, <1>3, <1>6

\* Visit is that solution.
LEMMA VisitIs ==
  ASSUME NEW params, params \in Seq(ToSet(params)), Arranged(params)
  PROVE  \E v : /\ Visits(params, v, Names(params))
                /\ \A n, done : Visit(params, n, done) = v[<<n, done>>]
<1> DEFINE N == Names(params)
           Made(v) == v = [p \in N \X Seq(N) |->
                             LET n == p[1]
                                 done == p[2]
                             IN  IF n \in ToSet(done) THEN done
                                 ELSE Append(SetFold(v, done, DOMAIN Named(params, n).when), n)]
<1>1. PICK v : Visits(params, v, N)
  BY VisitExists
<1>2. Made(v)
  <2>1. ASSUME NEW p \in N \X Seq(N) PROVE v[p] = VisitedFirst(params, v, p)
    <3>1. PICK n \in N, done \in Seq(N) : p = <<n, done>>
      OBVIOUS
    <3> QED
      BY <1>1, <3>1 DEF Visits
  <2>2. v = [p \in N \X Seq(N) |-> v[p]]
    BY <1>1 DEF Visits
  <2> QED
    BY <2>1, <2>2 DEF VisitedFirst, Above
<1>3. PICK w : w = CHOOSE u : Made(u)
  OBVIOUS
<1>4. Made(w)
  <2> HIDE DEF Made
  <2> QED
    BY <1>2, <1>3
<1>5. \A n, done : Visit(params, n, done) = w[<<n, done>>]
  BY <1>3 DEF Visit, FoldSet, MapThenFoldSet, SetFold
<1>6. Visits(params, w, N)
  <2>1. w = [p \in N \X Seq(N) |-> w[p]]
    BY <1>4
  <2>2. ASSUME NEW n \in N, NEW done \in Seq(N)
        PROVE  w[<<n, done>>] = VisitedFirst(params, w, <<n, done>>)
    <3>1. <<n, done>> \in N \X Seq(N)
      OBVIOUS
    <3> QED
      BY <1>4, <3>1 DEF VisitedFirst, Above
  <2> QED
    BY <2>1, <2>2 DEF Visits
<1> QED
  BY <1>5, <1>6

\* Names in an order in which controllers come first, each once.
Sorted(params, q) ==
  /\ q \in Seq(Names(params))
  /\ \A i, j \in 1..Len(q) : q[i] = q[j] => i = j
  /\ \A i \in 1..Len(q) : \A c \in Above(params, q[i]) : \E j \in 1..(i - 1) : q[j] = c

VisitedMore(params, D, q, r) ==
  Sorted(params, r) /\ ToSet(q) \subseteq ToSet(r) /\ ToSet(r) \subseteq ToSet(q) \cup D

\* A parameter whose controllers come before can be put at the end.
LEMMA Appended ==
  ASSUME NEW params, NEW q, Sorted(params, q), NEW n \in Names(params), n \notin ToSet(q),
         Above(params, n) \subseteq ToSet(q)
  PROVE  Sorted(params, Append(q, n)) /\ ToSet(Append(q, n)) = ToSet(q) \cup {n}
<1>1. PICK l \in Nat : l = Len(q) /\ DOMAIN q = 1..l
  BY DEF Sorted
<1>2. PICK r : r = Append(q, n)
  OBVIOUS
<1>3. /\ r \in Seq(Names(params)) /\ Len(r) = l + 1 /\ DOMAIN r = 1..(l + 1)
      /\ r[l + 1] = n /\ \A i \in 1..l : r[i] = q[i]
  BY <1>1, <1>2 DEF Sorted
<1>4. ToSet(q) = {q[i] : i \in 1..l} /\ ToSet(r) = {r[i] : i \in 1..(l + 1)}
  BY <1>1, <1>3 DEF ToSet
<1>5. ToSet(r) = ToSet(q) \cup {n}
  <2>1. \A i \in 1..(l + 1) : i \in 1..l \/ i = l + 1
    OBVIOUS
  <2>2. \A i \in 1..l : i \in 1..(l + 1)
    OBVIOUS
  <2>3. l + 1 \in 1..(l + 1)
    OBVIOUS
  <2> QED
    BY <1>3, <1>4, <2>1, <2>2, <2>3
<1>6. ASSUME NEW i \in 1..(l + 1), NEW j \in 1..(l + 1), r[i] = r[j] PROVE i = j
  <2>1. \A k \in 1..(l + 1) : k \in 1..l \/ k = l + 1
    OBVIOUS
  <2>2. \A k \in 1..l : q[k] # n
    BY <1>4
  <2> QED
    BY <1>1, <1>3, <1>6, <2>1, <2>2 DEF Sorted
<1>7. ASSUME NEW i \in 1..(l + 1), NEW c \in Above(params, r[i])
      PROVE  \E j \in 1..(i - 1) : r[j] = c
  <2>1. CASE i \in 1..l
    <3>1. r[i] = q[i]
      BY <1>3, <2>1
    <3>2. PICK j \in 1..(i - 1) : q[j] = c
      BY <1>1, <1>7, <2>1, <3>1 DEF Sorted
    <3>3. j \in 1..l
      BY <2>1
    <3> QED
      BY <1>3, <3>2, <3>3
  <2>2. CASE i = l + 1
    <3>1. c \in ToSet(q)
      BY <1>3, <1>7, <2>2
    <3>2. PICK j \in 1..l : q[j] = c
      BY <1>4, <3>1
    <3> QED
      BY <1>3, <2>2, <3>2
  <2> QED
    BY <2>1, <2>2
<1> QED
  BY ZenonT(30), <1>2, <1>3, <1>5, <1>6, <1>7 DEF Sorted

\* A visit puts a parameter, and what it hangs on, after what was visited.
LEMMA VisitGrows ==
  ASSUME NEW params, params \in Seq(ToSet(params)), Arranged(params),
         NEW v, Visits(params, v, Names(params))
  PROVE  \A n \in Names(params), q \in Seq(Names(params)) : Sorted(params, q) =>
           /\ VisitedMore(params, Names(params), q, v[<<n, q>>])
           /\ n \in ToSet(v[<<n, q>>])
<1>1. PICK N : N = Names(params)
  OBVIOUS
<1>2. \A n \in N : Above(params, n) \in SUBSET N /\ IsFiniteSet(Above(params, n))
  BY <1>1, SpaceIs
<1>3. PICK G : G = {D \in SUBSET N : \A n \in D, q \in Seq(N) : Sorted(params, q) =>
                      VisitedMore(params, D, q, v[<<n, q>>]) /\ n \in ToSet(v[<<n, q>>])}
  OBVIOUS
<1>4. \A n \in N, q \in Seq(N) : v[<<n, q>>] = VisitedFirst(params, v, <<n, q>>)
  BY <1>1 DEF Visits
<1>5. ASSUME NEW D \in G, NEW n \in N \ D, Above(params, n) \subseteq D,
             NEW q \in Seq(N), Sorted(params, q)
      PROVE  VisitedMore(params, D \cup {n}, q, v[<<n, q>>]) /\ n \in ToSet(v[<<n, q>>])
  <2>1. CASE n \in ToSet(q)
    <3>1. v[<<n, q>>] = q
      BY <1>4, <2>1 DEF VisitedFirst
    <3> QED
      BY <1>5, <2>1, <3>1 DEF VisitedMore
  <2>2. CASE n \notin ToSet(q)
    <3>1. PICK S : S = Above(params, n)
      OBVIOUS
    <3>2. IsFiniteSet(S) /\ S \subseteq D /\ S \in SUBSET S
      BY <1>2, <1>5, <3>1
    <3>3. Picks(Chosen(S), S)
      BY <3>2, SetFoldIs
    <3>4. PICK f : Folds(f, SUBSET S, Chosen(S), v, q) /\ SetFold(v, q, S) = f[S]
      BY <3>2, SetFoldIs
    <3>5. PICK ch : ch = Chosen(S)
      OBVIOUS
    <3>6. PICK I : I = [s \in SUBSET S |-> {x \in Seq(N) : VisitedMore(params, D, q, x)
                                                           /\ s \subseteq ToSet(x)}]
      OBVIOUS
    <3>7. \A s \in SUBSET S : f[s] = IF s = {} THEN q ELSE v[<<ch[s], f[s \ {ch[s]}]>>]
      BY <3>4, <3>5 DEF Folds
    <3>8. f[{}] \in I[{}]
      BY <1>5, <3>6, <3>7 DEF VisitedMore
    <3>9. ASSUME NEW s \in (SUBSET S) \ {{}}, f[s \ {ch[s]}] \in I[s \ {ch[s]}]
          PROVE  f[s] \in I[s]
      <4>1. PICK t : t = s \ {ch[s]}
        OBVIOUS
      <4>2. PICK c \in S : c = ch[s] /\ t \in SUBSET S /\ s = t \cup {c}
        BY <3>3, <3>5, <4>1 DEF Picks
      <4>3. PICK x \in Seq(N) : x = f[t] /\ VisitedMore(params, D, q, x) /\ t \subseteq ToSet(x)
        BY <3>6, <3>9, <4>1, <4>2
      <4>4. PICK y : y = v[<<c, x>>]
        OBVIOUS
      <4>5. f[s] = y
        BY <3>7, <4>1, <4>2, <4>3, <4>4
      <4>6. c \in D /\ Sorted(params, x)
        BY <3>2, <4>3 DEF VisitedMore
      <4>7. VisitedMore(params, D, x, y) /\ c \in ToSet(y)
        BY <1>3, <4>4, <4>6
      <4>8. VisitedMore(params, D, q, y) /\ y \in Seq(N) /\ s \subseteq ToSet(y)
        BY <1>1, <4>2, <4>3, <4>7 DEF VisitedMore, Sorted
      <4> QED
        BY <3>6, <4>5, <4>8
    <3>10. f[S] \in I[S]
      BY <3>2, <3>3, <3>5, <3>8, <3>9, SetsGrow
    <3>11. PICK x \in Seq(N) : x = f[S] /\ VisitedMore(params, D, q, x) /\ S \subseteq ToSet(x)
      BY <3>6, <3>10
    <3>12. v[<<n, q>>] = Append(x, n)
      <4>1. v[<<n, q>>] = VisitedFirst(params, v, <<n, q>>) /\ n \in N
        BY <1>4
      <4>2. VisitedFirst(params, v, <<n, q>>) = Append(SetFold(v, q, S), n)
        BY <2>2, <3>1 DEF VisitedFirst
      <4> QED
        BY <3>4, <3>11, <4>1, <4>2
    <3>13. n \notin ToSet(x) /\ Sorted(params, x)
      BY <2>2, <3>11 DEF VisitedMore
    <3>14. Sorted(params, Append(x, n)) /\ ToSet(Append(x, n)) = ToSet(x) \cup {n}
      BY <1>1, <3>1, <3>11, <3>13, Appended
    <3> QED
      BY <3>11, <3>12, <3>14 DEF VisitedMore
  <2> QED
    BY <2>1, <2>2
<1>6. ASSUME NEW D \in G, NEW n \in N \ D, Above(params, n) \subseteq D
      PROVE  D \cup {n} \in G
  <2>1. ASSUME NEW m \in D, NEW q \in Seq(N), Sorted(params, q)
        PROVE  VisitedMore(params, D \cup {n}, q, v[<<m, q>>]) /\ m \in ToSet(v[<<m, q>>])
    <3>1. VisitedMore(params, D, q, v[<<m, q>>]) /\ m \in ToSet(v[<<m, q>>])
      BY <1>3, <2>1
    <3> QED
      BY <3>1 DEF VisitedMore
  <2>2. \A q \in Seq(N) : Sorted(params, q) =>
          VisitedMore(params, D \cup {n}, q, v[<<n, q>>]) /\ n \in ToSet(v[<<n, q>>])
    BY <1>5, <1>6
  <2>3. D \cup {n} \in SUBSET N
    BY <1>3
  <2> QED
    BY <1>3, <2>1, <2>2, <2>3
<1>7. N \in G
  <2>1. G \in SUBSET SUBSET Names(params) /\ {} \in G
    BY <1>1, <1>3
  <2> QED
    BY <1>1, <1>6, <2>1, Climb
<1> QED
  BY <1>1, <1>3, <1>7

\* What Order is, of as many parameters as have been visited.
Orders(params, v, ch, f) ==
  /\ f[{}] = <<>>
  /\ \A s \in (SUBSET DOMAIN params) \ {{}} :
       f[s \ {ch[s]}] \in Seq(Names(params)) =>
         f[s] = v[<<params[ch[s]].name, f[s \ {ch[s]}]>>]

\* So do visits of parameters one after the other.
LEMMA OrderSorts ==
  ASSUME NEW params, params \in Seq(ToSet(params)), Arranged(params),
         NEW v, Visits(params, v, Names(params)),
         NEW ch, Picks(ch, DOMAIN params), NEW f, Orders(params, v, ch, f)
  PROVE  \A s \in SUBSET DOMAIN params :
           Sorted(params, f[s]) /\ {params[i].name : i \in s} \subseteq ToSet(f[s])
<1>1. PICK N : N = Names(params)
  OBVIOUS
<1>2. PICK S : S = DOMAIN params /\ IsFiniteSet(S) /\ \A i \in S : params[i].name \in N
  <2>1. /\ DOMAIN params = 1..Len(params) /\ Len(params) \in Nat
        /\ \A i \in DOMAIN params : params[i].name \in N
    BY <1>1, SpaceIs
  <2>2. IsFiniteSet(1..Len(params))
    BY <2>1, FS_Interval
  <2> QED
    BY <2>1, <2>2
<1>3. PICK I : I = [s \in SUBSET S |-> {x \in Seq(N) : Sorted(params, x)
                                         /\ {params[i].name : i \in s} \subseteq ToSet(x)}]
  OBVIOUS
<1>4. /\ f[{}] = <<>>
      /\ \A s \in (SUBSET S) \ {{}} :
           f[s \ {ch[s]}] \in Seq(N) => f[s] = v[<<params[ch[s]].name, f[s \ {ch[s]}]>>]
  BY <1>1, <1>2 DEF Orders
<1>5. f[{}] \in I[{}]
  <2>1. <<>> \in Seq(N) /\ Len(<<>>) = 0
    OBVIOUS
  <2>2. Sorted(params, <<>>)
    BY <1>1, <2>1 DEF Sorted
  <2> QED
    BY <1>4, <1>3, <2>1, <2>2
<1>6. ASSUME NEW s \in (SUBSET S) \ {{}}, f[s \ {ch[s]}] \in I[s \ {ch[s]}]
      PROVE  f[s] \in I[s]
  <2>1. PICK t : t = s \ {ch[s]}
    OBVIOUS
  <2>2. PICK i \in S : i = ch[s] /\ t \in SUBSET S /\ s = t \cup {i}
    BY <1>2, <2>1 DEF Picks
  <2>3. PICK x \in Seq(N) : /\ x = f[t] /\ Sorted(params, x)
                            /\ {params[j].name : j \in t} \subseteq ToSet(x)
    BY <1>3, <1>6, <2>1, <2>2
  <2>4. PICK n \in N : n = params[i].name
    BY <1>2
  <2>5. PICK y : y = v[<<n, x>>]
    OBVIOUS
  <2>6. f[s] = y
    BY <1>4, <2>1, <2>2, <2>3, <2>4, <2>5
  <2>7. VisitedMore(params, N, x, y) /\ n \in ToSet(y)
    BY <1>1, <2>3, <2>4, <2>5, VisitGrows
  <2>8. Sorted(params, y) /\ ToSet(x) \subseteq ToSet(y) /\ y \in Seq(N)
    BY <1>1, <2>7 DEF VisitedMore, Sorted
  <2>9. {params[j].name : j \in s} \subseteq ToSet(y)
    BY <2>2, <2>3, <2>4, <2>7, <2>8
  <2> QED
    BY <1>3, <2>6, <2>8, <2>9
<1>7. \A s \in SUBSET S : f[s] \in I[s]
  BY <1>2, <1>5, <1>6, SetsGrow
<1> QED
  BY <1>2, <1>3, <1>7

\* The order has every parameter once, after what it hangs on.
LEMMA OrderIs ==
  ASSUME NEW params, params \in Seq(ToSet(params)), Arranged(params)
  PROVE  /\ Sorted(params, Order(params)) /\ ToSet(Order(params)) = Names(params)
         /\ Len(Order(params)) = Len(params)
<1> DEFINE N == Names(params)
           S == DOMAIN params
           Made(f) == f = [s \in SUBSET S |-> IF s = {} THEN <<>>
                             ELSE LET x == Max(s)
                                  IN  Visit(params, params[x].name, f[s \ {x}])]
<1>1. PICK v : /\ Visits(params, v, N)
               /\ \A n, done : Visit(params, n, done) = v[<<n, done>>]
  BY VisitIs
<1>2. /\ IsFiniteSet(S) /\ S \in SUBSET Int /\ S = 1..Len(params) /\ Len(params) \in Nat
      /\ \A i \in S : params[i].name \in N
  <2>1. /\ S = 1..Len(params) /\ Len(params) \in Nat
        /\ \A i \in S : params[i].name \in N
    BY SpaceIs
  <2>2. IsFiniteSet(1..Len(params))
    BY <2>1, FS_Interval
  <2> QED
    BY <2>1, <2>2
<1>3. \A s \in (SUBSET S) \ {{}} : Max(s) \in s
  <2>1. ASSUME NEW s \in (SUBSET S) \ {{}} PROVE Max(s) \in s
    <3>1. IsFiniteSet(s) /\ s \subseteq Int /\ s # {}
      BY <1>2, FS_Subset
    <3> QED
      BY <3>1, MaxIs
  <2> QED
    BY <2>1
<1>4. PICK ch : ch = [s \in (SUBSET S) \ {{}} |-> Max(s)]
  OBVIOUS
<1>5. Picks(ch, S)
  BY <1>3, <1>4 DEF Picks
<1>6. \E f : Made(f)
  <2>1. PICK w : w = [p \in S \X Seq(N) |-> v[<<params[p[1]].name, p[2]>>]]
    OBVIOUS
  <2>2. PICK g : Folds(g, SUBSET S, ch, w, <<>>)
    BY <1>2, <1>5, FoldExists
  <2>3. g[{}] = <<>>
    BY <2>2 DEF Folds
  <2>4. ASSUME NEW s \in (SUBSET S) \ {{}}, g[s \ {ch[s]}] \in Seq(N)
        PROVE  g[s] = v[<<params[ch[s]].name, g[s \ {ch[s]}]>>]
    <3>1. PICK x \in Seq(N) : x = g[s \ {ch[s]}]
      BY <2>4
    <3>2. ch[s] \in S
      BY <1>5 DEF Picks
    <3>3. <<ch[s], x>> \in S \X Seq(N)
      BY <3>2
    <3>4. g[s] = w[<<ch[s], x>>]
      BY <2>2, <3>1 DEF Folds
    <3> QED
      BY <2>1, <3>1, <3>3, <3>4
  <2>5. \A s \in SUBSET S : Sorted(params, g[s])
    <3>1. Orders(params, v, ch, g)
      BY <2>3, <2>4 DEF Orders
    <3> HIDE DEF S
    <3>2. Picks(ch, DOMAIN params)
      BY <1>5 DEF S
    <3>3. \A s \in SUBSET DOMAIN params : Sorted(params, g[s])
      BY <1>1, <3>1, <3>2, OrderSorts
    <3> QED
      BY <3>3 DEF S
  <2>6. ASSUME NEW s \in SUBSET S
        PROVE  g[s] = IF s = {} THEN <<>>
                      ELSE LET x == Max(s) IN Visit(params, params[x].name, g[s \ {x}])
    <3>1. CASE s = {}
      BY <2>3, <3>1
    <3>2. CASE s # {}
      <4>1. PICK x : x = Max(s) /\ x = ch[s]
        BY <1>4, <3>2
      <4>2. g[s \ {x}] \in Seq(N)
        BY <2>5 DEF Sorted
      <4>3. g[s] = v[<<params[x].name, g[s \ {x}]>>]
        BY <2>4, <3>2, <4>1, <4>2
      <4> QED
        BY <1>1, <3>2, <4>1, <4>3
    <3> QED
      BY <3>1, <3>2
  <2>7. g = [s \in SUBSET S |-> g[s]]
    BY <2>2 DEF Folds
  <2> QED
    BY <2>6, <2>7
<1>7. PICK f : f = CHOOSE u : Made(u)
  OBVIOUS
<1>8. Made(f)
  <2> HIDE DEF Made
  <2> QED
    BY <1>6, <1>7
<1>9. Order(params) = f[S]
  BY <1>7 DEF Order, FoldLeft, MapThenFoldSet
<1>10. Orders(params, v, ch, f)
  <2>1. f[{}] = <<>>
    BY <1>8
  <2>2. ASSUME NEW s \in (SUBSET DOMAIN params) \ {{}}
        PROVE  f[s] = v[<<params[ch[s]].name, f[s \ {ch[s]}]>>]
    <3>1. f[s] = Visit(params, params[Max(s)].name, f[s \ {Max(s)}])
      BY <1>8
    <3>2. ch[s] = Max(s)
      BY <1>4
    <3> QED
      BY <1>1, <3>1, <3>2
  <2> QED
    BY <2>1, <2>2 DEF Orders
<1>11. Sorted(params, f[S]) /\ {params[i].name : i \in S} \subseteq ToSet(f[S])
  <2>1. Picks(ch, DOMAIN params)
    BY <1>5
  <2>2. \A s \in SUBSET DOMAIN params :
          Sorted(params, f[s]) /\ {params[i].name : i \in s} \subseteq ToSet(f[s])
    BY <1>1, <1>10, <2>1, OrderSorts
  <2> QED
    BY <2>2
<1>12. PICK q \in Seq(N) : q = Order(params) /\ Sorted(params, q) /\ N \subseteq ToSet(q)
  <2>1. PICK q : q = f[S]
    OBVIOUS
  <2>2. q \in Seq(N) /\ q = Order(params) /\ Sorted(params, q)
    BY ZenonT(30), <1>9, <1>11, <2>1 DEF Sorted
  <2>3. N = {params[i].name : i \in S}
    BY DEF Names, ToSet
  <2> QED
    BY <1>11, <2>1, <2>2, <2>3
<1>13. ToSet(q) = N /\ DOMAIN q = 1..Len(q) /\ Len(q) \in Nat
  BY <1>12 DEF ToSet
<1>14. PICK l \in Nat : l = Len(q) /\ DOMAIN q = 1..l
  BY <1>13
<1>15. q \in Bijection(1..l, N)
  <2>1. q \in [1..l -> N]
    BY <1>12, <1>14
  <2>2. \A n \in N : \E i \in 1..l : q[i] = n
    BY <1>13, <1>14 DEF ToSet
  <2>3. \A i, j \in 1..l : q[i] = q[j] => i = j
    BY <1>12, <1>14 DEF Sorted
  <2> QED
    BY <2>1, <2>2, <2>3 DEF Bijection, Injection, IsInjective, Surjection
<1>16. Cardinality(1..l) = l /\ IsFiniteSet(1..l)
  BY FS_Interval
<1>17. Cardinality(N) = l
  <2>1. ExistsBijection(1..l, N)
    BY <1>15 DEF ExistsBijection
  <2> QED
    BY <1>16, <2>1, FS_Bijection
<1> QED
  BY <1>12, <1>13, <1>14, <1>17, SpaceIs

-----------------------------------------------------------------------------
(* What tightening leaves of a range.                                       *)

ContractIs(params, rules) ==
  /\ params \in Seq(ToSet(params)) /\ rules \in Seq(ToSet(rules))
  /\ \A p \in ToSet(params) :
       p \in [name : STRING, type : STRING, lo : Int, hi : Int, when : {p.when}]
  /\ \A r \in BoundRules(rules) :
       IsFiniteSet(r.min \cup r.max) /\ r.min \cup r.max \subseteq Int

\* The bounds that rules put on a parameter are finitely many integers.
LEMMA BoundsAre ==
  ASSUME NEW params, NEW rules, ContractIs(params, rules), NEW n
  PROVE  /\ IsFiniteSet(MinsOf(rules, n)) /\ MinsOf(rules, n) \subseteq Int
         /\ IsFiniteSet(MaxsOf(rules, n)) /\ MaxsOf(rules, n) \subseteq Int
<1>1. PICK B : B = {b \in BoundRules(rules) : b.param = n}
  OBVIOUS
<1>2. IsFiniteSet(B)
  <2>1. PICK l \in Nat : l = Len(rules) /\ DOMAIN rules = 1..l
    BY SMTT(30) DEF ContractIs
  <2>2. IsFiniteSet(1..l)
    BY FS_Interval
  <2>3. ToSet(rules) = {rules[i] : i \in 1..l}
    BY <2>1 DEF ToSet
  <2>4. PICK f : f = [i \in 1..l |-> rules[i]]
    OBVIOUS
  <2>5. f \in Surjection(1..l, ToSet(rules))
    BY <2>3, <2>4 DEF Surjection
  <2>6. IsFiniteSet(ToSet(rules))
    BY <2>2, <2>5, FS_Surjection
  <2> QED
    BY <1>1, <2>6, FS_Subset DEF BoundRules
<1>3. \A r \in B : /\ IsFiniteSet(r.min) /\ r.min \subseteq Int
                   /\ IsFiniteSet(r.max) /\ r.max \subseteq Int
  <2>1. ASSUME NEW r \in B
        PROVE  /\ IsFiniteSet(r.min) /\ r.min \subseteq Int
               /\ IsFiniteSet(r.max) /\ r.max \subseteq Int
    <3>1. IsFiniteSet(r.min \cup r.max) /\ r.min \cup r.max \subseteq Int
      BY <1>1 DEF ContractIs
    <3>2. r.min \subseteq r.min \cup r.max /\ r.max \subseteq r.min \cup r.max
      OBVIOUS
    <3> QED
      BY <3>1, <3>2, FS_Subset
  <2> QED
    BY <2>1
<1>4. IsFiniteSet({r.min : r \in B}) /\ IsFiniteSet({r.max : r \in B})
  <2>1. PICK f : f = [r \in B |-> r.min]
    OBVIOUS
  <2>2. f \in Surjection(B, {r.min : r \in B})
    BY <2>1 DEF Surjection
  <2>3. PICK g : g = [r \in B |-> r.max]
    OBVIOUS
  <2>4. g \in Surjection(B, {r.max : r \in B})
    BY <2>3 DEF Surjection
  <2> QED
    BY <1>2, <2>2, <2>4, FS_Surjection
<1>5. IsFiniteSet(UNION {r.min : r \in B})
  BY <1>3, <1>4, FS_UNION
<1>6. IsFiniteSet(UNION {r.max : r \in B})
  BY <1>3, <1>4, FS_UNION
<1>7. MinsOf(rules, n) = UNION {r.min : r \in B} /\ MaxsOf(rules, n) = UNION {r.max : r \in B}
  BY <1>1 DEF MinsOf, MaxsOf
<1> QED
  BY <1>3, <1>5, <1>6, <1>7

\* Inverts, of any rules.
Crosses(p, rules) ==
  \/ MaxsOf(rules, p.name) = {} /\ \E v \in MinsOf(rules, p.name) : v > p.hi
  \/ MinsOf(rules, p.name) = {} /\ \E v \in MaxsOf(rules, p.name) : v < p.lo

Between(v, mins, maxs) == (\A m \in mins : m <= v) /\ \A m \in maxs : v <= m

\* Tightening changes nothing but the range, which becomes what lies between the bounds.
LEMMA TightenedIs ==
  ASSUME NEW params, NEW rules, ContractIs(params, rules),
         SpaceAccepted(params), RulesAccepted(rules, params), NEW p \in ToSet(params),
         NEW t, t = Tightened(p, rules)
  PROVE  /\ t.name = p.name /\ t.type = p.type /\ t.when = p.when
         /\ t.lo \in Int /\ t.hi \in Int /\ p.lo \in Int /\ p.hi \in Int /\ p.lo <= p.hi
         /\ p.type \notin Numeric => t.lo = p.lo /\ t.hi = p.hi
         /\ p.type \in Numeric =>
              /\ p.lo <= t.lo /\ t.hi <= p.hi
              /\ ~Crosses(p, rules) => t.lo <= t.hi
              /\ \A v \in p.lo..p.hi : v \in t.lo..t.hi
                   <=> Between(v, MinsOf(rules, p.name), MaxsOf(rules, p.name))
<1>1. /\ p \in [name : STRING, type : STRING, lo : Int, hi : Int, when : {p.when}]
      /\ p.lo <= p.hi
  BY DEF ContractIs, SpaceAccepted
<1>2. PICK mins, maxs : mins = MinsOf(rules, p.name) /\ maxs = MaxsOf(rules, p.name)
  OBVIOUS
<1>3. IsFiniteSet(mins) /\ mins \subseteq Int /\ IsFiniteSet(maxs) /\ maxs \subseteq Int
  BY <1>2, BoundsAre
<1>4. CASE p.type \notin Numeric
  <2>1. t = p
    BY <1>4 DEF Tightened
  <2> QED
    BY <1>1, <1>4, <2>1
<1>5. CASE p.type \in Numeric
  <2>1. PICK low, high : /\ low = (IF mins = {} THEN p.lo ELSE Max(mins))
                         /\ high = (IF maxs = {} THEN p.hi ELSE Min(maxs))
    OBVIOUS
  <2>2. t = [p EXCEPT !.lo = low, !.hi = high]
    BY <1>2, <1>5, <2>1 DEF Tightened
  <2>3. mins # {} => low \in mins /\ \A m \in mins : m <= low
    BY <1>3, <2>1, MaxIs
  <2>4. maxs # {} => high \in maxs /\ \A m \in maxs : high <= m
    BY <1>3, <2>1, MinIs
  <2>5. low \in Int /\ high \in Int
    BY <1>1, <1>3, <2>1, <2>3, <2>4
  <2>6. t.lo = low /\ t.hi = high /\ t.name = p.name /\ t.type = p.type /\ t.when = p.when
    BY <1>1, <2>2
  <2>7. (\A m \in mins : p.lo <= m) /\ (\A m \in maxs : m <= p.hi)
    <3>1. Named(params, p.name) = p
      BY SpaceIs, AcceptedArranged DEF ContractIs
    <3>2. ASSUME NEW r \in BoundRules(rules), r.param = p.name
          PROVE  (\A v \in r.min : v >= p.lo) /\ (\A v \in r.max : v <= p.hi)
      <4>1. r \in ToSet(rules) /\ r.kind = "bound"
        BY <3>2 DEF BoundRules
      <4>2. BoundAccepted(r, params)
        BY <4>1 DEF RulesAccepted
      <4> QED
        BY <3>1, <3>2, <4>2 DEF BoundAccepted
    <3> QED
      BY <1>1, <1>2, <1>3, <3>2 DEF MinsOf, MaxsOf
  <2>8. \A v \in mins, w \in maxs : v <= w
    <3>1. p.name \in Names(params)
      BY DEF Names
    <3> QED
      BY <1>2, <3>1 DEF RulesAccepted, TighteningAccepted
  <2>9. p.lo <= low /\ high <= p.hi
    BY <1>1, <2>1, <2>3, <2>4, <2>7
  <2>10. ~Crosses(p, rules) => low <= high
    <3>1. CASE mins = {} /\ maxs = {}
      BY <1>1, <2>1, <3>1
    <3>2. CASE mins # {} /\ maxs # {}
      BY <2>3, <2>4, <2>8, <3>2
    <3>3. CASE mins # {} /\ maxs = {}
      BY <1>1, <1>2, <1>3, <2>1, <2>3, <3>3 DEF Crosses
    <3>4. CASE mins = {} /\ maxs # {}
      BY <1>1, <1>2, <1>3, <2>1, <2>4, <3>4 DEF Crosses
    <3> QED
      BY <3>1, <3>2, <3>3, <3>4
  <2>11. ASSUME NEW v \in p.lo..p.hi PROVE v \in low..high <=> Between(v, mins, maxs)
    <3>1. v \in Int /\ p.lo <= v /\ v <= p.hi
      BY <1>1
    <3>2. low <= v <=> \A m \in mins : m <= v
      <4>1. CASE mins = {}
        BY <2>1, <3>1, <4>1
      <4>2. CASE mins # {}
        BY <1>3, <2>3, <2>5, <3>1, <4>2
      <4> QED
        BY <4>1, <4>2
    <3>3. v <= high <=> \A m \in maxs : v <= m
      <4>1. CASE maxs = {}
        BY <2>1, <3>1, <4>1
      <4>2. CASE maxs # {}
        BY <1>3, <2>4, <2>5, <3>1, <4>2
      <4> QED
        BY <4>1, <4>2
    <3> QED
      BY <2>5, <3>1, <3>2, <3>3 DEF Between
  <2> QED
    BY <1>1, <1>2, <1>5, <2>5, <2>6, <2>9, <2>10, <2>11
<1> QED
  BY <1>4, <1>5

\* Tightening leaves exactly the values that the rules about the parameter allow.
LEMMA TightensExactly ==
  ASSUME NEW params, NEW rules, ContractIs(params, rules),
         SpaceAccepted(params), RulesAccepted(rules, params), NEW p \in ToSet(params),
         p.type \in Numeric, NEW v \in Declared(p),
         NEW at, DOMAIN at = {p.name}, at[p.name] = v
  PROVE  v \in Declared(Tightened(p, rules))
           <=> \A r \in BoundRules(rules) : ~BoundViolated(r, at)
<1>1. PICK t : t = Tightened(p, rules)
  OBVIOUS
<1>2. PICK mins, maxs : mins = MinsOf(rules, p.name) /\ maxs = MaxsOf(rules, p.name)
  OBVIOUS
<1>3. v \in t.lo..t.hi <=> Between(v, mins, maxs)
  BY <1>1, <1>2, TightenedIs DEF Declared
<1>4. v \in Int /\ mins \subseteq Int /\ maxs \subseteq Int
  <2>1. p.lo \in Int /\ p.hi \in Int
    BY DEF ContractIs
  <2> QED
    BY <1>2, <2>1, BoundsAre DEF Declared
<1>5. \A r \in BoundRules(rules) :
        BoundViolated(r, at) <=> /\ r.param = p.name
                                 /\ (\E m \in r.min : v < m) \/ \E m \in r.max : v > m
  BY DEF BoundViolated
<1>6. /\ mins = UNION {r.min : r \in {b \in BoundRules(rules) : b.param = p.name}}
      /\ maxs = UNION {r.max : r \in {b \in BoundRules(rules) : b.param = p.name}}
  BY <1>2 DEF MinsOf, MaxsOf
<1>7. Between(v, mins, maxs) <=> \A r \in BoundRules(rules) : ~BoundViolated(r, at)
  <2>1. ASSUME Between(v, mins, maxs), NEW r \in BoundRules(rules), BoundViolated(r, at)
        PROVE  FALSE
    BY <1>4, <1>5, <1>6, <2>1 DEF Between
  <2>2. ASSUME \A r \in BoundRules(rules) : ~BoundViolated(r, at) PROVE Between(v, mins, maxs)
    BY <1>4, <1>5, <1>6, <2>2 DEF Between
  <2> QED
    BY <2>1, <2>2
<1> QED
  BY <1>1, <1>3, <1>7 DEF Declared

-----------------------------------------------------------------------------
(* Points, parameter by parameter.                                          *)

\* Names of the parameters in their order, each once, controllers first.
LEMMA PlacesIn ==
  ASSUME NEW params, params \in Seq(ToSet(params)), Arranged(params)
  PROVE  /\ Len(params) \in Nat /\ Len(Order(params)) = Len(params)
         /\ Names(params) = {Order(params)[i] : i \in 1..Len(params)}
         /\ OrderedParams(params) = [i \in 1..Len(params) |-> Named(params, Order(params)[i])]
         /\ \A i \in 1..Len(params) :
              /\ Order(params)[i] \in Names(params)
              /\ Named(params, Order(params)[i]) \in ToSet(params)
              /\ Named(params, Order(params)[i]).name = Order(params)[i]
              /\ \A c \in DOMAIN Named(params, Order(params)[i]).when :
                   \E j \in 1..(i - 1) : Order(params)[j] = c
         /\ \A i, j \in 1..Len(params) : Order(params)[i] = Order(params)[j] => i = j
<1>1. params \in Seq(ToSet(params)) /\ Arranged(params)
  OBVIOUS
<1>2. /\ Sorted(params, Order(params)) /\ ToSet(Order(params)) = Names(params)
      /\ Len(Order(params)) = Len(params)
  BY <1>1, OrderIs
<1>3. PICK q, l : q = Order(params) /\ l = Len(params)
  OBVIOUS
<1>4. l \in Nat
  BY <1>1, <1>3
<1>5. /\ q \in Seq(Names(params)) /\ Len(q) = l /\ DOMAIN q = 1..l
      /\ \A i, j \in 1..l : q[i] = q[j] => i = j
      /\ \A i \in 1..l : \A c \in Above(params, q[i]) : \E j \in 1..(i - 1) : q[j] = c
  BY <1>2, <1>3, <1>4 DEF Sorted
<1>6. Names(params) = {q[i] : i \in 1..l}
  BY <1>2, <1>3, <1>5 DEF ToSet
<1>7. \A n \in Names(params) : Named(params, n) \in ToSet(params) /\ Named(params, n).name = n
  BY <1>1, SpaceIs
<1>8. OrderedParams(params) = [i \in 1..l |-> Named(params, q[i])]
  BY <1>3, <1>5 DEF OrderedParams
<1>9. \A i \in 1..l : q[i] \in Names(params)
  BY <1>6
<1> QED
  BY <1>3, <1>4, <1>5, <1>6, <1>7, <1>8, <1>9 DEF Above

\* A point of which the first k parameters were visited; those of `free` may have any value.
PointTo(at, params, k, free) ==
  /\ at = [n \in DOMAIN at |-> at[n]]
  /\ DOMAIN at \subseteq {Order(params)[i] : i \in 1..k}
  /\ \A i \in 1..k :
       Order(params)[i] \in DOMAIN at <=> IsActive(Named(params, Order(params)[i]), at)
  /\ \A n \in DOMAIN at : at[n] \in Declared(Named(params, n)) \/ n \in free

FullPoint(at, params, free) ==
  /\ at = [n \in DOMAIN at |-> at[n]]
  /\ DOMAIN at \subseteq Names(params)
  /\ \A n \in Names(params) : n \in DOMAIN at <=> IsActive(Named(params, n), at)
  /\ \A n \in DOMAIN at : at[n] \in Declared(Named(params, n)) \/ n \in free

\* Once all parameters are visited, a point is complete.
LEMMA FullWhenVisited ==
  ASSUME NEW params, params \in Seq(ToSet(params)), Arranged(params), NEW at, NEW free,
         PointTo(at, params, Len(params), free)
  PROVE  FullPoint(at, params, free)
<1>1. PICK q, l : q = Order(params) /\ l = Len(params)
  OBVIOUS
<1>2. Names(params) = {q[i] : i \in 1..l}
  BY <1>1, PlacesIn
<1>3. \A i \in 1..l : q[i] \in DOMAIN at <=> IsActive(Named(params, q[i]), at)
  BY <1>1 DEF PointTo
<1> QED
  BY <1>1, <1>2, <1>3 DEF PointTo, FullPoint

\* A parameter that is active gets a value of its range, and one that is not gets none.
LEMMA VisitGoesOn ==
  ASSUME NEW params, params \in Seq(ToSet(params)), Arranged(params), NEW free,
         NEW k \in Nat, k < Len(params), NEW at, PointTo(at, params, k, free),
         NEW p, p = Named(params, Order(params)[k + 1])
  PROVE  /\ ~IsActive(p, at) => PointTo(at, params, k + 1, free)
         /\ \A v : IsActive(p, at) /\ (v \in Declared(p) \/ p.name \in free)
              => PointTo(WithParam(at, p.name, v), params, k + 1, free)
<1> DEFINE q == Order(params)
           l == Len(params)
<1>1. q = Order(params) /\ l = Len(params)
  OBVIOUS
<1>2. /\ l \in Nat /\ \A i, j \in 1..l : q[i] = q[j] => i = j
      /\ \A i \in 1..l : Named(params, q[i]).name = q[i]
      /\ \A i \in 1..l : \A c \in DOMAIN Named(params, q[i]).when : \E j \in 1..(i - 1) : q[j] = c
  BY PlacesIn
<1> HIDE DEF q, l
<1>3. /\ k + 1 \in 1..l /\ (\A i \in 1..k : i \in 1..(k + 1) /\ i \in 1..l /\ i # k + 1)
      /\ \A i \in 1..(k + 1) : i \in 1..k \/ i = k + 1
  BY <1>1, <1>2
<1>4. p = Named(params, q[k + 1]) /\ p.name = q[k + 1]
  BY <1>1, <1>2, <1>3
<1>5. /\ DOMAIN at \subseteq {q[i] : i \in 1..k}
      /\ \A i \in 1..k : q[i] \in DOMAIN at <=> IsActive(Named(params, q[i]), at)
      /\ \A n \in DOMAIN at : at[n] \in Declared(Named(params, n)) \/ n \in free
  BY <1>1 DEF PointTo
<1>6. q[k + 1] \notin DOMAIN at
  BY <1>2, <1>3, <1>5
<1>7. /\ {q[i] : i \in 1..k} \subseteq {q[i] : i \in 1..(k + 1)}
      /\ q[k + 1] \in {q[i] : i \in 1..(k + 1)}
  BY <1>3
<1>8. ASSUME ~IsActive(p, at) PROVE PointTo(at, params, k + 1, free)
  <2>1. \A i \in 1..(k + 1) : q[i] \in DOMAIN at <=> IsActive(Named(params, q[i]), at)
    BY <1>3, <1>4, <1>5, <1>6, <1>8
  <2> QED
    BY <1>1, <1>5, <1>7, <2>1 DEF PointTo
<1>9. ASSUME NEW v, IsActive(p, at), v \in Declared(p) \/ p.name \in free
      PROVE  PointTo(WithParam(at, p.name, v), params, k + 1, free)
  <2>1. PICK new : new = WithParam(at, p.name, v)
    OBVIOUS
  <2>2. /\ DOMAIN new = DOMAIN at \cup {p.name} /\ new[p.name] = v
        /\ \A n \in DOMAIN at : new[n] = at[n]
        /\ new = [n \in DOMAIN new |-> new[n]]
    BY <1>4, <1>6, <2>1 DEF WithParam
  <2>3. ASSUME NEW i \in 1..(k + 1) PROVE IsActive(Named(params, q[i]), new)
                                          <=> IsActive(Named(params, q[i]), at)
    <3>1. ASSUME NEW c \in DOMAIN Named(params, q[i]).when PROVE c # p.name
      <4>1. PICK j \in 1..(i - 1) : q[j] = c
        BY <1>2, <1>3
      <4>2. j \in 1..l /\ j # k + 1
        BY <1>3
      <4> QED
        BY <1>2, <1>3, <1>4, <4>1, <4>2
    <3>2. \A c \in DOMAIN Named(params, q[i]).when :
            (c \in DOMAIN new <=> c \in DOMAIN at) /\ (c \in DOMAIN at => new[c] = at[c])
      BY <2>2, <3>1
    <3> QED
      BY <3>2 DEF IsActive
  <2>4. \A i \in 1..(k + 1) : q[i] \in DOMAIN new <=> IsActive(Named(params, q[i]), new)
    <3>1. \A i \in 1..k : q[i] # p.name
      BY <1>2, <1>3, <1>4
    <3> QED
      BY <1>3, <1>4, <1>5, <1>9, <2>2, <2>3, <3>1
  <2>5. \A n \in DOMAIN new : new[n] \in Declared(Named(params, n)) \/ n \in free
    <3>1. Named(params, p.name) = p
      BY <1>4
    <3> QED
      BY <1>5, <1>9, <2>2, <3>1
  <2>6. DOMAIN new \subseteq {q[i] : i \in 1..(k + 1)}
    BY <1>4, <1>5, <1>7, <2>2
  <2> QED
    BY <1>1, <2>1, <2>2, <2>4, <2>5, <2>6 DEF PointTo
<1> QED
  BY <1>8, <1>9

\* What a point has of the first k parameters.
AtOnly(at, N) == [n \in N \cap DOMAIN at |-> at[n]]
Placed(params, k) == {Order(params)[i] : i \in 1..k}
Part(at, params, k) == AtOnly(at, Placed(params, k))

\* A point begins with no parameter and ends with all it has.
LEMMA PartEnds ==
  ASSUME NEW params, params \in Seq(ToSet(params)), Arranged(params), NEW at, NEW free,
         FullPoint(at, params, free)
  PROVE  Part(at, params, 0) = NoPoint /\ Part(at, params, Len(params)) = at
<1>1. Part(at, params, 0) = NoPoint
  <2>1. 1..0 = {}
    OBVIOUS
  <2> QED
    BY <2>1 DEF Part, AtOnly, Placed, NoPoint
<1>2. {Order(params)[i] : i \in 1..Len(params)} \cap DOMAIN at = DOMAIN at
  BY ZenonT(30), PlacesIn DEF FullPoint
<1> QED
  BY <1>1, <1>2 DEF Part, AtOnly, Placed, FullPoint

\* From one parameter to the next, a point gets the value it has for that one.
LEMMA PartGrows ==
  ASSUME NEW params, params \in Seq(ToSet(params)), Arranged(params), NEW at, NEW free,
         FullPoint(at, params, free), NEW k \in Nat, k < Len(params),
         NEW n, n = Order(params)[k + 1], NEW kept, kept = Part(at, params, k)
  PROVE  /\ n \in Names(params) /\ n \notin DOMAIN kept
         /\ IsActive(Named(params, n), kept) <=> n \in DOMAIN at
         /\ Part(at, params, k + 1) = IF n \in DOMAIN at THEN WithParam(kept, n, at[n]) ELSE kept
<1>1. PICK q, l : q = Order(params) /\ l = Len(params)
  OBVIOUS
<1>2. /\ l \in Nat /\ \A i, j \in 1..l : q[i] = q[j] => i = j
      /\ \A i \in 1..l : q[i] \in Names(params) /\ Named(params, q[i]).name = q[i]
      /\ \A i \in 1..l : \A c \in DOMAIN Named(params, q[i]).when : \E j \in 1..(i - 1) : q[j] = c
  <2>1. \A i \in 1..Len(params) :
          /\ Order(params)[i] \in Names(params)
          /\ Named(params, Order(params)[i]).name = Order(params)[i]
          /\ \A c \in DOMAIN Named(params, Order(params)[i]).when :
               \E j \in 1..(i - 1) : Order(params)[j] = c
    BY PlacesIn
  <2> QED
    BY SMTT(30), <1>1, <2>1, PlacesIn
<1>3. /\ k + 1 \in 1..l /\ \A i \in 1..k : i \in 1..l /\ i # k + 1
      /\ 1..(k + 1) = (1..k) \cup {k + 1}
  BY <1>1, <1>2
<1>4. DOMAIN kept = {q[i] : i \in 1..k} \cap DOMAIN at /\ \A m \in DOMAIN kept : kept[m] = at[m]
  BY <1>1 DEF Part, AtOnly, Placed
<1>5. IsActive(Named(params, n), kept) <=> n \in DOMAIN at
  <2>1. \A c \in DOMAIN Named(params, n).when : \E j \in 1..k : q[j] = c
    <3>1. n = q[k + 1]
      BY <1>1
    <3>2. PICK i \in 1..l : i = k + 1 /\ i - 1 = k
      BY <1>3
    <3> QED
      BY ZenonT(30), <1>2, <3>1, <3>2
  <2>2. \A c \in DOMAIN Named(params, n).when :
          (c \in DOMAIN kept <=> c \in DOMAIN at) /\ (c \in DOMAIN kept => kept[c] = at[c])
    BY <1>4, <2>1
  <2>3. n \in DOMAIN at <=> IsActive(Named(params, n), at)
    BY <1>1, <1>2, <1>3 DEF FullPoint
  <2> QED
    BY <2>2, <2>3 DEF IsActive
<1>6. PICK D, E : D = Placed(params, k) /\ E = Placed(params, k + 1) /\ E = D \cup {n}
  <2>1. Placed(params, k + 1) = Placed(params, k) \cup {n}
    BY <1>3 DEF Placed
  <2> QED
    BY <2>1
<1>7. ASSUME n \in DOMAIN at PROVE Part(at, params, k + 1) = WithParam(kept, n, at[n])
  <2>1. DOMAIN kept \cup {n} = E \cap DOMAIN at
    BY <1>6, <1>7 DEF Part, AtOnly
  <2>2. WithParam(kept, n, at[n]) = AtOnly(at, E)
    BY <1>6, <2>1 DEF WithParam, Part, AtOnly
  <2> QED
    BY <1>6, <1>7, <2>2 DEF Part
<1>8. ASSUME n \notin DOMAIN at PROVE Part(at, params, k + 1) = kept
  <2>1. AtOnly(at, E) = AtOnly(at, D)
    <3>1. E \cap DOMAIN at = D \cap DOMAIN at
      BY <1>6, <1>8
    <3> QED
      BY <3>1 DEF AtOnly
  <2> QED
    BY <1>6, <1>8, <2>1 DEF Part
<1>9. n \in Names(params) /\ n \notin DOMAIN kept
  BY <1>1, <1>2, <1>3, <1>4
<1> QED
  BY <1>5, <1>7, <1>8, <1>9

-----------------------------------------------------------------------------
(* Sampling.                                                                *)

Loaded == SpaceAccepted(Params) /\ RulesAccepted(Rules, Params)

Inverted == {n \in Names(Params) : Inverts(Named(Params, n))}
DrawnTo(at, k) == PointTo(at, Params, k, Inverted)

\* IsPoint, of a given space.
PointOf(at, params, rules) ==
  /\ at = [n \in DOMAIN at |-> at[n]]
  /\ DOMAIN at \subseteq Names(params)
  /\ \A p \in ToSet(params) :
       p.name \in DOMAIN at
         <=> \A c \in DOMAIN p.when : c \in DOMAIN at /\ at[c] \in p.when[c]
  /\ \A n \in DOMAIN at :
       at[n] \in Declared(Named(params, n)) \/ Crosses(Named(params, n), rules)

Tried ==
  /\ attempts \in 0..Budget /\ \E T : candidates \in Seq(T)
  /\ rejects \in [DOMAIN Rules -> Nat]
  /\ Len(candidates) <= attempts
  /\ attempts - Len(candidates) <= SumFunction(rejects)
  /\ \A i \in DOMAIN candidates : /\ PointOf(candidates[i], Params, Rules)
                                /\ Feasible(candidates[i], Rules)

Drawing ==
  /\ drawn \in 0..Len(Params) /\ DrawnTo(point, drawn) /\ attempts < Budget

SamplingInv ==
  /\ contract \in Contracts
  /\ stage \in {"loading", "invalid", "drawing", "raised", "sampled", "infeasible", "pending",
                "ingested", "mismatch"}
  /\ Tried
  /\ stage \in {"loading", "invalid"} => point = NoPoint /\ drawn = 0 /\ attempts = 0
  /\ stage \notin {"loading", "invalid"} => Loaded
  /\ stage = "drawing" => Drawing
  /\ stage = "raised" => \E p \in ToSet(Params) : Inverts(p)
  /\ stage \in {"sampled", "infeasible"} /\ candidates = <<>> => attempts = Budget
  /\ stage = "infeasible" => candidates = <<>>
  /\ stage = "pending" => offer \in ToSet(candidates)
  /\ stage = "mismatch" => \E n \in Names(Params) : Depth(Params, n) > 1

\* The points of the property are those of the declared space and rules.
LEMMA PointIs ==
  ASSUME NEW at
  PROVE  /\ PointOf(at, Params, Rules) => IsPoint(at)
         /\ IsPoint(at) /\ at = [n \in DOMAIN at |-> at[n]] => PointOf(at, Params, Rules)
<1>1. \A p : Inverts(p) = Crosses(p, Rules)
  BY DEF Inverts, Crosses
<1> QED
  BY <1>1 DEF IsPoint, PointOf

\* What the assumption says of a contract, part by part.
LEMMA ContractAccepted ==
  ASSUME contract \in Contracts
  PROVE  /\ ContractIs(Params, Rules) /\ Params \in Seq(ToSet(Params))
         /\ contract.target \in Nat \ {0} /\ Rules \in Seq(ToSet(Rules))
  BY DeclarationAssumption DEF ContractIs, Params, Rules

\* There are at least as many attempts as candidates asked for.
LEMMA BudgetIs ==
  ASSUME contract \in Contracts
  PROVE  /\ Budget \in Nat \ {0} /\ contract.target <= Budget
         /\ Rules = <<>> => Budget = contract.target
<1>1. contract.target \in Nat \ {0}
  BY ContractAccepted
<1>2. CASE Rules = <<>>
  BY <1>1, <1>2 DEF Budget
<1>3. CASE Rules # <<>>
  <2>1. PICK S : S = {contract.target, PoolSize, contract.target * 8}
    OBVIOUS
  <2>2. S \subseteq Nat /\ contract.target \in S
    <3>1. contract.target * 8 \in Nat
      BY <1>1
    <3> QED
      BY <1>1, <2>1, <3>1, PoolAssumption
  <2>3. IsFiniteSet(S)
    <3>1. S = ({contract.target} \cup {PoolSize}) \cup {contract.target * 8}
      BY <2>1
    <3> QED
      BY <3>1, FS_Singleton, FS_Union
  <2>4. Budget = Max(S)
    BY <1>3, <2>1 DEF Budget
  <2>5. Budget \in S /\ \A x \in S : x <= Budget
    <3>1. S # {} /\ S \subseteq Int
      BY <2>2
    <3> QED
      BY <2>3, <2>4, <3>1, MaxIs
  <2>6. Budget \in Nat /\ contract.target <= Budget
    BY <2>2, <2>5
  <2> QED
    BY <1>1, <1>3, <2>6
<1> QED
  BY <1>2, <1>3

\* A space that was loaded can be put in order.
LEMMA LoadedIs ==
  ASSUME contract \in Contracts, Loaded
  PROVE  Params \in Seq(ToSet(Params)) /\ Arranged(Params)
  BY ContractAccepted, AcceptedArranged DEF Loaded

\* So its parameters have their places.
LEMMA PlacesAre ==
  ASSUME contract \in Contracts, Loaded
  PROVE  /\ Len(Params) \in Nat /\ Len(Order(Params)) = Len(Params)
         /\ Names(Params) = {Order(Params)[i] : i \in 1..Len(Params)}
         /\ OrderedParams(Params) = [i \in 1..Len(Params) |-> Named(Params, Order(Params)[i])]
         /\ \A i \in 1..Len(Params) :
              /\ Order(Params)[i] \in Names(Params)
              /\ Named(Params, Order(Params)[i]) \in ToSet(Params)
              /\ Named(Params, Order(Params)[i]).name = Order(Params)[i]
              /\ \A c \in DOMAIN Named(Params, Order(Params)[i]).when :
                   \E j \in 1..(i - 1) : Order(Params)[j] = c
         /\ \A i, j \in 1..Len(Params) : Order(Params)[i] = Order(Params)[j] => i = j
  BY LoadedIs, PlacesIn

\* What was drawn for every parameter is a point.
LEMMA FullIsPoint ==
  ASSUME contract \in Contracts, Loaded, NEW at, DrawnTo(at, Len(Params))
  PROVE  PointOf(at, Params, Rules)
<1>1. FullPoint(at, Params, Inverted)
  BY LoadedIs, FullWhenVisited DEF DrawnTo
<1>2. /\ \A p \in ToSet(Params) : p.name \in Names(Params) /\ Named(Params, p.name) = p
  BY SpaceIs, LoadedIs
<1>3. \A n \in DOMAIN at : at[n] \in Declared(Named(Params, n)) \/ Inverts(Named(Params, n))
  BY <1>1 DEF FullPoint, Inverted
<1>4. \A p \in ToSet(Params) :
        p.name \in DOMAIN at <=> \A c \in DOMAIN p.when : c \in DOMAIN at /\ at[c] \in p.when[c]
  BY <1>1, <1>2 DEF FullPoint, IsActive
<1>5. IsPoint(at)
  BY <1>1, <1>3, <1>4 DEF FullPoint, IsPoint
<1> QED
  BY <1>1, <1>5, PointIs DEF FullPoint

\* A parameter that is active gets one of the values left of its range.
LEMMA DrawnFits ==
  ASSUME contract \in Contracts, Loaded, NEW p \in ToSet(Params),
         NEW t, t = Tightened(p, Rules)
  PROVE  /\ t.name = p.name /\ \A at : IsActive(t, at) = IsActive(p, at)
         /\ ~Inverts(p) => Drawable(t) # {} /\ Drawable(t) \subseteq Declared(p)
<1>1. /\ t.name = p.name /\ t.type = p.type /\ t.when = p.when
      /\ t.lo \in Int /\ t.hi \in Int /\ p.lo \in Int /\ p.hi \in Int /\ p.lo <= p.hi
      /\ p.type \notin Numeric => t.lo = p.lo /\ t.hi = p.hi
      /\ p.type \in Numeric =>
           p.lo <= t.lo /\ t.hi <= p.hi /\ (~Crosses(p, Rules) => t.lo <= t.hi)
  BY ContractAccepted, TightenedIs DEF Loaded
<1>2. \A at : IsActive(t, at) = IsActive(p, at)
  BY <1>1 DEF IsActive
<1>3. ASSUME ~Inverts(p) PROVE Drawable(t) # {} /\ Drawable(t) \subseteq Declared(p)
  <2>1. ~Crosses(p, Rules)
    BY <1>3 DEF Inverts, Crosses
  <2>2. p.lo <= t.lo /\ t.hi <= p.hi /\ t.lo <= t.hi
    BY <1>1, <2>1
  <2>3. t.lo..t.hi # {} /\ t.lo..t.hi \subseteq p.lo..p.hi
    BY <1>1, <2>2
  <2>4. Min({t.lo, t.hi}) = t.lo /\ Max({t.lo, t.hi}) = t.hi
    <3>1. IsFiniteSet({t.lo, t.hi})
      <4>1. PICK a, b : a = t.lo /\ b = t.hi
        OBVIOUS
      <4>2. IsFiniteSet({a}) /\ IsFiniteSet({b})
        BY FS_Singleton
      <4>3. IsFiniteSet({a} \cup {b})
        BY <4>2, FS_Union
      <4>4. {a} \cup {b} = {t.lo, t.hi}
        BY <4>1
      <4> QED
        BY <4>3, <4>4
    <3>2. {t.lo, t.hi} # {} /\ {t.lo, t.hi} \subseteq Int
      BY <1>1
    <3>3. /\ Max({t.lo, t.hi}) \in {t.lo, t.hi} /\ \A x \in {t.lo, t.hi} : x <= Max({t.lo, t.hi})
          /\ Min({t.lo, t.hi}) \in {t.lo, t.hi} /\ \A x \in {t.lo, t.hi} : Min({t.lo, t.hi}) <= x
      BY <3>1, <3>2, MaxIs, MinIs
    <3> QED
      BY <1>1, <2>2, <3>3
  <2> QED
    BY <2>3, <2>4 DEF Drawable, Declared
<1> QED
  BY <1>1, <1>2, <1>3

\* Drawing a parameter, or passing it over, leaves a point drawn that far.
LEMMA DrawGoesOn ==
  ASSUME contract \in Contracts, Loaded, NEW k \in Nat, k < Len(Params), NEW at,
         DrawnTo(at, k), NEW p, p = Named(Params, Order(Params)[k + 1])
  PROVE  /\ ~IsActive(p, at) => DrawnTo(at, k + 1)
         /\ \A v : IsActive(p, at) /\ (v \in Declared(p) \/ Inverts(p))
              => DrawnTo(WithParam(at, p.name, v), k + 1)
<1>1. p.name \in Names(Params) /\ Named(Params, p.name) = p
  <2>1. k + 1 \in 1..Len(Params)
    BY PlacesAre
  <2> QED
    BY <2>1, PlacesAre
<1>2. Inverts(p) <=> p.name \in Inverted
  BY <1>1 DEF Inverted
<1> QED
  BY <1>2, LoadedIs, VisitGoesOn DEF DrawnTo

-----------------------------------------------------------------------------
(* How deep conditions are nested.                                          *)

Deepest(params, d, n) ==
  IF Above(params, n) = {} THEN 0 ELSE 1 + Max({d[c] : c \in Above(params, n)})

Depths(params, d, D) == d = [n \in D |-> d[n]] /\ \A n \in D : d[n] = Deepest(params, d, n)

\* The recursion of Depth has a solution, and Depth is it.
LEMMA DepthExists ==
  ASSUME NEW params, params \in Seq(ToSet(params)), Arranged(params)
  PROVE  \E d : /\ Depths(params, d, Names(params))
                /\ \A n : Depth(params, n) = d[n]
<1> DEFINE N == Names(params)
           Made(d) == d = [n \in N |->
             LET above == DOMAIN Named(params, n).when
             IN  IF above = {} THEN 0 ELSE 1 + Max({d[c] : c \in above})]
<1>1. \A n \in N : Above(params, n) \in SUBSET N
  BY SpaceIs
<1>2. PICK G : G = {D \in SUBSET N : /\ \A n \in D : Above(params, n) \subseteq D
                                     /\ \E d : Depths(params, d, D)}
  OBVIOUS
<1>3. {} \in G
  <2>1. PICK d : d = [n \in {} |-> 0]
    OBVIOUS
  <2>2. Depths(params, d, {})
    BY <2>1 DEF Depths
  <2> QED
    BY <1>2, <2>2
<1>4. ASSUME NEW D \in G, NEW n \in N \ D, Above(params, n) \subseteq D PROVE D \cup {n} \in G
  <2>1. PICK d : Depths(params, d, D)
    BY <1>2
  <2>2. D \in SUBSET N /\ \A m \in D \cup {n} : Above(params, m) \subseteq D
    BY <1>2, <1>4
  <2>3. PICK w : w = [m \in D \cup {n} |-> Deepest(params, d, m)]
    OBVIOUS
  <2>4. \A m \in D : w[m] = d[m]
    BY <2>1, <2>3 DEF Depths
  <2>5. ASSUME NEW m \in D \cup {n} PROVE w[m] = Deepest(params, w, m)
    <3>1. \A c \in Above(params, m) : w[c] = d[c]
      BY <2>2, <2>4
    <3>2. {w[c] : c \in Above(params, m)} = {d[c] : c \in Above(params, m)}
      BY <3>1
    <3>3. Deepest(params, w, m) = Deepest(params, d, m)
      BY <3>2 DEF Deepest
    <3> QED
      BY <2>3, <3>3
  <2>6. Depths(params, w, D \cup {n})
    <3>1. w = [m \in D \cup {n} |-> w[m]]
      BY <2>3
    <3> QED
      BY <2>5, <3>1 DEF Depths
  <2> QED
    BY <1>2, <2>2, <2>6
<1>5. N \in G
  <2>1. G \in SUBSET SUBSET Names(params)
    BY <1>2
  <2> QED
    BY <1>3, <1>4, <2>1, Climb
<1>6. PICK d : Depths(params, d, N)
  BY <1>2, <1>5
<1>7. Made(d)
  BY <1>6 DEF Depths, Deepest, Above
<1>8. PICK e : e = CHOOSE u : Made(u)
  OBVIOUS
<1>9. Made(e)
  <2> HIDE DEF Made
  <2> QED
    BY <1>7, <1>8
<1>10. \A n : Depth(params, n) = e[n]
  BY <1>8 DEF Depth
<1>11. Depths(params, e, N)
  BY <1>9 DEF Depths, Deepest, Above
<1> QED
  BY <1>10, <1>11

\* A condition on a conditional parameter is at least the second.
LEMMA DeepIs ==
  ASSUME NEW params, params \in Seq(ToSet(params)), Arranged(params),
         NEW n \in Names(params), NEW c \in Above(params, n), Above(params, c) # {}
  PROVE  Depth(params, n) > 1
<1>1. PICK N : N = Names(params)
  OBVIOUS
<1>2. \A m \in N : Above(params, m) \in SUBSET N /\ IsFiniteSet(Above(params, m))
  BY <1>1, SpaceIs
<1>3. PICK d : Depths(params, d, N) /\ \A m : Depth(params, m) = d[m]
  BY <1>1, DepthExists
<1>4. ASSUME NEW m \in N, \A b \in Above(params, m) : d[b] \in Nat
      PROVE  /\ d[m] \in Nat
             /\ \A b \in Above(params, m) : d[m] >= 1 + d[b]
  <2>1. PICK S : S = {d[b] : b \in Above(params, m)}
    OBVIOUS
  <2>2. d[m] = IF Above(params, m) = {} THEN 0 ELSE 1 + Max(S)
    BY <1>3, <2>1 DEF Depths, Deepest
  <2>3. CASE Above(params, m) = {}
    BY <2>2, <2>3
  <2>4. CASE Above(params, m) # {}
    <3>1. S \subseteq Nat /\ S # {}
      BY <1>4, <2>1, <2>4
    <3>2. IsFiniteSet(S)
      <4>1. PICK f : f = [b \in Above(params, m) |-> d[b]]
        OBVIOUS
      <4>2. f \in Surjection(Above(params, m), S)
        BY <2>1, <4>1 DEF Surjection
      <4> QED
        BY <1>2, <4>2, FS_Surjection
    <3>3. Max(S) \in S /\ \A x \in S : x <= Max(S)
      <4>1. S \subseteq Int
        BY <3>1
      <4> QED
        BY <3>1, <3>2, <4>1, MaxIs
    <3>4. PICK x \in Nat : x = Max(S) /\ d[m] = 1 + x
      BY <2>2, <2>4, <3>1, <3>3
    <3>5. \A b \in Above(params, m) : d[b] \in Nat /\ d[b] <= x
      BY <1>4, <2>1, <3>3, <3>4
    <3> QED
      BY <3>4, <3>5
  <2> QED
    BY <2>3, <2>4
<1>5. PICK G : G = {D \in SUBSET N : \A m \in D : d[m] \in Nat}
  OBVIOUS
<1>6. N \in G
  <2>1. G \in SUBSET SUBSET Names(params) /\ {} \in G
    BY <1>1, <1>5
  <2>2. ASSUME NEW D \in G, NEW m \in N \ D, Above(params, m) \subseteq D PROVE D \cup {m} \in G
    <3>1. \A b \in Above(params, m) : d[b] \in Nat
      BY <1>5, <2>2
    <3>2. d[m] \in Nat
      BY <1>4, <3>1
    <3> QED
      BY <1>5, <3>2
  <2> QED
    BY <1>1, <2>1, <2>2, Climb
<1>7. \A m \in N : d[m] \in Nat
  BY <1>5, <1>6
<1>8. \A m \in N : \A b \in Above(params, m) : d[m] >= 1 + d[b]
  BY <1>2, <1>4, <1>7
<1>9. PICK b \in Above(params, c) : b \in N
  BY <1>1, <1>2
<1>10. n \in N /\ c \in N /\ d[n] >= 1 + d[c] /\ d[c] >= 1 + d[b]
  BY <1>1, <1>2, <1>8, <1>9
<1> QED
  BY <1>3, <1>7, <1>9, <1>10

\* Parameters that do not apply make no difference where no condition is nested.
LEMMA FilledIn ==
  ASSUME contract \in Contracts, Loaded, NEW at, IsPoint(at), NEW payload \in Payloads(at),
         \A n \in Names(Params) : ~(Depth(Params, n) > 1)
  PROVE  Canonical(payload, Params) = Canonical(at, Params)
<1>1. PICK N : N = Names(Params)
  OBVIOUS
<1>2. Params \in Seq(ToSet(Params)) /\ Arranged(Params)
  BY LoadedIs
<1>3. \A n \in N : /\ Named(Params, n) \in ToSet(Params) /\ Named(Params, n).name = n
                   /\ DOMAIN Named(Params, n).when \subseteq N
  BY <1>1, <1>2, SpaceIs DEF Above
<1>4. \A n \in N : n \in DOMAIN at <=> IsActive(Named(Params, n), at)
  BY <1>3 DEF IsPoint, IsActive
<1>5. \A n \in N : \A c \in DOMAIN Named(Params, n).when : DOMAIN Named(Params, c).when = {}
  BY <1>1, <1>2, DeepIs DEF Above
<1>6. ASSUME NEW n \in N, NEW c \in DOMAIN Named(Params, n).when PROVE c \in DOMAIN at
  <2>1. c \in N
    BY <1>3
  <2>2. IsActive(Named(Params, c), at)
    BY <1>5 DEF IsActive
  <2> QED
    BY <1>4, <2>1, <2>2
<1>7. /\ DOMAIN at \subseteq DOMAIN payload /\ DOMAIN payload \subseteq N
      /\ \A n \in DOMAIN at : payload[n] = at[n]
  <2>1. PICK extra \in SUBSET Inactive(at) :
          \E fill \in [extra -> UNION {Declared(p) : p \in ToSet(Params)}] :
            payload = [n \in DOMAIN at \cup extra |-> IF n \in DOMAIN at THEN at[n] ELSE fill[n]]
    BY DEF Payloads
  <2>2. DOMAIN at \subseteq N
    BY <1>1 DEF IsPoint
  <2> QED
    BY <1>1, <2>1, <2>2 DEF Inactive
<1>8. ASSUME NEW n \in N
      PROVE  IsActive(Named(Params, n), payload) <=> IsActive(Named(Params, n), at)
  <2>1. \A c \in DOMAIN Named(Params, n).when :
          c \in DOMAIN at /\ c \in DOMAIN payload /\ payload[c] = at[c]
    BY <1>6, <1>7
  <2> QED
    BY <2>1 DEF IsActive
<1>9. {n \in DOMAIN payload : n \in N => IsActive(Named(Params, n), payload)} = DOMAIN at
  BY <1>4, <1>7, <1>8
<1>10. {n \in DOMAIN at : n \in N => IsActive(Named(Params, n), at)} = DOMAIN at
  BY <1>4
<1>11. /\ Canonical(payload, Params) = [n \in DOMAIN at |-> payload[n]]
       /\ Canonical(at, Params) = [n \in DOMAIN at |-> at[n]]
  BY <1>1, <1>9, <1>10 DEF Canonical
<1> QED
  BY <1>7, <1>11

-----------------------------------------------------------------------------
(* The steps of Sampling.                                                   *)

\* The invariant holds when a campaign begins.
LEMMA SamplingStarts ==
  ASSUME SamplingInit PROVE SamplingInv
<1>1. contract \in Contracts /\ stage = "loading" /\ candidates = <<>> /\ attempts = 0
  BY DEF SamplingInit
<1>2. rejects \in [DOMAIN Rules -> Nat]
  BY DEF SamplingInit
<1>3. IsFiniteSet(DOMAIN Rules)
  <2>1. DOMAIN Rules = 1..Len(Rules) /\ Len(Rules) \in Nat
    BY <1>1, ContractAccepted
  <2> QED
    BY <2>1, FS_Interval
<1>4. SumFunction(rejects) >= 0 /\ SumFunction(rejects) \in Int
  <2>1. PICK none : none = [i \in DOMAIN Rules |-> 0]
    OBVIOUS
  <2>2. rejects = none
    BY <2>1 DEF SamplingInit
  <2>3. PICK s : AddsUp(s, none, SUBSET DOMAIN none) /\ FoldFunction(+, 0, none) = s[DOMAIN none]
    <3>1. IsFiniteSet(DOMAIN none)
      BY <1>3, <2>1
    <3> QED
      BY <3>1, SumIs
  <2>4. PICK I : I = [x \in SUBSET DOMAIN Rules |-> {0}]
    OBVIOUS
  <2>5. PICK ch : ch = Chosen(DOMAIN Rules) /\ Picks(ch, DOMAIN Rules)
    BY <1>3, SetFoldIs
  <2>6. s[{}] \in I[{}]
    BY <2>1, <2>3, <2>4 DEF AddsUp
  <2>7. ASSUME NEW x \in (SUBSET DOMAIN Rules) \ {{}}, s[x \ {ch[x]}] \in I[x \ {ch[x]}]
        PROVE  s[x] \in I[x]
    <3>1. ch[x] = First(x) /\ ch[x] \in x
      BY <2>5 DEF Chosen, First, Picks
    <3>2. s[x \ {ch[x]}] = 0
      BY <2>4, <2>7
    <3>3. s[x] = none[ch[x]] + s[x \ {ch[x]}]
      BY <2>1, <2>3, <3>1 DEF AddsUp
    <3>4. none[ch[x]] = 0
      BY <2>1, <3>1
    <3> QED
      BY <2>4, <3>2, <3>3, <3>4
  <2>8. s[DOMAIN Rules] \in I[DOMAIN Rules]
    BY <1>3, <2>5, <2>6, <2>7, SetsGrow
  <2>9. s[DOMAIN Rules] = 0
    BY <2>4, <2>8
  <2>10. SumFunction(none) = 0
    BY <2>1, <2>3, <2>9, SumIsFold
  <2> QED
    BY <2>2, <2>10
<1>5. Budget \in Nat
  BY <1>1, BudgetIs
<1>6. candidates \in Seq({0}) /\ Len(candidates) = 0 /\ DOMAIN candidates = {}
  BY <1>1
<1>7. attempts - Len(candidates) <= SumFunction(rejects)
  BY <1>1, <1>4, <1>6
<1>8. attempts \in 0..Budget
  BY <1>1, <1>5
<1>9. Tried
  BY <1>1, <1>2, <1>6, <1>7, <1>8 DEF Tried
<1> QED
  BY <1>1, <1>9 DEF SamplingInv, SamplingInit

\* What was tried stays, when none of it changes.
LEMMA TriedSame ==
  ASSUME Tried, UNCHANGED <<contract, candidates, attempts, rejects>>
  PROVE  Tried'
<1>1. Params' = Params /\ Rules' = Rules /\ Budget' = Budget
  BY DEF Params, Rules, Budget
<1>2. \A i \in DOMAIN candidates' :
        /\ PointOf(candidates'[i], Params', Rules')
        /\ Feasible(candidates'[i], Rules')
  BY <1>1 DEF Tried
<1>3. /\ attempts' \in 0..Budget' /\ (\E T : candidates' \in Seq(T))
      /\ rejects' \in [DOMAIN Rules' -> Nat] /\ Len(candidates') <= attempts'
      /\ attempts' - Len(candidates') <= SumFunction(rejects')
  BY <1>1 DEF Tried
<1> QED
  BY <1>2, <1>3 DEF Tried

\* Loading keeps the invariant,
LEMMA LoadKeeps ==
  ASSUME SamplingInv, Load PROVE SamplingInv'
<1>1. Tried'
  BY TriedSame DEF SamplingInv, Load
<1>2. Params' = Params /\ Rules' = Rules /\ contract' = contract /\ contract \in Contracts
  BY DEF Load, Params, Rules, SamplingInv
<1>3. Loaded' = Loaded
  BY <1>2 DEF Loaded
<1>4. point' = NoPoint /\ drawn' = 0 /\ attempts' = 0 /\ attempts = 0
  BY DEF Load, SamplingInv
<1>5. ASSUME Loaded PROVE Drawing'
  <2>1. Len(Params) \in Nat /\ Budget \in Nat \ {0} /\ Budget' = Budget
    BY <1>2, <1>5, PlacesAre, BudgetIs DEF Budget
  <2>2. DrawnTo(point, drawn)'
    BY <1>4 DEF DrawnTo, PointTo, NoPoint
  <2> QED
    BY <1>2, <1>4, <2>1, <2>2 DEF Drawing
<1>6. stage' \in {"drawing", "invalid"} /\ (stage' = "drawing" => Loaded)
  BY DEF Load, Loaded
<1> QED
  BY <1>1, <1>2, <1>3, <1>4, <1>5, <1>6 DEF SamplingInv

\* drawing a value does,
LEMMA DrawKeeps ==
  ASSUME SamplingInv, Draw PROVE SamplingInv'
<1>1. Tried'
  BY TriedSame DEF SamplingInv, Draw
<1>2. /\ Params' = Params /\ Rules' = Rules /\ Budget' = Budget /\ contract' = contract
      /\ attempts' = attempts
  BY DEF Draw, Params, Rules, Budget
<1>3. /\ contract \in Contracts /\ Loaded /\ drawn \in 0..Len(Params) /\ DrawnTo(point, drawn)
      /\ attempts < Budget /\ drawn < Len(Params) /\ stage = "drawing"
  BY DEF SamplingInv, Draw, Drawing
<1>4. PICK k \in Nat :
        k = drawn /\ Len(Params) \in Nat /\ k < Len(Params) /\ k + 1 \in 1..Len(Params)
  BY <1>3, PlacesAre
<1>5. PICK p \in ToSet(Params) : /\ p = Named(Params, Order(Params)[k + 1]) /\ p = Visited
                                 /\ Named(Params, p.name) = p
  <2>1. PICK p : p = Named(Params, Order(Params)[k + 1])
    OBVIOUS
  <2>2. /\ OrderedParams(Params) = [i \in 1..Len(Params) |-> Named(Params, Order(Params)[i])]
        /\ Named(Params, Order(Params)[k + 1]) \in ToSet(Params)
    BY <1>3, <1>4, PlacesAre
  <2>3. p = Visited /\ p \in ToSet(Params)
    BY <1>4, <2>1, <2>2 DEF Visited
  <2>4. Named(Params, p.name) = p
    BY <1>3, <2>3, SpaceIs, LoadedIs
  <2> QED
    BY <2>1, <2>3, <2>4
<1>6. PICK t : t = Tightened(Visited, Rules)
  OBVIOUS
<1>7. /\ t.name = p.name /\ IsActive(t, point) = IsActive(p, point)
      /\ ~Inverts(p) => Drawable(t) # {} /\ Drawable(t) \subseteq Declared(p)
  BY <1>3, <1>5, <1>6, DrawnFits
<1>8. \A at, j : DrawnTo(at, j)' = DrawnTo(at, j)
  <2>1. \A q : Inverts(q)' = Inverts(q)
    BY <1>2 DEF Inverts
  <2> QED
    BY <1>2, <2>1 DEF DrawnTo, PointTo, Inverted
<1>9. Loaded' /\ contract' \in Contracts
  BY <1>2, <1>3 DEF Loaded
<1>10. \A q : Inverts(q)' = Inverts(q)
  BY <1>2 DEF Inverts
<1>11. CASE /\ ~IsActive(t, point) /\ drawn' = drawn + 1 /\ stage' = stage /\ point' = point
  <2>1. DrawnTo(point, k + 1)
    BY <1>3, <1>4, <1>5, <1>7, <1>11, DrawGoesOn
  <2>2. DrawnTo(point, drawn)' /\ drawn' \in 0..Len(Params)
    BY <1>4, <1>8, <1>11, <2>1
  <2>3. Drawing'
    BY <1>2, <1>3, <2>2 DEF Drawing
  <2> QED
    BY <1>1, <1>3, <1>9, <1>11, <2>3 DEF SamplingInv
<1>12. ASSUME NEW v \in Drawable(t), point' = WithParam(point, t.name, v), IsActive(t, point),
              drawn' = drawn + 1, stage' = stage
       PROVE  SamplingInv'
  <2>1. v \in Declared(p) \/ Inverts(p)
    BY <1>7, <1>12
  <2>2. DrawnTo(WithParam(point, p.name, v), k + 1)
    BY <1>3, <1>4, <1>5, <1>7, <1>12, <2>1, DrawGoesOn
  <2>3. DrawnTo(point, drawn)' /\ drawn' \in 0..Len(Params)
    BY <1>4, <1>7, <1>8, <1>12, <2>2
  <2>4. Drawing'
    BY <1>2, <1>3, <2>3 DEF Drawing
  <2> QED
    BY <1>1, <1>3, <1>9, <1>12, <2>4 DEF SamplingInv
<1>13. ASSUME Drawable(t) = {}, stage' = "raised" PROVE SamplingInv'
  <2>1. Inverts(p)
    BY <1>7, <1>13
  <2>2. (\E r \in ToSet(Params) : Inverts(r))'
    BY <1>2, <1>10, <2>1
  <2> QED
    BY <1>1, <1>9, <1>13, <2>2 DEF SamplingInv
<1> QED
  BY <1>6, <1>11, <1>12, <1>13 DEF Draw

\* judging a point by the rules does,
LEMMA JudgeKeeps ==
  ASSUME SamplingInv, Judge PROVE SamplingInv'
<1>1. /\ Params' = Params /\ Rules' = Rules /\ Budget' = Budget /\ contract' = contract
  BY DEF Judge, Params, Rules, Budget
<1>2. /\ contract \in Contracts /\ Loaded /\ DrawnTo(point, Len(Params)) /\ Tried
      /\ attempts < Budget /\ drawn = Len(Params) /\ stage = "drawing"
  BY DEF SamplingInv, Judge, Drawing
<1>3. PointOf(point, Params, Rules)
  BY <1>2, FullIsPoint
<1>4. /\ Budget \in Nat \ {0} /\ attempts \in Nat /\ Len(Params) \in Nat
      /\ contract.target \in Nat \ {0} /\ attempts' = attempts + 1
  BY <1>2, BudgetIs, PlacesAre, ContractAccepted DEF Tried, Judge
<1>5. PICK S : S = DOMAIN Rules
  OBVIOUS
<1>6. IsFiniteSet(S)
  <2>1. DOMAIN Rules = 1..Len(Rules) /\ Len(Rules) \in Nat
    BY <1>2, ContractAccepted
  <2> QED
    BY <1>5, <2>1, FS_Interval
<1>7. rejects \in [S -> Int] /\ rejects' \in [S -> Int] /\ rejects' \in [S -> Nat]
      /\ \A i \in S : /\ rejects[i] <= rejects'[i]
                      /\ i \in Violations(point, Rules) => rejects[i] < rejects'[i]
  BY <1>2, <1>5 DEF Judge, Tried
<1>8. PICK a, b \in Int :
        /\ a = SumFunction(rejects) /\ b = SumFunction(rejects') /\ a <= b
        /\ (\E i \in S : rejects[i] < rejects'[i]) => a < b
  BY <1>6, <1>7, SumGrows, SumIsFold
<1>9. PICK m \in Nat : /\ m = Len(candidates) /\ DOMAIN candidates = 1..m
                       /\ m <= attempts /\ attempts - m <= a
  BY <1>2, <1>8 DEF Tried
<1>10. /\ \E T : candidates' \in Seq(T)
       /\ Len(candidates') <= attempts'
       /\ attempts' - Len(candidates') <= b
       /\ \A i \in DOMAIN candidates' :
            PointOf(candidates'[i], Params, Rules) /\ Feasible(candidates'[i], Rules)
       /\ Len(candidates') \in Nat
  <2>1. CASE Feasible(point, Rules)
    <3>1. candidates' = Append(candidates, point)
      BY <2>1 DEF Judge
    <3>2. PICK T : candidates \in Seq(T)
      BY <1>2 DEF Tried
    <3>3. candidates \in Seq(T \cup {point})
      BY <3>2
    <3>4. /\ Len(candidates') = m + 1 /\ DOMAIN candidates' = 1..(m + 1)
          /\ candidates'[m + 1] = point /\ \A i \in 1..m : candidates'[i] = candidates[i]
      BY <1>9, <3>1, <3>3
    <3>5. \A i \in 1..(m + 1) : i \in 1..m \/ i = m + 1
      OBVIOUS
    <3>6. \A i \in 1..m : PointOf(candidates[i], Params, Rules) /\ Feasible(candidates[i], Rules)
      BY <1>2, <1>9 DEF Tried
    <3>7. \A i \in DOMAIN candidates' :
            PointOf(candidates'[i], Params, Rules) /\ Feasible(candidates'[i], Rules)
      BY <1>3, <2>1, <3>4, <3>5, <3>6
    <3>8. candidates' \in Seq(T \cup {point})
      BY <3>1, <3>3
    <3> QED
      BY <1>4, <1>8, <1>9, <3>4, <3>7, <3>8
  <2>2. CASE ~Feasible(point, Rules)
    <3>1. candidates' = candidates
      BY <2>2 DEF Judge
    <3>2. PICK i \in S : i \in Violations(point, Rules)
      BY <1>5, <2>2 DEF Feasible, Violations
    <3>3. a < b
      BY <1>7, <1>8, <3>2
    <3>4. /\ \E T : candidates \in Seq(T)
          /\ \A j \in DOMAIN candidates :
                PointOf(candidates[j], Params, Rules) /\ Feasible(candidates[j], Rules)
      BY <1>2 DEF Tried
    <3> QED
      BY <1>4, <1>8, <1>9, <3>1, <3>3, <3>4
  <2> QED
    BY <2>1, <2>2
<1>11. Tried'
  <2>1. attempts' \in 0..Budget
    BY <1>2, <1>4
  <2>2. \A i \in DOMAIN candidates' :
          PointOf(candidates'[i], Params', Rules') /\ Feasible(candidates'[i], Rules')
    BY <1>1, <1>10
  <2>3. rejects' \in [DOMAIN Rules -> Nat]
    BY <1>5, <1>7
  <2> QED
    BY <1>1, <1>8, <1>10, <2>1, <2>2, <2>3 DEF Tried
<1>12. Loaded' /\ contract' \in Contracts
  BY <1>1, <1>2 DEF Loaded
<1>13. point' = NoPoint /\ drawn' = 0 /\ DrawnTo(point, drawn)'
  BY DEF Judge, DrawnTo, PointTo, NoPoint
<1>14. CASE Len(candidates') < contract.target /\ attempts' < Budget
  <2>1. stage' = "drawing"
    BY <1>14 DEF Judge
  <2>2. Drawing'
    BY <1>1, <1>4, <1>13, <1>14 DEF Drawing
  <2> QED
    BY <1>11, <1>12, <2>1, <2>2 DEF SamplingInv
<1>15. CASE ~(Len(candidates') < contract.target /\ attempts' < Budget)
  <2>1. stage' = "sampled"
    BY <1>15 DEF Judge
  <2>2. candidates' = <<>> => attempts' = Budget
    <3>1. candidates' = <<>> => Len(candidates') = 0
      OBVIOUS
    <3> QED
      BY <1>2, <1>4, <1>15, <3>1
  <2> QED
    BY <1>1, <1>11, <1>12, <2>1, <2>2 DEF SamplingInv
<1> QED
  BY <1>14, <1>15

\* choosing an offer does,
LEMMA ChooseKeeps ==
  ASSUME SamplingInv, Choose PROVE SamplingInv'
<1>1. Tried'
  BY TriedSame DEF SamplingInv, Choose
<1>2. /\ Params' = Params /\ Rules' = Rules /\ Budget' = Budget /\ contract' = contract
      /\ attempts' = attempts /\ candidates' = candidates
  BY DEF Choose, Params, Rules, Budget
<1>3. Loaded' /\ contract' \in Contracts /\ stage = "sampled"
  BY <1>2 DEF Loaded, SamplingInv, Choose
<1>4. CASE candidates = <<>>
  <2>1. stage' = "infeasible" /\ attempts = Budget
    BY <1>4 DEF Choose, SamplingInv
  <2> QED
    BY <1>1, <1>2, <1>3, <1>4, <2>1 DEF SamplingInv
<1>5. CASE candidates # <<>>
  <2>1. stage' = "pending" /\ offer' \in ToSet(candidates)
    BY <1>5 DEF Choose
  <2> QED
    BY <1>1, <1>2, <1>3, <2>1 DEF SamplingInv
<1> QED
  BY <1>4, <1>5

\* and ingesting its result does.
LEMMA IngestKeeps ==
  ASSUME SamplingInv, Ingest PROVE SamplingInv'
<1>1. Tried'
  BY TriedSame DEF SamplingInv, Ingest
<1>2. /\ Params' = Params /\ Rules' = Rules /\ contract' = contract
  BY DEF Ingest, Params, Rules
<1>3. Loaded' /\ contract' \in Contracts /\ Loaded /\ contract \in Contracts
  BY <1>2 DEF Loaded, SamplingInv, Ingest
<1>4. PICK payload \in Payloads(offer) :
        stage' = IF Canonical(payload, Params) = Canonical(offer, Params)
                 THEN "ingested" ELSE "mismatch"
  BY DEF Ingest
<1>5. IsPoint(offer)
  <2>1. offer \in ToSet(candidates)
    BY DEF SamplingInv, Ingest
  <2>2. PICK i \in DOMAIN candidates : offer = candidates[i]
    BY <2>1 DEF ToSet
  <2> QED
    BY <2>2, PointIs DEF SamplingInv, Tried
<1>6. CASE stage' = "ingested"
  BY <1>1, <1>3, <1>6 DEF SamplingInv
<1>7. CASE stage' = "mismatch"
  <2>1. Canonical(payload, Params) # Canonical(offer, Params)
    BY <1>4, <1>7
  <2>2. \E n \in Names(Params) : Depth(Params, n) > 1
    BY <1>3, <1>5, <2>1, FilledIn
  <2>3. (\E n \in Names(Params) : Depth(Params, n) > 1)'
    BY <1>2, <2>2
  <2> QED
    BY <1>1, <1>3, <1>7, <2>3 DEF SamplingInv
<1> QED
  BY <1>4, <1>6, <1>7

\* No step of Sampling breaks the invariant.
LEMMA SamplingKept == SamplingInv /\ [SamplingNext]_samplingVars => SamplingInv'
<1> SUFFICES ASSUME SamplingInv, [SamplingNext]_samplingVars PROVE SamplingInv'
  OBVIOUS
<1>1. CASE UNCHANGED samplingVars
  <2>1. UNCHANGED <<contract, stage, point, drawn, candidates, attempts, rejects, offer>>
    BY <1>1 DEF samplingVars
  <2>2. Tried'
    BY <2>1, TriedSame DEF SamplingInv
  <2>3. Params' = Params /\ Rules' = Rules /\ Budget' = Budget
    BY <2>1 DEF Params, Rules, Budget
  <2>4. Loaded' = Loaded /\ \A p : Inverts(p)' = Inverts(p)
    BY <2>3 DEF Loaded, Inverts
  <2>5. Drawing => Drawing'
    BY <2>1, <2>3, <2>4 DEF Drawing, DrawnTo, PointTo, Inverted
  <2> QED
    BY <2>1, <2>2, <2>3, <2>4, <2>5 DEF SamplingInv
<1> QED
  BY <1>1, LoadKeeps, DrawKeeps, JudgeKeeps, ChooseKeeps, IngestKeeps DEF SamplingNext

-----------------------------------------------------------------------------
(* What a sequence of segments says, piece by piece.                        *)

\* Induction over the first naturals.
LEMMA CountsUp ==
  ASSUME NEW l \in Nat, NEW G, 0 \in G, \A k \in 0..(l - 1) : k \in G => k + 1 \in G
  PROVE  \A k \in 0..l : k \in G
<1> DEFINE Bad == {k \in 0..l : k \notin G}
<1>1. ASSUME Bad # {} PROVE FALSE
  <2>1. Bad \in SUBSET Nat
    OBVIOUS
  <2>2. PICK n \in Bad : \A m \in Bad : n <= m
    <3> HIDE DEF Bad
    <3> QED
      BY <1>1, <2>1, LeastOfNaturals
  <2>3. n \in 0..l /\ n \notin G /\ n # 0
    OBVIOUS
  <2>4. n - 1 \in 0..(l - 1) /\ n - 1 \in 0..l /\ ~(n <= n - 1)
    BY <2>3
  <2>5. n - 1 \notin G
    BY <2>3, <2>4
  <2>6. n - 1 \in Bad
    BY <2>4, <2>5
  <2> HIDE DEF Bad
  <2> QED
    BY <2>2, <2>4, <2>6
<1> QED
  BY <1>1

\* The last place of a set of places.
Lasts(l) == [s \in (SUBSET (1..l)) \ {{}} |-> Max(s)]

\* Picking the last place leaves the places before it.
LEMMA LastPicked ==
  ASSUME NEW l \in Nat, NEW ch, ch = Lasts(l)
  PROVE  IsFiniteSet(1..l) /\ Picks(ch, 1..l) /\ \A k \in 1..l : ch[1..k] = k
<1>1. IsFiniteSet(1..l)
  BY FS_Interval
<1>2. \A s \in (SUBSET (1..l)) \ {{}} : ch[s] \in s /\ \A x \in s : x <= ch[s]
  <2>1. ASSUME NEW s \in (SUBSET (1..l)) \ {{}} PROVE ch[s] \in s /\ \A x \in s : x <= ch[s]
    <3>1. s \subseteq 1..l /\ 1..l \subseteq Int /\ s # {}
      OBVIOUS
    <3>2. IsFiniteSet(s)
      BY <1>1, <3>1, FS_Subset
    <3> QED
      BY <3>1, <3>2, MaxIs DEF Lasts
  <2> QED
    BY <2>1
<1>3. Picks(ch, 1..l)
  BY <1>2 DEF Picks, Lasts
<1>4. ASSUME NEW k \in 1..l PROVE ch[1..k] = k
  <2>1. 1..k \in (SUBSET (1..l)) \ {{}} /\ k \in 1..k
    OBVIOUS
  <2>2. PICK m \in 1..k : m = ch[1..k] /\ k <= m
    BY <1>2, <2>1
  <2>3. m = k
    BY <2>2
  <2> QED
    BY <2>1, <2>2, <2>3
<1> QED
  BY <1>1, <1>3, <1>4

\* A fold from the left, by a table of its steps.
Filling(g, t, B, base, l) ==
  /\ g = [s \in SUBSET (1..l) |-> g[s]] /\ g[{}] = base
  /\ \A s \in (SUBSET (1..l)) \ {{}} :
       /\ Max(s) \in 1..l /\ g[s \ {Max(s)}] \in B
       /\ g[s] = t[<<Max(s), g[s \ {Max(s)}]>>]

\* There is such a fold.
LEMMA FillingExists ==
  ASSUME NEW l \in Nat, NEW B, NEW base \in B, NEW t \in [(1..l) \X B -> B]
  PROVE  \E g : Filling(g, t, B, base, l)
<1> DEFINE S == 1..l
<1>1. PICK ch : ch = Lasts(l)
  OBVIOUS
<1>2. IsFiniteSet(S) /\ Picks(ch, S)
  BY <1>1, LastPicked
<1>3. PICK g : Folds(g, SUBSET S, ch, t, base)
  BY <1>2, FoldExists
<1>4. PICK I : I = [s \in SUBSET S |-> B]
  OBVIOUS
<1>5. g[{}] \in I[{}]
  BY <1>3, <1>4 DEF Folds
<1>6. ASSUME NEW s \in (SUBSET S) \ {{}}, g[s \ {ch[s]}] \in I[s \ {ch[s]}]
      PROVE  g[s] \in I[s]
  <2>1. PICK i \in S : i = ch[s]
    BY <1>2 DEF Picks
  <2>2. PICK x \in B : x = g[s \ {ch[s]}]
    BY <1>4, <1>6
  <2>3. g[s] = t[<<i, x>>]
    BY <1>3, <2>1, <2>2 DEF Folds
  <2> QED
    BY <1>4, <2>3
<1>7. \A s \in SUBSET S : g[s] \in I[s]
  <2> HIDE DEF S
  <2> QED
    BY <1>2, <1>5, <1>6, SetsGrow
<1>8. ASSUME NEW s \in (SUBSET S) \ {{}}
      PROVE  /\ Max(s) \in S /\ g[s \ {Max(s)}] \in B
             /\ g[s] = t[<<Max(s), g[s \ {Max(s)}]>>]
  <2>1. PICK i \in S : i = ch[s] /\ i = Max(s)
    BY <1>1, <1>2 DEF Picks, Lasts
  <2>2. s \ {i} \in SUBSET S
    OBVIOUS
  <2>3. g[s \ {i}] \in B
    BY <1>4, <1>7, <2>2
  <2>4. g[s] = t[<<i, g[s \ {i}]>>]
    BY <1>3, <2>1 DEF Folds
  <2> QED
    BY <2>1, <2>3, <2>4
<1> QED
  BY <1>3, <1>8 DEF Filling, Folds

\* The places up to one are those before it and itself.
LEMMA Upwards ==
  ASSUME NEW l \in Nat, NEW k \in 1..l
  PROVE  /\ k - 1 \in 0..l /\ k \in 0..l
         /\ 1..k \in (SUBSET (1..l)) \ {{}} /\ Max(1..k) = k /\ (1..k) \ {k} = 1..(k - 1)
<1>1. 1..k \in (SUBSET (1..l)) \ {{}}
  OBVIOUS
<1>2. Max(1..k) = k
  <2>1. PICK ch : ch = Lasts(l)
    OBVIOUS
  <2>2. ch[1..k] = k
    BY <2>1, LastPicked
  <2> QED
    BY <1>1, <2>1, <2>2 DEF Lasts
<1>3. (1..k) \ {k} = 1..(k - 1)
  OBVIOUS
<1> QED
  BY <1>1, <1>2, <1>3

\* FlattenSeq grows by one sequence at a time.
Flat(e, V, s, l) ==
  /\ e \in [0..l -> Seq(V)]
  /\ FlattenSeq(s) = e[l] /\ e[0] = <<>>
  /\ \A i \in 1..l : e[i] = e[i - 1] \o s[i]

\* FlattenSeq appends the sequences in turn.
LEMMA Flattens ==
  ASSUME NEW V, NEW l \in Nat \ {0}, NEW s \in [1..l -> Seq(V)]
  PROVE  \E e : Flat(e, V, s, l)
<1> DEFINE Made(f) == f = [i \in 1..l |-> IF i = 1 THEN s[i] ELSE f[i - 1] \o s[i]]
<1>1. s \in Seq(Seq(V)) /\ Len(s) = l
  OBVIOUS
<1>2. \E f : Made(f)
  <2>1. PICK ch : ch = Lasts(l)
    OBVIOUS
  <2>2. PICK w : w = [x \in (1..l) \X Seq(V) |-> x[2] \o s[x[1]]]
    OBVIOUS
  <2>3. IsFiniteSet(1..l) /\ Picks(ch, 1..l) /\ \A k \in 1..l : ch[1..k] = k
    BY <2>1, LastPicked
  <2>4. PICK g : Folds(g, SUBSET (1..l), ch, w, <<>>)
    BY <2>3, FoldExists
  <2>5. PICK f : f = [i \in 1..l |-> g[1..i]]
    OBVIOUS
  <2>6. ASSUME NEW i \in 1..l PROVE g[1..i] = w[<<i, g[1..(i - 1)]>>]
    <3>1. PICK t : t = 1..i
      OBVIOUS
    <3>2. t \in SUBSET (1..l) /\ i \in t /\ t \ {i} = 1..(i - 1)
      BY <3>1
    <3>3. ch[t] = i
      BY <2>3, <3>1
    <3>4. g[t] = w[<<ch[t], g[t \ {ch[t]}]>>]
      BY <2>4, <3>2 DEF Folds
    <3> QED
      BY <3>1, <3>2, <3>4, <3>3
  <2>7. g[{}] = <<>>
    BY <2>4 DEF Folds
  <2>8. PICK G : G = {i \in 0..l : g[1..i] \in Seq(V)}
    OBVIOUS
  <2>9. \A i \in 0..l : i \in G
    <3>1. 0 \in G
      <4>1. 1..0 = {} /\ 0 \in 0..l /\ <<>> \in Seq(V)
        OBVIOUS
      <4> QED
        BY <2>7, <2>8, <4>1
    <3>2. ASSUME NEW i \in 0..(l - 1), i \in G PROVE i + 1 \in G
      <4>1. i + 1 \in 1..l /\ (i + 1) - 1 = i /\ i + 1 \in 0..l
        OBVIOUS
      <4>2. g[1..(i + 1)] = w[<<i + 1, g[1..i]>>]
        BY <2>6, <4>1
      <4>3. PICK x \in Seq(V) : x = g[1..i]
        BY <2>8, <3>2
      <4>4. g[1..(i + 1)] = x \o s[i + 1]
        BY <2>2, <4>1, <4>2, <4>3
      <4>5. s[i + 1] \in Seq(V)
        BY <4>1
      <4>6. x \o s[i + 1] \in Seq(V)
        BY <4>3, <4>5
      <4> QED
        BY <2>8, <4>1, <4>4, <4>6
    <3> QED
      BY <3>1, <3>2, CountsUp
  <2>10. ASSUME NEW i \in 1..l PROVE f[i] = IF i = 1 THEN s[i] ELSE f[i - 1] \o s[i]
    <3>1. i - 1 \in 0..l
      OBVIOUS
    <3>2. PICK x \in Seq(V) : x = g[1..(i - 1)]
      BY <2>8, <2>9, <3>1
    <3>3. f[i] = x \o s[i]
      BY <2>2, <2>5, <2>6, <3>2
    <3>4. CASE i = 1
      <4>1. 1..(i - 1) = {} /\ s[i] \in Seq(V)
        BY <3>4
      <4>2. x = <<>>
        BY <2>7, <3>2, <4>1
      <4>3. <<>> \o s[i] = s[i]
        BY <4>1
      <4> QED
        BY <3>3, <3>4, <4>2, <4>3
    <3>5. CASE i # 1
      <4>1. i - 1 \in 1..l
        BY <3>5
      <4> QED
        BY <2>5, <3>2, <3>3, <3>5, <4>1
    <3> QED
      BY <3>4, <3>5
  <2>11. f = [i \in 1..l |-> f[i]]
    BY <2>5
  <2>12. [i \in 1..l |-> f[i]] = [i \in 1..l |-> IF i = 1 THEN s[i] ELSE f[i - 1] \o s[i]]
    BY <2>10
  <2> QED
    BY <2>11, <2>12
<1>3. PICK f : f = CHOOSE u : Made(u)
  OBVIOUS
<1>4. Made(f)
  <2> HIDE DEF Made
  <2> QED
    BY <1>2, <1>3
<1>5. FlattenSeq(s) = f[l]
  BY <1>1, <1>3 DEF FlattenSeq
<1>6. PICK e : e = [i \in 0..l |-> IF i = 0 THEN <<>> ELSE f[i]]
  OBVIOUS
<1>7. ASSUME NEW i \in 1..l PROVE e[i] = e[i - 1] \o s[i]
  <2>1. CASE i = 1
    <3>1. s[i] \in Seq(V) /\ i - 1 = 0
      BY <2>1
    <3>2. <<>> \o s[i] = s[i]
      BY <3>1
    <3> QED
      BY <1>4, <1>6, <2>1, <3>1, <3>2
  <2>2. CASE i # 1
    <3>1. i - 1 \in 1..l /\ i \in 0..l /\ i - 1 \in 0..l /\ i - 1 # 0 /\ i # 0
      BY <2>2
    <3>2. e[i] = f[i] /\ e[i - 1] = f[i - 1]
      BY <1>6, <3>1
    <3>3. f[i] = f[i - 1] \o s[i]
      BY <1>4, <2>2
    <3> QED
      BY <3>2, <3>3
  <2> QED
    BY <2>1, <2>2
<1>8. PICK G : G = {i \in 0..l : e[i] \in Seq(V)}
  OBVIOUS
<1>9. \A i \in 0..l : i \in G
  <2>1. 0 \in G
    BY <1>6, <1>8
  <2>2. ASSUME NEW i \in 0..(l - 1), i \in G PROVE i + 1 \in G
    <3>1. i + 1 \in 1..l /\ (i + 1) - 1 = i /\ i + 1 \in 0..l
      OBVIOUS
    <3>2. e[i + 1] = e[i] \o s[i + 1] /\ e[i] \in Seq(V) /\ s[i + 1] \in Seq(V)
      BY <1>7, <1>8, <2>2, <3>1
    <3>3. e[i] \o s[i + 1] \in Seq(V)
      BY <3>2
    <3> QED
      BY <1>8, <3>1, <3>2, <3>3
  <2> QED
    BY <2>1, <2>2, CountsUp
<1>10. e \in [0..l -> Seq(V)]
  BY <1>6, <1>8, <1>9
<1>11. e[l] = f[l] /\ e[0] = <<>>
  BY <1>6
<1> QED
  BY <1>5, <1>7, <1>10, <1>11 DEF Flat

Pieces(off, s, l) ==
  /\ off \in [0..l -> Nat] /\ off[0] = 0
  /\ \A i \in 1..l :
       /\ off[i] = off[i - 1] + Len(s[i])
       /\ SubSeq(FlattenSeq(s), off[i - 1] + 1, off[i - 1] + Len(s[i])) = s[i]

\* Each of the sequences is found in FlattenSeq where those before it end.
LEMMA PieceIs ==
  ASSUME NEW V, NEW l \in Nat \ {0}, NEW s \in [1..l -> Seq(V)]
  PROVE  \E off : Pieces(off, s, l)
<1>1. PICK e : Flat(e, V, s, l)
  BY Flattens
<1>2. /\ e \in [0..l -> Seq(V)] /\ FlattenSeq(s) = e[l] /\ e[0] = <<>>
      /\ \A i \in 1..l : e[i] = e[i - 1] \o s[i]
  BY <1>1 DEF Flat
<1>3. PICK off : off = [i \in 0..l |-> Len(e[i])]
  OBVIOUS
<1>4. off \in [0..l -> Nat] /\ off[0] = 0
  BY <1>2, <1>3
<1>5. ASSUME NEW i \in 1..l
      PROVE  /\ off[i] = off[i - 1] + Len(s[i]) /\ off[i - 1] \in Nat
             /\ \A j \in 1..off[i - 1] : e[i][j] = e[i - 1][j]
             /\ \A j \in 1..Len(s[i]) : e[i][off[i - 1] + j] = s[i][j]
  <2>1. PICK x, y \in Seq(V) : x = e[i - 1] /\ y = s[i]
    <3>1. i - 1 \in 0..l
      OBVIOUS
    <3> QED
      BY <1>2, <3>1
  <2>2. e[i] = x \o y /\ off[i - 1] = Len(x) /\ off[i] = Len(x \o y)
    <3>1. i \in 0..l /\ i - 1 \in 0..l
      OBVIOUS
    <3>2. e[i] = e[i - 1] \o s[i]
      BY <1>2
    <3>3. e[i] = x \o y
      BY <2>1, <3>2
    <3> QED
      BY <1>3, <2>1, <3>1, <3>3
  <2>3. /\ Len(x \o y) = Len(x) + Len(y) /\ Len(x) \in Nat
        /\ \A j \in 1..Len(x) : (x \o y)[j] = x[j]
        /\ \A j \in 1..Len(y) : (x \o y)[Len(x) + j] = y[j]
    OBVIOUS
  <2> QED
    BY <2>1, <2>2, <2>3
<1>6. PICK G : G = {m \in 0..l : \A i \in 0..m :
                      off[i] <= off[m] /\ \A j \in 1..off[i] : e[m][j] = e[i][j]}
  OBVIOUS
<1>7. l \in G
  <2>1. 0 \in G
    BY <1>4, <1>6
  <2>2. ASSUME NEW m \in 0..(l - 1), m \in G PROVE m + 1 \in G
    <3>1. PICK n \in 1..l : n = m + 1 /\ n - 1 = m /\ n \in 0..l
      OBVIOUS
    <3>2. /\ off[m] <= off[n] /\ off[n] \in Nat /\ off[m] \in Nat
          /\ \A j \in 1..off[m] : e[n][j] = e[m][j]
      <4>1. /\ off[n] = off[m] + Len(s[n]) /\ off[m] \in Nat
            /\ \A j \in 1..off[m] : e[n][j] = e[m][j]
        <5>1. /\ off[n] = off[n - 1] + Len(s[n]) /\ off[n - 1] \in Nat
              /\ \A j \in 1..off[n - 1] : e[n][j] = e[n - 1][j]
          BY <1>5
        <5> QED
          BY <3>1, <5>1
      <4>2. s[n] \in Seq(V)
        BY <3>1
      <4>3. Len(s[n]) \in Nat
        BY <4>2
      <4> QED
        BY <4>1, <4>3
    <3>3. ASSUME NEW i \in 0..n
          PROVE  off[i] <= off[n] /\ \A j \in 1..off[i] : e[n][j] = e[i][j]
      <4>1. CASE i = n
        BY <1>4, <3>2, <4>1
      <4>2. CASE i # n
        <5>1. i \in 0..m /\ i \in 0..l
          BY <3>1, <4>2
        <5>2. off[i] <= off[m] /\ \A j \in 1..off[i] : e[m][j] = e[i][j]
          BY <1>6, <2>2, <5>1
        <5>3. off[i] \in Nat
          BY <1>4, <5>1
        <5>4. off[i] <= off[n]
          BY <3>2, <5>2, <5>3
        <5>5. ASSUME NEW j \in 1..off[i] PROVE e[n][j] = e[i][j]
          <6>1. j \in 1..off[m]
            BY <3>2, <5>2, <5>3
          <6> QED
            BY <3>2, <5>2, <6>1
        <5> QED
          BY <5>4, <5>5
      <4> QED
        BY <4>1, <4>2
    <3> QED
      BY <1>6, <3>1, <3>3
  <2>3. l \in 0..l
    OBVIOUS
  <2>4. \A k \in 0..l : k \in G
    BY <2>1, <2>2, CountsUp
  <2> QED
    BY <2>3, <2>4
<1>8. ASSUME NEW i \in 1..l
      PROVE  SubSeq(FlattenSeq(s), off[i - 1] + 1, off[i - 1] + Len(s[i])) = s[i]
  <2>1. PICK v, y \in Seq(V) : v = e[l] /\ y = s[i] /\ v = FlattenSeq(s)
    BY <1>2
  <2>2. PICK a, w \in Nat : a = off[i - 1] /\ w = Len(y) /\ off[i] = a + w
    <3>1. Len(y) \in Nat
      BY <2>1
    <3>2. off[i] = off[i - 1] + Len(y) /\ off[i - 1] \in Nat
      BY <1>5, <2>1
    <3> QED
      BY <3>1, <3>2
  <2>3. Len(v) = off[l] /\ i \in 0..l /\ a + w <= Len(v)
    <3>1. i \in 0..l
      OBVIOUS
    <3> QED
      BY <1>3, <1>6, <1>7, <2>1, <2>2, <3>1
  <2>4. \A j \in 1..w : v[a + j] = y[j]
    <3>1. \A j \in 1..(a + w) : v[j] = e[i][j]
      BY ZenonT(30), <1>6, <1>7, <2>1, <2>2, <2>3
    <3>2. \A j \in 1..w : a + j \in 1..(a + w)
      OBVIOUS
    <3> QED
      BY <1>5, <2>1, <2>2, <3>1, <3>2
  <2>5. PICK z : z = SubSeq(v, a + 1, a + w)
    OBVIOUS
  <2>6. z = [j \in 1..w |-> v[a + j]]
    <3>1. (a + w) - (a + 1) + 1 = w /\ \A j \in 1..w : j + (a + 1) - 1 = a + j
      OBVIOUS
    <3>2. z \in Seq(V) /\ Len(z) = w /\ \A j \in 1..w : z[j] = v[a + j]
      BY <2>3, <2>5
    <3> QED
      BY <3>2
  <2>7. y = [j \in 1..w |-> y[j]]
    BY <2>2
  <2>8. z = y
    BY <2>4, <2>6, <2>7
  <2> QED
    BY <2>1, <2>2, <2>5, <2>8
<1> QED
  BY <1>4, <1>5, <1>8 DEF Pieces

-----------------------------------------------------------------------------
(* What is decoded, parameter by parameter.                                 *)

TakenNext(vector, p, seen) ==
  [offset |-> seen.offset + Width(p),
   point  |-> IF IsActive(p, seen.point)
              THEN WithParam(seen.point, p.name,
                     Decoded(p, SubSeq(vector, seen.offset + 1, seen.offset + Width(p))))
              ELSE seen.point]

Decodes(st, vector, o, l) ==
  /\ st[0] = [offset |-> 0, point |-> NoPoint]
  /\ \A k \in 1..l : st[k] = TakenNext(vector, o[k], st[k - 1])

\* Decode goes through the parameters in their order.
LEMMA DecodeIs ==
  ASSUME NEW params, NEW vector, NEW l \in Nat, NEW o, o = OrderedParams(params),
         DOMAIN o = 1..l, \A i \in 1..l : Width(o[i]) \in Int
  PROVE  \E st : Decodes(st, vector, o, l) /\ Decode(vector, params) = st[l].point
<1> DEFINE S == 1..l
           Start == [offset |-> 0, point |-> NoPoint]
           Made(f) == f = [s \in SUBSET S |-> IF s = {} THEN Start
                             ELSE LET x == Max(s) IN TakenNext(vector, o[x], f[s \ {x}])]
<1>1. PICK V : V = {Decoded(o[x[1]], SubSeq(vector, x[2], x[3])) : x \in S \X Int \X Int}
  OBVIOUS
<1>2. PICK N : N = {o[i].name : i \in S}
  OBVIOUS
<1>3. PICK B : B = [offset : Int, point : UNION {[D -> V] : D \in SUBSET N}]
  OBVIOUS
<1>4. Start \in B
  <2>1. NoPoint \in [{} -> V] /\ {} \in SUBSET N
    BY DEF NoPoint
  <2>2. NoPoint \in UNION {[D -> V] : D \in SUBSET N}
    BY <2>1
  <2> QED
    BY <1>3, <2>2
<1>5. ASSUME NEW i \in S, NEW x \in B PROVE TakenNext(vector, o[i], x) \in B
  <2>1. PICK off, at : /\ off \in Int /\ at = x.point /\ off = x.offset
                       /\ x = [offset |-> off, point |-> at]
    BY <1>3
  <2>2. PICK D \in SUBSET N : at \in [D -> V]
    BY <1>3, <2>1
  <2>3. PICK n \in N : n = o[i].name
    BY <1>2
  <2>4. PICK w \in Int : w = Width(o[i])
    OBVIOUS
  <2>5. PICK v : v = Decoded(o[i], SubSeq(vector, off + 1, off + w))
    OBVIOUS
  <2>6. v \in V
    <3>1. <<i, off + 1, off + w>> \in S \X Int \X Int
      BY SMTT(30), <2>1
    <3> QED
      BY <1>1, <2>5, <3>1
  <2>7. WithParam(at, n, v) \in [D \cup {n} -> V]
    BY <2>2, <2>6 DEF WithParam
  <2>8. PICK new : /\ new = IF IsActive(o[i], at) THEN WithParam(at, n, v) ELSE at
                   /\ new \in UNION {[E -> V] : E \in SUBSET N}
    <3>1. D \cup {n} \in SUBSET N
      OBVIOUS
    <3>2. WithParam(at, n, v) \in UNION {[E -> V] : E \in SUBSET N}
      BY <2>7, <3>1
    <3>3. at \in UNION {[E -> V] : E \in SUBSET N}
      BY <2>2
    <3> QED
      BY <3>2, <3>3
  <2>9. TakenNext(vector, o[i], x) = [offset |-> off + w, point |-> new]
    BY <2>1, <2>3, <2>4, <2>5, <2>8 DEF TakenNext
  <2>10. off + w \in Int
    BY <2>1
  <2> QED
    BY <1>3, <2>8, <2>9, <2>10
<1>6. PICK t : t = [x \in S \X B |-> TakenNext(vector, o[x[1]], x[2])]
  OBVIOUS
<1>7. PICK g : Filling(g, t, B, Start, l)
  <2>1. t \in [S \X B -> B]
    BY <1>5, <1>6
  <2> QED
    BY <1>4, <2>1, FillingExists
<1>8. Made(g)
  <2>1. ASSUME NEW s \in (SUBSET S) \ {{}}
        PROVE  g[s] = TakenNext(vector, o[Max(s)], g[s \ {Max(s)}])
    <3>1. PICK i \in S : i = Max(s) /\ g[s \ {i}] \in B /\ g[s] = t[<<i, g[s \ {i}]>>]
      BY <1>7 DEF Filling
    <3> QED
      BY <1>6, <3>1
  <2> QED
    BY <1>7, <2>1 DEF Filling
<1>9. PICK f : f = CHOOSE u : Made(u)
  OBVIOUS
<1>10. Made(f)
  <2> HIDE DEF Made
  <2> QED
    BY <1>8, <1>9
<1>11. Decode(vector, params) = f[S].point
  BY <1>9 DEF Decode, FoldLeft, MapThenFoldSet, TakenNext
<1>12. PICK st : st = [k \in 0..l |-> f[1..k]]
  OBVIOUS
<1>13. st[0] = Start /\ st[l] = f[S]
  <2>1. 1..0 = {} /\ 0 \in 0..l /\ l \in 0..l
    OBVIOUS
  <2> QED
    BY <1>10, <1>12, <2>1
<1>14. ASSUME NEW k \in S PROVE st[k] = TakenNext(vector, o[k], st[k - 1])
  <2>1. PICK s : s = 1..k
    OBVIOUS
  <2>2. /\ k - 1 \in 0..l /\ k \in 0..l
        /\ s \in SUBSET S /\ s # {} /\ Max(s) = k /\ s \ {k} = 1..(k - 1)
    BY <2>1, Upwards
  <2>3. f[s] = TakenNext(vector, o[k], f[s \ {k}])
    BY <1>10, <2>2
  <2> QED
    BY <1>12, <2>1, <2>2, <2>3
<1> QED
  BY <1>11, <1>13, <1>14 DEF Decodes

\* A segment says the value of its parameter.
LEMMA SegmentIs ==
  ASSUME NEW p, p.lo \in Int, p.hi \in Int, p.lo <= p.hi, NEW at,
         IsActive(p, at) => at[p.name] \in Declared(p)
  PROVE  /\ Width(p) \in Nat /\ Segment(p, at) \in Seq(Int)
         /\ Len(Segment(p, at)) = Width(p)
         /\ IsActive(p, at) => Decoded(p, Segment(p, at)) = at[p.name]
<1>1. PICK lo, hi \in Int : lo = p.lo /\ hi = p.hi /\ lo <= hi
  OBVIOUS
<1>2. PICK w \in Nat : w = Width(p)
  <2>1. hi - lo + 1 \in Nat
    BY <1>1
  <2> QED
    BY <1>1, <2>1 DEF Width
<1>3. CASE ~IsActive(p, at)
  <2>1. Segment(p, at) = [i \in 1..w |-> 0]
    BY <1>2, <1>3 DEF Segment
  <2>2. [i \in 1..w |-> 0] \in Seq(Int) /\ Len([i \in 1..w |-> 0]) = w
    OBVIOUS
  <2> QED
    BY <1>2, <1>3, <2>1, <2>2
<1>4. CASE IsActive(p, at) /\ p.type = "categorical"
  <2>1. PICK v \in lo..hi : v = at[p.name]
    BY <1>1, <1>4 DEF Declared
  <2>2. w = hi - lo + 1
    BY <1>1, <1>2, <1>4 DEF Width
  <2>3. PICK n \in 1..w : n = v - lo + 1
    BY <2>2
  <2>4. PICK s : s = [i \in 1..w |-> IF i = n THEN 1 ELSE 0]
    OBVIOUS
  <2>5. Segment(p, at) = s
    BY <1>1, <1>2, <1>4, <2>1, <2>3, <2>4 DEF Segment
  <2>6. s \in Seq(Int) /\ Len(s) = w /\ DOMAIN s = 1..w
    BY <2>4
  <2> DEFINE Peak(i) == /\ \A j \in DOMAIN s : s[j] <= s[i]
                        /\ \A j \in 1..(i - 1) : s[j] < s[i]
  <2>7. Peak(n)
    BY <2>4, <2>6
  <2>8. ASSUME NEW i \in DOMAIN s, Peak(i) PROVE i = n
    BY <2>4, <2>6, <2>8
  <2>9. PICK c : c = CHOOSE i \in DOMAIN s : Peak(i)
    OBVIOUS
  <2>10. c = n
    <3> HIDE DEF Peak
    <3> QED
      BY <2>6, <2>7, <2>8, <2>9
  <2>11. Decoded(p, s) = lo - 1 + n
    <3>1. Decoded(p, s) = p.lo - 1 + c
      BY <1>4, <2>9 DEF Decoded
    <3> QED
      BY <1>1, <2>10, <3>1
  <2>12. lo - 1 + n = v
    BY <2>3
  <2> QED
    BY <1>2, <2>1, <2>5, <2>6, <2>11, <2>12
<1>5. CASE IsActive(p, at) /\ p.type # "categorical"
  <2>1. PICK v \in lo..hi : v = at[p.name]
    BY <1>1, <1>5 DEF Declared
  <2>2. w = 1
    BY <1>2, <1>5 DEF Width
  <2>3. Clamp(v - lo, 0, hi - lo) = v - lo
    BY <2>1 DEF Clamp
  <2>4. Segment(p, at) = <<v - lo>>
    BY <1>1, <1>5, <2>1, <2>3 DEF Segment
  <2>5. Decoded(p, <<v - lo>>) = v
    BY <1>1, <1>5, <2>3 DEF Decoded
  <2>6. <<v - lo>> \in Seq(Int) /\ Len(<<v - lo>>) = 1
    OBVIOUS
  <2> QED
    BY <1>2, <2>1, <2>2, <2>4, <2>5, <2>6
<1> QED
  BY <1>3, <1>4, <1>5

\* An accepted space whose values are numbers.
Spacious(params) ==
  /\ params \in Seq(ToSet(params)) /\ SpaceAccepted(params)
  /\ \A p \in ToSet(params) : p.lo \in Int /\ p.hi \in Int

\* The encoding of a point is decoded to it.
LEMMA RoundTripOf ==
  ASSUME NEW params, Spacious(params), NEW at, FullPoint(at, params, {})
  PROVE  Decode(Encode(at, params), params) = at
<1>1. params \in Seq(ToSet(params)) /\ Arranged(params)
  BY AcceptedArranged DEF Spacious
<1>2. PICK q, l : q = Order(params) /\ l = Len(params)
  OBVIOUS
<1>3. /\ l \in Nat /\ Names(params) = {q[i] : i \in 1..l}
      /\ \A i, j \in 1..l : q[i] = q[j] => i = j
  BY <1>1, <1>2, PlacesIn
<1>4. PICK o : o = OrderedParams(params) /\ o = [i \in 1..l |-> Named(params, q[i])]
  BY <1>1, <1>2, PlacesIn
<1>5. \A i \in 1..l : /\ o[i] \in ToSet(params) /\ o[i].name = q[i]
                      /\ \A c \in DOMAIN o[i].when : \E j \in 1..(i - 1) : q[j] = c
  <2>1. \A i \in 1..l :
          /\ Named(params, q[i]) \in ToSet(params) /\ Named(params, q[i]).name = q[i]
          /\ \A c \in DOMAIN Named(params, q[i]).when : \E j \in 1..(i - 1) : q[j] = c
    <3>1. \A i \in 1..Len(params) :
            /\ Named(params, Order(params)[i]) \in ToSet(params)
            /\ Named(params, Order(params)[i]).name = Order(params)[i]
            /\ \A c \in DOMAIN Named(params, Order(params)[i]).when :
                 \E j \in 1..(i - 1) : Order(params)[j] = c
      BY <1>1, PlacesIn
    <3> QED
      BY <1>2, <3>1
  <2> QED
    BY <1>4, <2>1
<1>6. l # 0 /\ \A p \in ToSet(params) : p.lo \in Int /\ p.hi \in Int /\ p.lo <= p.hi
  BY <1>2 DEF Spacious, SpaceAccepted
<1>7. /\ DOMAIN at \subseteq Names(params)
      /\ \A p \in ToSet(params) : p.name \in DOMAIN at <=> IsActive(p, at)
      /\ \A n \in DOMAIN at : at[n] \in Declared(Named(params, n))
  <2>1. \A p \in ToSet(params) : p.name \in Names(params) /\ Named(params, p.name) = p
    BY <1>1, SpaceIs
  <2> QED
    BY <2>1 DEF FullPoint
<1>8. \A i \in 1..l : /\ q[i] \in DOMAIN at <=> IsActive(o[i], at)
                      /\ q[i] \in DOMAIN at => at[q[i]] \in Declared(o[i])
  BY <1>4, <1>5, <1>7
<1>9. PICK s : s = [i \in 1..l |-> Segment(o[i], at)]
  OBVIOUS
<1>10. \A i \in 1..l : /\ Width(o[i]) \in Nat /\ s[i] \in Seq(Int) /\ Len(s[i]) = Width(o[i])
                       /\ q[i] \in DOMAIN at => Decoded(o[i], s[i]) = at[q[i]]
  <2>1. ASSUME NEW i \in 1..l
        PROVE  /\ Width(o[i]) \in Nat /\ s[i] \in Seq(Int) /\ Len(s[i]) = Width(o[i])
               /\ q[i] \in DOMAIN at => Decoded(o[i], s[i]) = at[q[i]]
    <3>1. PICK p : p = o[i]
      OBVIOUS
    <3>2. p.lo \in Int /\ p.hi \in Int /\ p.lo <= p.hi /\ p.name = q[i]
      BY <1>5, <1>6, <3>1
    <3>3. IsActive(p, at) => at[p.name] \in Declared(p)
      BY <1>8, <3>1, <3>2
    <3>4. /\ Width(p) \in Nat /\ Segment(p, at) \in Seq(Int) /\ Len(Segment(p, at)) = Width(p)
          /\ IsActive(p, at) => Decoded(p, Segment(p, at)) = at[p.name]
      BY <3>2, <3>3, SegmentIs
    <3> QED
      BY <1>8, <1>9, <3>1, <3>2, <3>4
  <2> QED
    BY <2>1
<1>11. PICK vector : vector = FlattenSeq(s) /\ vector = Encode(at, params)
  <2>1. Encode(at, params) = FlattenSeq(s)
    <3>1. DOMAIN o = 1..l
      BY <1>4
    <3> QED
      BY <1>4, <1>9, <3>1 DEF Encode
  <2> QED
    BY <2>1
<1>12. PICK off \in [0..l -> Nat] :
         /\ off[0] = 0
         /\ \A i \in 1..l : /\ off[i] = off[i - 1] + Width(o[i])
                            /\ SubSeq(vector, off[i - 1] + 1, off[i - 1] + Width(o[i])) = s[i]
  <2>1. l \in Nat \ {0} /\ s \in [1..l -> Seq(Int)]
    BY <1>3, <1>6, <1>9, <1>10
  <2>2. PICK off : Pieces(off, s, l)
    BY <2>1, PieceIs
  <2> QED
    BY ZenonT(30), <1>10, <1>11, <2>2 DEF Pieces
<1>13. PICK st : Decodes(st, vector, o, l) /\ Decode(vector, params) = st[l].point
  <2>1. DOMAIN o = 1..l
    BY <1>4
  <2>2. o = OrderedParams(params)
    BY <1>4
  <2>3. \A i \in 1..l : Width(o[i]) \in Int
    BY <1>10
  <2>4. l \in Nat
    BY <1>3
  <2> QED
    BY <2>1, <2>2, <2>3, <2>4, DecodeIs
<1>14. params \in Seq(ToSet(params)) /\ Arranged(params) /\ FullPoint(at, params, {})
  BY <1>1
<1>15. PICK G : G = {k \in 0..l : st[k].offset = off[k] /\ st[k].point = Part(at, params, k)}
  OBVIOUS
<1>16. 0 \in G
  <2>1. 0 \in 0..l
    BY <1>3
  <2>2. Part(at, params, 0) = NoPoint
    BY <1>14, PartEnds
  <2>3. st[0].offset = 0 /\ st[0].point = NoPoint
    BY <1>13 DEF Decodes
  <2> QED
    BY <1>12, <1>15, <2>1, <2>2, <2>3
<1>17. ASSUME NEW k \in 0..(l - 1), k \in G PROVE k + 1 \in G
  <2>1. PICK i \in 1..l : i = k + 1 /\ i - 1 = k /\ i \in 0..l /\ k \in 0..l /\ k \in Nat /\ k < l
    BY <1>3
  <2>2. PICK p : p = o[i] /\ p.name = q[i]
    BY <1>5
  <2>3. PICK kept : kept = Part(at, params, k)
    OBVIOUS
  <2>4. st[k].offset = off[k] /\ st[k].point = kept /\ st[i] = TakenNext(vector, p, st[k])
    BY <1>13, <1>15, <1>17, <2>1, <2>2, <2>3 DEF Decodes
  <2>5. PICK n : n = q[i] /\ n = Order(params)[k + 1] /\ p = Named(params, n)
    BY <1>2, <1>4, <2>1, <2>2
  <2>6. /\ IsActive(p, kept) <=> n \in DOMAIN at
        /\ Part(at, params, i) = IF n \in DOMAIN at THEN WithParam(kept, n, at[n]) ELSE kept
    BY <1>2, <1>14, <2>1, <2>3, <2>5, PartGrows
  <2>7. st[i].offset = off[i]
    BY <1>12, <2>1, <2>2, <2>4 DEF TakenNext
  <2>8. CASE n \in DOMAIN at
    <3>1. PICK a \in Nat : a = off[k]
      BY <1>12, <2>1
    <3>2. Decoded(p, SubSeq(vector, a + 1, a + Width(p))) = at[n]
      BY ZenonT(30), <1>10, <1>12, <2>1, <2>2, <2>5, <2>8, <3>1
    <3>3. st[i].point = WithParam(kept, n, at[n])
      BY <2>2, <2>4, <2>5, <2>6, <2>8, <3>1, <3>2 DEF TakenNext
    <3> QED
      BY <1>15, <2>1, <2>6, <2>7, <2>8, <3>3
  <2>9. CASE n \notin DOMAIN at
    <3>1. st[i].point = kept
      BY <2>4, <2>6, <2>9 DEF TakenNext
    <3> QED
      BY <1>15, <2>1, <2>6, <2>7, <2>9, <3>1
  <2> QED
    BY <2>8, <2>9
<1>18. l \in G
  <2>1. \A k \in 0..l : k \in G
    BY <1>3, <1>16, <1>17, CountsUp
  <2> QED
    BY <1>3, <2>1
<1>19. Part(at, params, l) = at
  BY <1>2, <1>14, PartEnds
<1> QED
  BY <1>11, <1>13, <1>15, <1>18, <1>19

LEMMA RoundTrip ==
  ASSUME contract \in Contracts, Loaded, NEW at, PointOf(at, Params, Rules),
         \A p \in ToSet(Params) : ~Inverts(p)
  PROVE  Decode(Encode(at, Params), Params) = at
<1>1. PICK params : params = Params
  OBVIOUS
<1>2. params \in Seq(ToSet(params)) /\ SpaceAccepted(params)
  BY <1>1, ContractAccepted DEF Loaded
<1>3. \A p \in ToSet(params) : p.lo \in Int /\ p.hi \in Int
  <2>1. \A p \in ToSet(Params) :
          p \in [name : STRING, type : STRING, lo : Int, hi : Int, when : {p.when}]
    BY DeclarationAssumption DEF Params
  <2> QED
    BY <1>1, <2>1
<1>4. FullPoint(at, params, {})
  <2>1. IsPoint(at) /\ at = [n \in DOMAIN at |-> at[n]]
    BY PointIs DEF PointOf
  <2>2. \A n \in Names(params) : Named(params, n) \in ToSet(params) /\ Named(params, n).name = n
    BY <1>1, SpaceIs, LoadedIs
  <2>3. /\ DOMAIN at \subseteq Names(params)
        /\ \A n \in DOMAIN at : at[n] \in Declared(Named(params, n))
        /\ \A p \in ToSet(params) : p.name \in DOMAIN at <=> IsActive(p, at)
    BY <1>1, <2>1, <2>2 DEF IsPoint, IsActive
  <2> QED
    BY <2>1, <2>2, <2>3 DEF FullPoint
<1>5. Decode(Encode(at, params), params) = at
  BY <1>2, <1>3, <1>4, RoundTripOf DEF Spacious
<1> QED
  BY <1>1, <1>5

-----------------------------------------------------------------------------
(* What the invariant says of the offers.                                   *)

\* An offer is a point the contract allows, and survives being encoded.
LEMMA OffersFit ==
  ASSUME SamplingInv PROVE OfferFits
<1> SUFFICES ASSUME NEW i \in DOMAIN candidates
             PROVE  /\ IsPoint(candidates[i])
                    /\ Feasible(candidates[i], Rules)
                    /\ \/ \E p \in ToSet(Params) : Inverts(p)
                       \/ Decode(Encode(candidates[i], Params), Params) = candidates[i]
  BY DEF OfferFits
<1>1. contract \in Contracts /\ Tried
  BY DEF SamplingInv
<1>2. PICK at : at = candidates[i] /\ PointOf(at, Params, Rules) /\ Feasible(at, Rules)
  BY <1>1 DEF Tried
<1>3. Loaded
  <2>1. attempts # 0
    <3>1. PICK T : candidates \in Seq(T)
      BY <1>1 DEF Tried
    <3>2. Len(candidates) \in Nat /\ Len(candidates) # 0
      BY <3>1
    <3>3. Len(candidates) <= attempts
      BY <1>1 DEF Tried
    <3> QED
      BY <3>2, <3>3
  <2> QED
    BY <2>1 DEF SamplingInv
<1>4. IsPoint(at)
  BY <1>2, PointIs
<1>5. (\A p \in ToSet(Params) : ~Inverts(p)) => Decode(Encode(at, Params), Params) = at
  BY <1>1, <1>2, <1>3, RoundTrip
<1> QED
  BY <1>2, <1>4, <1>5

\* What Sampling is asked for follows from the invariant.
LEMMA SamplingShows == SamplingInv => SamplingIsExact
<1> SUFFICES ASSUME SamplingInv PROVE SamplingIsExact
  OBVIOUS
<1>1. contract \in Contracts /\ Tried
  BY DEF SamplingInv
<1>2. TighteningIsExact
  <2> SUFFICES ASSUME stage = "drawing", NEW p \in ToSet(Params), p.type \in Numeric,
                      NEW v \in Declared(p)
               PROVE  v \in Declared(Tightened(p, Rules))
                        <=> \A r \in BoundRules(Rules) : ~BoundViolated(r, [n \in {p.name} |-> v])
    BY DEF TighteningIsExact
  <2>1. SpaceAccepted(Params) /\ RulesAccepted(Rules, Params)
    BY DEF SamplingInv, Loaded
  <2>2. ContractIs(Params, Rules)
    BY <1>1, ContractAccepted
  <2>3. PICK at : at = [n \in {p.name} |-> v]
    OBVIOUS
  <2>4. DOMAIN at = {p.name} /\ at[p.name] = v
    BY <2>3
  <2>5. v \in Declared(Tightened(p, Rules))
          <=> \A r \in BoundRules(Rules) : ~BoundViolated(r, at)
    BY <2>1, <2>2, <2>4, TightensExactly
  <2> QED
    BY <2>3, <2>5
<1>3. FailuresExplained
  <2>1. attempts = Len(candidates) \/ SumFunction(rejects) >= attempts - Len(candidates)
    <3>1. PICK T : candidates \in Seq(T)
      BY <1>1 DEF Tried
    <3>2. Len(candidates) \in Nat /\ attempts \in Int
      BY <1>1, <3>1, BudgetIs DEF Tried
    <3>3. attempts - Len(candidates) <= SumFunction(rejects)
      BY <1>1 DEF Tried
    <3>4. PICK a : a = attempts - Len(candidates)
      OBVIOUS
    <3> QED
      BY <3>3
  <2>2. stage = "raised" => \E p \in ToSet(Params) : Inverts(p)
    BY DEF SamplingInv
  <2>3. stage = "infeasible" => attempts = Budget
    BY DEF SamplingInv
  <2> QED
    BY <2>1, <2>2, <2>3 DEF FailuresExplained
<1>4. FillInIgnored
  BY DEF SamplingInv, FillInIgnored
<1> QED
  BY <1>2, <1>3, <1>4, OffersFit DEF SamplingIsExact

-----------------------------------------------------------------------------
(* Sums of integers.                                                        *)

Sums(a, f, T) == AddsUp(a, f, SUBSET T) /\ \A s \in SUBSET T : a[s] \in Int

\* The sums over the parts of a set are integers.
LEMMA SumTable ==
  ASSUME NEW T, IsFiniteSet(T), NEW f \in [T -> Int]
  PROVE  \E a : Sums(a, f, T) /\ SumFunction(f) = a[T]
<1>1. PICK a : AddsUp(a, f, SUBSET T) /\ SumFunction(f) = a[T]
  <2>1. DOMAIN f = T
    OBVIOUS
  <2> QED
    BY <2>1, SumIs, SumIsFold
<1>2. PICK ch : ch = Chosen(T) /\ Picks(ch, T)
  BY SetFoldIs
<1>3. PICK I : I = [s \in SUBSET T |-> Int]
  OBVIOUS
<1>4. a[{}] \in I[{}]
  <2>1. a[{}] = 0
    BY <1>1 DEF AddsUp
  <2> QED
    BY <1>3, <2>1
<1>5. ASSUME NEW s \in (SUBSET T) \ {{}}, a[s \ {ch[s]}] \in I[s \ {ch[s]}] PROVE a[s] \in I[s]
  <2>1. ch[s] = First(s) /\ ch[s] \in T
    BY <1>2 DEF Chosen, First, Picks
  <2>2. a[s] = f[ch[s]] + a[s \ {ch[s]}]
    BY <1>1, <2>1 DEF AddsUp
  <2>3. PICK m, n \in Int : m = f[ch[s]] /\ n = a[s \ {ch[s]}]
    BY <1>3, <1>5, <2>1
  <2> QED
    BY <1>3, <2>2, <2>3
<1>6. \A s \in SUBSET T : a[s] \in I[s]
  BY <1>2, <1>4, <1>5, SetsGrow
<1> QED
  BY <1>1, <1>3, <1>6 DEF Sums

\* Zeros add up to zero.
LEMMA SumOfZeros ==
  ASSUME NEW T, IsFiniteSet(T), NEW f \in [T -> Int], \A x \in T : f[x] = 0
  PROVE  SumFunction(f) = 0
<1>1. PICK a : AddsUp(a, f, SUBSET T) /\ SumFunction(f) = a[T]
  BY SumTable DEF Sums
<1>2. PICK ch : ch = Chosen(T) /\ Picks(ch, T)
  BY SetFoldIs
<1>3. PICK I : I = [s \in SUBSET T |-> {0}]
  OBVIOUS
<1>4. a[{}] \in I[{}]
  BY <1>1, <1>3 DEF AddsUp
<1>5. ASSUME NEW s \in (SUBSET T) \ {{}}, a[s \ {ch[s]}] \in I[s \ {ch[s]}] PROVE a[s] \in I[s]
  <2>1. ch[s] = First(s) /\ ch[s] \in T
    BY <1>2 DEF Chosen, First, Picks
  <2>2. a[s] = f[ch[s]] + a[s \ {ch[s]}]
    BY <1>1, <2>1 DEF AddsUp
  <2>3. f[ch[s]] = 0 /\ a[s \ {ch[s]}] = 0
    BY <1>3, <1>5, <2>1
  <2> QED
    BY <1>3, <2>2, <2>3
<1>6. \A s \in SUBSET T : a[s] \in I[s]
  BY <1>2, <1>4, <1>5, SetsGrow
<1> QED
  BY <1>1, <1>3, <1>6

\* Any element can be taken first.
AnyFirst(a, f, T) == \A s \in SUBSET T : \A x \in s : a[s] = f[x] + a[s \ {x}]

\* A sum is any of its elements and the sum of the others.
LEMMA SumPicks ==
  ASSUME NEW T, IsFiniteSet(T), NEW f \in [T -> Int], NEW a, Sums(a, f, T)
  PROVE  AnyFirst(a, f, T)
<1>1. AddsUp(a, f, SUBSET T) /\ \A s \in SUBSET T : a[s] \in Int
  BY DEF Sums
<1> DEFINE Good(s) == \A x \in s : a[s] = f[x] + a[s \ {x}]
           Sizes == {n \in Nat : \E s \in SUBSET T : Cardinality(s) = n /\ ~Good(s)}
<1>2. ASSUME Sizes # {} PROVE FALSE
  <2>1. PICK n \in Sizes : \A m \in Sizes : n <= m
    <3>1. Sizes \in SUBSET Nat
      OBVIOUS
    <3> HIDE DEF Sizes
    <3> QED
      BY <1>2, <3>1, LeastOfNaturals
  <2>2. PICK s \in SUBSET T : Cardinality(s) = n /\ ~Good(s)
    BY <2>1
  <2>3. PICK x \in s : a[s] # f[x] + a[s \ {x}]
    BY <2>2
  <2>4. ASSUME NEW z \in s PROVE Good(s \ {z}) /\ s \ {z} \in SUBSET T
    <3>1. IsFiniteSet(s)
      BY FS_Subset
    <3>2. PICK t : t = s \ {z}
      OBVIOUS
    <3>3. Cardinality(t) = Cardinality(s) - 1 /\ IsFiniteSet(t)
      BY <3>1, <3>2, FS_RemoveElement
    <3>4. Cardinality(t) \in Nat /\ Cardinality(t) = n - 1
      BY <2>2, <3>3, FS_CardinalityType
    <3>5. ~(n <= n - 1) /\ t \in SUBSET T
      BY <2>1, <3>2
    <3>6. Cardinality(t) \notin Sizes
      <4> HIDE DEF Sizes
      <4> QED
        BY <2>1, <3>4, <3>5
    <3>7. Good(t)
      BY <3>4, <3>5, <3>6
    <3> QED
      BY <3>2, <3>5, <3>7
  <2>5. PICK y \in s : y = First(s)
    BY <2>3 DEF First
  <2>6. a[s] = f[y] + a[s \ {y}]
    BY <1>1, <2>5 DEF AddsUp
  <2>7. x # y
    BY <2>3, <2>6
  <2>8. PICK t : t = s \ {x, y} /\ t = (s \ {y}) \ {x} /\ t = (s \ {x}) \ {y}
    OBVIOUS
  <2>9. a[s \ {y}] = f[x] + a[t]
    BY <2>4, <2>7, <2>8
  <2>10. a[s \ {x}] = f[y] + a[t]
    BY <2>4, <2>7, <2>8
  <2>11. PICK i, j, k \in Int : i = f[x] /\ j = f[y] /\ k = a[t]
    BY <1>1, <2>8
  <2>12. a[s] = j + (i + k) /\ a[s \ {x}] = j + k
    BY <2>6, <2>9, <2>10, <2>11
  <2> QED
    BY <2>3, <2>11, <2>12
<1>3. ASSUME NEW s \in SUBSET T PROVE Good(s)
  <2>1. IsFiniteSet(s)
    BY FS_Subset
  <2>2. Cardinality(s) \in Nat
    BY <2>1, FS_CardinalityType
  <2> QED
    BY <1>2, <2>2
<1> QED
  BY <1>3 DEF AnyFirst

\* The sum over a part reads that part only.
LEMMA SumWithin ==
  ASSUME NEW T, IsFiniteSet(T), NEW f \in [T -> Int], NEW a, Sums(a, f, T),
         NEW A \in SUBSET T, NEW g \in [A -> Int], \A x \in A : g[x] = f[x]
  PROVE  SumFunction(g) = a[A]
<1>1. AddsUp(a, f, SUBSET T)
  BY DEF Sums
<1>2. IsFiniteSet(A) /\ g \in [A -> Int] /\ DOMAIN g = A
  BY FS_Subset
<1>3. PICK b : AddsUp(b, g, SUBSET A) /\ SumFunction(g) = b[A]
  BY <1>2, SumTable DEF Sums
<1>4. PICK ch : ch = Chosen(A) /\ Picks(ch, A)
  BY <1>2, SetFoldIs
<1>5. PICK I : I = [s \in SUBSET A |-> {a[s]}]
  OBVIOUS
<1>6. b[{}] \in I[{}]
  BY <1>1, <1>3, <1>5 DEF AddsUp
<1>7. ASSUME NEW s \in (SUBSET A) \ {{}}, b[s \ {ch[s]}] \in I[s \ {ch[s]}] PROVE b[s] \in I[s]
  <2>1. ch[s] = First(s) /\ ch[s] \in A
    BY <1>4 DEF Chosen, First, Picks
  <2>2. PICK t : t = s \ {ch[s]} /\ t \in SUBSET A
    OBVIOUS
  <2>3. b[s] = g[ch[s]] + b[t] /\ a[s] = f[ch[s]] + a[t]
    BY <1>1, <1>3, <2>1, <2>2 DEF AddsUp
  <2>4. b[t] = a[t] /\ g[ch[s]] = f[ch[s]]
    BY <1>5, <1>7, <2>1, <2>2
  <2> QED
    BY <1>5, <2>3, <2>4
<1>8. \A s \in SUBSET A : b[s] \in I[s]
  BY ZenonT(30), <1>2, <1>4, <1>6, <1>7, SetsGrow
<1> QED
  BY <1>3, <1>5, <1>8

\* A sum is that of a part and that of the rest.
Shares(f, g, h, T, A) ==
  /\ IsFiniteSet(T) /\ A \in SUBSET T /\ f \in [T -> Int]
  /\ g \in [A -> Int] /\ \A x \in A : g[x] = f[x]
  /\ h \in [T \ A -> Int] /\ \A x \in T \ A : h[x] = f[x]

\* So a sum is that of a part and that of the rest.
LEMMA SumParts ==
  ASSUME NEW T, NEW f, NEW A, NEW g, NEW h, Shares(f, g, h, T, A)
  PROVE  /\ SumFunction(f) \in Int /\ SumFunction(g) \in Int /\ SumFunction(h) \in Int
         /\ SumFunction(f) = SumFunction(g) + SumFunction(h)
<1> USE DEF Shares
<1>1. PICK a : Sums(a, f, T) /\ SumFunction(f) = a[T]
  BY SumTable
<1>2. AddsUp(a, f, SUBSET T) /\ SumFunction(f) = a[T] /\ \A s \in SUBSET T : a[s] \in Int
  BY <1>1 DEF Sums
<1>3. PICK B : B = T \ A /\ B \in SUBSET T
  OBVIOUS
<1>4. h \in [B -> Int] /\ \A x \in B : h[x] = f[x]
  BY <1>3
<1>5. SumFunction(g) = a[A] /\ SumFunction(h) = a[B]
  <2>1. SumFunction(g) = a[A]
    BY <1>1, SumWithin
  <2>2. SumFunction(h) = a[B]
    BY <1>1, <1>3, <1>4, SumWithin
  <2> QED
    BY <2>1, <2>2
<1>6. IsFiniteSet(B)
  BY <1>3, FS_Subset
<1>7. PICK ch : ch = Chosen(B) /\ Picks(ch, B)
  BY <1>6, SetFoldIs
<1>8. PICK I : I = [s \in SUBSET B |-> {v \in Int : v = a[s] /\ a[A \cup s] = a[A] + a[s]}]
  OBVIOUS
<1>9. a[{}] \in I[{}]
  <2>1. a[{}] = 0 /\ A \cup {} = A
    BY <1>2 DEF AddsUp
  <2> QED
    BY <1>2, <1>8, <2>1
<1>10. \A s \in SUBSET T : \A x \in s : a[s] = f[x] + a[s \ {x}]
  <2>1. AnyFirst(a, f, T)
    BY <1>1, SumPicks
  <2> QED
    BY <2>1 DEF AnyFirst
<1>11. ASSUME NEW s \in (SUBSET B) \ {{}}, a[s \ {ch[s]}] \in I[s \ {ch[s]}] PROVE a[s] \in I[s]
  <2>1. PICK y \in s : y = ch[s] /\ y \in B
    BY <1>7 DEF Picks
  <2>2. PICK t : t = s \ {y}
    OBVIOUS
  <2>3. t \in SUBSET B /\ t \in SUBSET T /\ s \in SUBSET T
    BY <1>3, <2>2
  <2>4. a[A \cup t] = a[A] + a[t]
    BY <1>8, <1>11, <2>1, <2>2, <2>3
  <2>5. a[s] = f[y] + a[t]
    BY <1>10, <2>2, <2>3
  <2>6. PICK u : u = A \cup s
    OBVIOUS
  <2>7. y \in u /\ u \in SUBSET T /\ u \ {y} = A \cup t
    <3>1. y \notin A
      BY <1>3, <2>1
    <3> QED
      BY <2>2, <2>6, <2>3, <3>1
  <2>8. a[u] = f[y] + a[A \cup t]
    <3>1. a[u] = f[y] + a[u \ {y}]
      BY <1>10, <2>7
    <3> QED
      BY <2>7, <3>1
  <2>9. PICK i, j, k \in Int : i = f[y] /\ j = a[A] /\ k = a[t]
    BY <1>2, <1>3, <2>1, <2>3
  <2>10. a[A \cup s] = a[A] + a[s]
    BY <2>4, <2>5, <2>6, <2>8, <2>9
  <2> QED
    BY <1>2, <1>8, <2>10, <2>3
<1>12. \A s \in SUBSET B : a[s] \in I[s]
  BY <1>6, <1>7, <1>9, <1>11, SetsGrow
<1>13. a[A \cup B] = a[A] + a[B]
  BY <1>8, <1>12
<1>14. A \cup B = T
  BY <1>3
<1> QED
  BY <1>2, <1>3, <1>5, <1>13, <1>14

-----------------------------------------------------------------------------
(* What is known of a space and rules that the codec accepts.               *)

RulesTyped(rules) ==
  /\ \A r \in ToSet(rules) : r.kind \in {"bound", "linear", "forbidden"}
  /\ \A r \in LinearRules(rules) : r.terms \in [DOMAIN r.terms -> Int] /\ r.rhs \in Int

TreeIs(defs) ==
  /\ defs \in Seq(ToSet(defs)) /\ Arranged(defs)
  /\ \A p \in ToSet(defs) : p.lo \in Int /\ p.hi \in Int
  /\ \A p \in ToSet(defs) : Conditional(p) =>
       /\ DOMAIN p.when = {Controller(p)} /\ p.when[Controller(p)] = {Calling(p)}
       /\ Calling(p) \in Int

WithinBounds(defs, r) ==
  \A p \in ToSet(defs) : p.name = r.param =>
    \A v \in Declared(p) : (\A m \in r.min : ~(v < m)) /\ \A m \in r.max : ~(v > m)

Weighed(defs, r) ==
  /\ DOMAIN r.terms # {} /\ DOMAIN r.terms \subseteq Names(defs)
  /\ r.terms \in [DOMAIN r.terms -> Int] /\ r.rhs \in Int
  /\ \A n \in DOMAIN r.terms : ~Conditional(Named(defs, n)) /\ Named(defs, n).type \in Numeric

Coded(defs, rules) ==
  /\ TreeIs(defs)
  /\ rules \in Seq(ToSet(rules))
  /\ \A r \in ToSet(rules) :
       \/ r.kind = "bound" /\ WithinBounds(defs, r)
       \/ r.kind = "linear" /\ Weighed(defs, r)
       \/ r.kind = "forbidden" /\ DOMAIN r.when # {}

\* The tightened definitions are the parameters, in an order that suits, with less range.
LEMMA DefinitionsAre ==
  ASSUME NEW params, NEW rules, ContractIs(params, rules), SpaceAccepted(params),
         RulesAccepted(rules, params), NEW defs, defs = Definitions(params, rules)
  PROVE  /\ defs \in Seq(ToSet(defs)) /\ Arranged(defs) /\ Names(defs) = Names(params)
         /\ \A p \in ToSet(defs) : \E q \in ToSet(params) : p = Tightened(q, rules)
         /\ \A n \in Names(params) : /\ Named(defs, n) = Tightened(Named(params, n), rules)
                                     /\ Named(defs, n).when = Named(params, n).when
                                     /\ Named(defs, n).type = Named(params, n).type
<1>1. params \in Seq(ToSet(params)) /\ Arranged(params)
  BY AcceptedArranged DEF ContractIs
<1>2. /\ DOMAIN params = 1..Len(params) /\ Len(params) \in Nat
      /\ Cardinality(Names(params)) = Len(params)
      /\ \A i \in DOMAIN params :
              params[i] \in ToSet(params) /\ params[i].name \in Names(params)
      /\ \A p \in ToSet(params) : p.name \in Names(params) /\ Named(params, p.name) = p
      /\ \A n \in Names(params) : Named(params, n) \in ToSet(params) /\ Named(params, n).name = n
  BY <1>1, SpaceIs
<1>3. \A q \in ToSet(params) :
        /\ Tightened(q, rules).name = q.name /\ Tightened(q, rules).type = q.type
        /\ Tightened(q, rules).when = q.when
  BY TightenedIs
<1>4. DOMAIN defs = DOMAIN params /\ \A i \in DOMAIN defs : defs[i] = Tightened(params[i], rules)
  BY DEF Definitions
<1>5. defs \in Seq(ToSet(defs)) /\ Len(defs) = Len(params)
  <2>1. defs = [i \in 1..Len(params) |-> defs[i]]
    BY <1>2 DEF Definitions
  <2>2. \A i \in 1..Len(params) : defs[i] \in ToSet(defs)
    BY <1>2, <1>4 DEF ToSet
  <2> QED
    BY <1>2, <2>1, <2>2
<1>6. \A p \in ToSet(defs) : \E q \in ToSet(params) : p = Tightened(q, rules)
  BY <1>2, <1>4 DEF ToSet
<1>7. \A q \in ToSet(params) : Tightened(q, rules) \in ToSet(defs)
  BY <1>4 DEF ToSet
<1>8. Names(defs) = Names(params)
  BY <1>3, <1>6, <1>7 DEF Names
<1>9. ASSUME NEW n \in Names(params)
      PROVE  Named(defs, n) = Tightened(Named(params, n), rules)
  <2>1. PICK p \in ToSet(defs) : p = Named(defs, n) /\ p.name = n
    BY <1>8 DEF Names, Named
  <2>2. PICK q \in ToSet(params) : p = Tightened(q, rules)
    BY <1>6
  <2>3. q.name = n
    BY <1>3, <2>1, <2>2
  <2> QED
    BY <1>2, <2>1, <2>2, <2>3
<1>10. \A n \in Names(params) : /\ Named(defs, n).when = Named(params, n).when
                                /\ Named(defs, n).type = Named(params, n).type
  BY <1>2, <1>3, <1>9
<1>11. Arranged(defs)
  <2>1. \A p \in ToSet(defs) : DOMAIN p.when \in SUBSET (Names(defs) \ {p.name})
    BY <1>1, <1>3, <1>6, <1>8 DEF Arranged
  <2>2. Acyclic(defs)
    BY <1>1, <1>8, <1>10 DEF Arranged, Acyclic
  <2> QED
    BY <1>2, <1>5, <1>8, <2>1, <2>2 DEF Arranged
<1> QED
  BY <1>5, <1>6, <1>8, <1>9, <1>10, <1>11

\* What the validator and the codec accept is as above.
LEMMA AcceptedCoded ==
  ASSUME NEW params, NEW rules, ContractIs(params, rules), RulesTyped(rules),
         SpaceAccepted(params), RulesAccepted(rules, params),
         NEW defs, defs = Definitions(params, rules), CodecAccepted(defs, rules)
  PROVE  Coded(defs, rules)
<1>1. /\ defs \in Seq(ToSet(defs)) /\ Arranged(defs) /\ Names(defs) = Names(params)
      /\ \A p \in ToSet(defs) : \E q \in ToSet(params) : p = Tightened(q, rules)
      /\ \A n \in Names(params) : /\ Named(defs, n) = Tightened(Named(params, n), rules)
                                  /\ Named(defs, n).when = Named(params, n).when
                                  /\ Named(defs, n).type = Named(params, n).type
  BY DefinitionsAre
<1>2. \A q \in ToSet(params) : \A t : t = Tightened(q, rules) =>
        /\ t.name = q.name /\ t.type = q.type /\ t.when = q.when
        /\ t.lo \in Int /\ t.hi \in Int /\ q.lo \in Int /\ q.hi \in Int /\ q.lo <= q.hi
        /\ q.type \in Numeric => q.lo <= t.lo /\ t.hi <= q.hi
  BY TightenedIs
<1>3. params \in Seq(ToSet(params)) /\ rules \in Seq(ToSet(rules))
  BY DEF ContractIs
<1>4. \A q \in ToSet(params) : q.name \in Names(params) /\ Named(params, q.name) = q
  BY <1>3, AcceptedArranged, SpaceIs
<1>5. \A p \in ToSet(defs) : p.lo \in Int /\ p.hi \in Int
  BY <1>1, <1>2
<1>6. ASSUME NEW p \in ToSet(defs), Conditional(p)
      PROVE  /\ DOMAIN p.when = {Controller(p)} /\ p.when[Controller(p)] = {Calling(p)}
             /\ Calling(p) \in Int
  <2>1. PICK q \in ToSet(params) : p = Tightened(q, rules) /\ p.when = q.when
    BY <1>1, <1>2
  <2>2. Cardinality(DOMAIN p.when) = 1 /\ Cardinality(p.when[Controller(p)]) = 1
    BY <1>6 DEF CodecAccepted, TreeAccepted, ToSet
  <2>3. Controller(p) \in DOMAIN p.when
    BY <1>6 DEF Controller, Conditional
  <2>4. IsFiniteSet(DOMAIN p.when)
    <3>1. DOMAIN p.when \subseteq Names(defs)
      BY <1>1 DEF Arranged
    <3>2. IsFiniteSet(Names(defs))
      BY <1>1, SpaceIs
    <3> QED
      BY <3>1, <3>2, FS_Subset
  <2>5. IsFiniteSet(p.when[Controller(p)]) /\ p.when[Controller(p)] # {}
    <3>1. PICK b : b = Named(params, Controller(p)) /\ b \in ToSet(params)
      <4>1. Controller(p) \in Names(params)
        BY <2>1, <2>3 DEF SpaceAccepted, ConditionsFit
      <4> QED
        BY <4>1 DEF Names, Named
    <3>2. p.when[Controller(p)] # {} /\ p.when[Controller(p)] \subseteq b.lo..b.hi
      BY <2>1, <2>3, <3>1 DEF SpaceAccepted, ConditionsFit, Declared
    <3>3. IsFiniteSet(b.lo..b.hi)
      <4>1. b.lo \in Int /\ b.hi \in Int
        BY <1>2, <3>1
      <4> QED
        BY <4>1, FS_Interval
    <3> QED
      BY <3>2, <3>3, FS_Subset
  <2>6. PICK c : DOMAIN p.when = {c}
    BY <2>2, <2>4, FS_Singleton
  <2>7. PICK v : p.when[Controller(p)] = {v}
    BY <2>2, <2>5, FS_Singleton
  <2>8. Calling(p) \in Int
    <3>1. PICK b : b = Named(defs, Controller(p)) /\ b \in ToSet(defs)
      <4>1. Controller(p) \in Names(defs)
        BY <1>1, <2>3 DEF Arranged
      <4> QED
        BY <4>1 DEF Names, Named
    <3>2. Calling(p) \in b.lo..b.hi
      BY <1>6, <3>1 DEF CodecAccepted, TreeAccepted, Declared, ToSet
    <3> QED
      BY <1>5, <3>1, <3>2
  <2> QED
    BY <2>3, <2>6, <2>7, <2>8 DEF Calling
<1>7. TreeIs(defs)
  BY <1>1, <1>5, <1>6 DEF TreeIs
<1>8. ASSUME NEW r \in ToSet(rules)
      PROVE  \/ r.kind = "bound" /\ WithinBounds(defs, r)
             \/ r.kind = "linear" /\ Weighed(defs, r)
             \/ r.kind = "forbidden" /\ DOMAIN r.when # {}
  <2>1. CASE r.kind = "bound"
    <3>1. r \in BoundRules(rules) /\ BoundAccepted(r, params)
      BY <2>1 DEF BoundRules, RulesAccepted
    <3>2. ASSUME NEW p \in ToSet(defs), p.name = r.param, NEW v \in Declared(p)
          PROVE  (\A m \in r.min : ~(v < m)) /\ \A m \in r.max : ~(v > m)
      <4>1. PICK q \in ToSet(params) : p = Tightened(q, rules)
        BY <1>1
      <4>2. q.name = r.param /\ q.type \in Numeric
        BY <1>2, <1>4, <3>1, <3>2, <4>1 DEF BoundAccepted
      <4>3. v \in Declared(q)
        <5>1. /\ q.lo <= p.lo /\ p.hi <= q.hi
              /\ p.lo \in Int /\ p.hi \in Int /\ q.lo \in Int /\ q.hi \in Int
          BY <1>2, <4>1, <4>2
        <5>2. v \in p.lo..p.hi
          BY <3>2 DEF Declared
        <5>3. v \in q.lo..q.hi
          BY <5>1, <5>2
        <5> QED
          BY <5>3 DEF Declared
      <4>4. PICK at : at = [n \in {q.name} |-> v]
        OBVIOUS
      <4>5. DOMAIN at = {q.name} /\ at[q.name] = v
        BY <4>4
      <4>6. v \in Declared(Tightened(q, rules))
                <=> \A b \in BoundRules(rules) : ~BoundViolated(b, at)
        BY <4>2, <4>3, <4>5, TightensExactly
      <4>7. ~BoundViolated(r, at)
        BY <3>1, <3>2, <4>1, <4>6
      <4> QED
        BY <4>2, <4>5, <4>7 DEF BoundViolated
    <3> QED
      BY <2>1, <3>2 DEF WithinBounds
  <2>2. CASE r.kind = "linear"
    <3>1. LinearAccepted(r, params) /\ r \in LinearRules(rules)
      BY <2>2 DEF RulesAccepted, LinearRules
    <3>2. TermsAccepted(defs, r)
      BY <3>1 DEF CodecAccepted
    <3> QED
      BY <1>1, <2>2, <3>1, <3>2 DEF LinearAccepted, TermsAccepted, RulesTyped, Weighed
  <2>3. CASE r.kind = "forbidden"
    BY <2>3 DEF RulesAccepted, ForbiddenAccepted
  <2> QED
    BY <2>1, <2>2, <2>3 DEF RulesTyped
<1> QED
  BY <1>3, <1>7, <1>8 DEF Coded

-----------------------------------------------------------------------------
(* A point, written for Ax and read back.                                   *)

\* Every parameter has its index among the definitions.
LEMMA IndexIs ==
  ASSUME NEW defs, TreeIs(defs)
  PROVE  /\ 0 \notin DOMAIN defs
         /\ \A n \in Names(defs) :
              /\ Index(defs, n) \in DOMAIN defs /\ defs[Index(defs, n)] = Named(defs, n)
              /\ Named(defs, n) \in ToSet(defs) /\ Named(defs, n).name = n
         /\ \A i \in DOMAIN defs :
              /\ defs[i] \in ToSet(defs) /\ defs[i].name \in Names(defs)
              /\ Index(defs, defs[i].name) = i
<1>1. defs \in Seq(ToSet(defs)) /\ Arranged(defs)
  BY DEF TreeIs
<1>2. /\ IsFiniteSet(Names(defs)) /\ Cardinality(Names(defs)) = Len(defs)
      /\ DOMAIN defs = 1..Len(defs) /\ Len(defs) \in Nat
      /\ \A i \in DOMAIN defs : defs[i] \in ToSet(defs) /\ defs[i].name \in Names(defs)
      /\ \A p \in ToSet(defs) : p.name \in Names(defs) /\ Named(defs, p.name) = p
      /\ \A n \in Names(defs) : Named(defs, n) \in ToSet(defs) /\ Named(defs, n).name = n
  BY <1>1, SpaceIs
<1>3. PICK f : f = [i \in 1..Len(defs) |-> defs[i].name]
  OBVIOUS
<1>4. f \in Surjection(1..Len(defs), Names(defs))
  <2>1. DOMAIN defs = 1..Len(defs)
    BY <1>2
  <2> QED
    BY <1>3, <2>1 DEF Surjection, Names, ToSet
<1>5. f \in Injection(1..Len(defs), Names(defs))
  <2>1. IsFiniteSet(1..Len(defs)) /\ Cardinality(1..Len(defs)) = Len(defs)
    <3>1. Len(defs) \in Nat
      BY <1>2
    <3> QED
      BY SMTT(30), <3>1, FS_Interval
  <2> QED
    BY <1>2, <1>4, <2>1, FS_SurjSameCardinalityImpliesInj
<1>6. \A i, j \in DOMAIN defs : defs[i].name = defs[j].name => i = j
  BY <1>2, <1>3, <1>5 DEF Injection, IsInjective
<1>7. \A i \in DOMAIN defs : Index(defs, defs[i].name) = i
  BY <1>6 DEF Index
<1>8. \A n \in Names(defs) : \E i \in DOMAIN defs : defs[i].name = n
  BY DEF Names, ToSet
<1>9. \A n \in Names(defs) :
        Index(defs, n) \in DOMAIN defs /\ defs[Index(defs, n)] = Named(defs, n)
  <2>1. ASSUME NEW n \in Names(defs)
        PROVE  Index(defs, n) \in DOMAIN defs /\ defs[Index(defs, n)] = Named(defs, n)
    <3>1. PICK i \in DOMAIN defs : defs[i].name = n
      BY <1>8
    <3>2. Index(defs, n) = i /\ Named(defs, n) = defs[i]
      BY <1>2, <1>7, <3>1
    <3> QED
      BY <3>2
  <2> QED
    BY <2>1
<1> QED
  BY <1>2, <1>7, <1>9

\* The points within a space are those that are complete and obey the rules.
LEMMA PointsWithinAre ==
  ASSUME NEW defs, TreeIs(defs), NEW rules, NEW at
  PROVE  at \in PointsWithin(defs, rules) <=> FullPoint(at, defs, {}) /\ Feasible(at, rules)
<1>1. /\ \A p \in ToSet(defs) : p.name \in Names(defs) /\ Named(defs, p.name) = p
      /\ \A n \in Names(defs) : Named(defs, n) \in ToSet(defs) /\ Named(defs, n).name = n
  BY SpaceIs DEF TreeIs
<1>2. PICK V : V = UNION {Declared(p) : p \in ToSet(defs)}
  OBVIOUS
<1>3. at \in PointsWithin(defs, rules) <=>
        /\ \E some \in SUBSET Names(defs) : at \in [some -> V]
        /\ \A p \in ToSet(defs) : p.name \in DOMAIN at <=> IsActive(p, at)
        /\ \A n \in DOMAIN at : at[n] \in Declared(Named(defs, n))
        /\ Feasible(at, rules)
  BY <1>2 DEF PointsWithin, IsActive
<1>4. (\A p \in ToSet(defs) : p.name \in DOMAIN at <=> IsActive(p, at))
        <=> \A n \in Names(defs) : n \in DOMAIN at <=> IsActive(Named(defs, n), at)
  BY <1>1
<1>5. ASSUME DOMAIN at \subseteq Names(defs), at = [n \in DOMAIN at |-> at[n]],
             \A n \in DOMAIN at : at[n] \in Declared(Named(defs, n))
      PROVE  \E some \in SUBSET Names(defs) : at \in [some -> V]
  <2>1. \A n \in DOMAIN at : at[n] \in V
    BY <1>1, <1>2, <1>5
  <2>2. at \in [DOMAIN at -> V]
    BY <1>5, <2>1
  <2> QED
    BY <1>5, <2>2
<1>6. ASSUME NEW some \in SUBSET Names(defs), at \in [some -> V]
      PROVE  DOMAIN at \subseteq Names(defs) /\ at = [n \in DOMAIN at |-> at[n]]
  BY <1>6
<1> QED
  BY <1>3, <1>4, <1>5, <1>6 DEF FullPoint

ArmFor(defs, at) ==
  [i \in DOMAIN Root(defs) \cup {Index(defs, n) : n \in DOMAIN at} |->
     IF i = 0 THEN 0 ELSE Token(defs[i], at[defs[i].name])]

\* The root, where there is one, is index 0 with value 0.
LEMMA RootIs ==
  ASSUME NEW defs
  PROVE  /\ DOMAIN Root(defs) \subseteq {0} /\ Root(defs) = [i \in DOMAIN Root(defs) |-> 0]
<1>1. PICK z : z = [i \in {0} |-> 0]
  OBVIOUS
<1>2. DOMAIN z = {0} /\ z = [i \in DOMAIN z |-> 0]
  BY <1>1
<1>3. DOMAIN NoPoint = {} /\ NoPoint = [i \in DOMAIN NoPoint |-> 0]
  BY DEF NoPoint
<1>4. Root(defs) = z \/ Root(defs) = NoPoint
  BY <1>1 DEF Root
<1> QED
  BY <1>2, <1>3, <1>4

\* What is written for a point has an entry for each parameter of the point, and the root.
LEMMA WrittenIs ==
  ASSUME NEW defs, TreeIs(defs), NEW at, DOMAIN at \subseteq Names(defs)
  PROVE  /\ \A n \in Names(defs) : Index(defs, n) \in DOMAIN ArmFor(defs, at) <=> n \in DOMAIN at
         /\ \A n \in DOMAIN at : ArmFor(defs, at)[Index(defs, n)] = Token(Named(defs, n), at[n])
<1>1. DOMAIN ArmFor(defs, at) = DOMAIN Root(defs) \cup {Index(defs, n) : n \in DOMAIN at}
  BY DEF ArmFor
<1>2. 0 \notin DOMAIN defs /\ DOMAIN Root(defs) \subseteq {0}
  BY IndexIs, RootIs
<1>3. \A n \in Names(defs) : /\ Index(defs, n) \in DOMAIN defs /\ Named(defs, n).name = n
                             /\ defs[Index(defs, n)] = Named(defs, n)
  BY IndexIs
<1>4. \A n \in Names(defs) : Index(defs, n) \in DOMAIN ArmFor(defs, at) <=> n \in DOMAIN at
  <2>1. ASSUME NEW n \in Names(defs), Index(defs, n) \in DOMAIN ArmFor(defs, at)
        PROVE  n \in DOMAIN at
    <3>1. PICK m \in DOMAIN at : Index(defs, n) = Index(defs, m)
      BY <1>1, <1>2, <1>3, <2>1
    <3>2. m = n
      BY <1>3, <3>1
    <3> QED
      BY <3>1, <3>2
  <2> QED
    BY <1>1, <2>1
<1>5. ASSUME NEW n \in DOMAIN at
      PROVE  ArmFor(defs, at)[Index(defs, n)] = Token(Named(defs, n), at[n])
  <2>1. PICK i : i = Index(defs, n) /\ i \in DOMAIN defs /\ defs[i] = Named(defs, n)
    BY <1>3
  <2>2. /\ i # 0 /\ defs[i].name = n
        /\ i \in DOMAIN Root(defs) \cup {Index(defs, m) : m \in DOMAIN at}
    BY <1>2, <1>3, <2>1
  <2> QED
    BY <2>1, <2>2 DEF ArmFor
<1> QED
  BY <1>1, <1>4, <1>5

\* What is written is read back.
LEMMA ReadBackIs ==
  ASSUME NEW defs, TreeIs(defs), NEW at, FullPoint(at, defs, {}), NEW arm, arm = ArmFor(defs, at)
  PROVE  Arm(defs, at) = {arm} /\ ReadBack(defs, arm) = {at}
<1>1. Arm(defs, at) = {arm}
  <2>1. DOMAIN at = {n \in Names(defs) : IsActive(Named(defs, n), at)}
    BY DEF FullPoint
  <2>2. \A n \in DOMAIN at : at[n] \in Declared(Named(defs, n))
    BY DEF FullPoint
  <2> QED
    BY <2>1, <2>2 DEF Arm, ArmFor
<1>2. DOMAIN at \subseteq Names(defs) /\ at = [n \in DOMAIN at |-> at[n]]
  BY DEF FullPoint
<1>3. /\ DOMAIN arm = DOMAIN Root(defs) \cup {Index(defs, n) : n \in DOMAIN at}
      /\ \A n \in DOMAIN at : arm[Index(defs, n)] = Token(Named(defs, n), at[n])
  <2>1. \A n \in DOMAIN at : ArmFor(defs, at)[Index(defs, n)] = Token(Named(defs, n), at[n])
    BY <1>2, WrittenIs
  <2>2. DOMAIN ArmFor(defs, at) = DOMAIN Root(defs) \cup {Index(defs, n) : n \in DOMAIN at}
    BY DEF ArmFor
  <2> QED
    BY <2>1, <2>2
<1>4. 0 \notin DOMAIN defs /\ DOMAIN Root(defs) \subseteq {0}
  BY IndexIs, RootIs
<1>5. \A n \in DOMAIN at : /\ Index(defs, n) \in DOMAIN defs /\ Named(defs, n).name = n
                           /\ defs[Index(defs, n)] = Named(defs, n)
  BY <1>2, IndexIs
<1>6. {defs[i].name : i \in DOMAIN arm \ {0}} = DOMAIN at
  <2>1. DOMAIN arm \ {0} = {Index(defs, n) : n \in DOMAIN at}
    BY <1>3, <1>4, <1>5
  <2>2. ASSUME NEW n \in DOMAIN at
        PROVE  n \in {defs[i].name : i \in DOMAIN arm \ {0}}
    <3>1. PICK i \in DOMAIN arm \ {0} : i = Index(defs, n) /\ defs[i].name = n
      BY <1>5, <2>1
    <3> QED
      BY <3>1
  <2>3. ASSUME NEW i \in DOMAIN arm \ {0} PROVE defs[i].name \in DOMAIN at
    BY <1>5, <2>1
  <2> QED
    BY <2>2, <2>3
<1>7. ASSUME NEW n \in DOMAIN at PROVE Meaning(Named(defs, n), arm[Index(defs, n)]) = at[n]
  <2>1. PICK p : p = Named(defs, n) /\ p \in ToSet(defs)
    BY <1>2, IndexIs
  <2>2. p.lo \in Int /\ p.hi \in Int /\ at[n] \in p.lo..p.hi
    BY <2>1 DEF FullPoint, TreeIs, Declared
  <2>3. arm[Index(defs, n)] = Token(p, at[n])
    BY <1>3, <2>1
  <2> QED
    BY <2>1, <2>2, <2>3 DEF Meaning, Token
<1>8. PICK read : read = [n \in {defs[i].name : i \in DOMAIN arm \ {0}} |->
                            Meaning(Named(defs, n), arm[Index(defs, n)])]
  OBVIOUS
<1>9. read = at
  BY <1>2, <1>6, <1>7, <1>8
<1>10. ReadBack(defs, arm) = IF Arm(defs, read) = {arm} THEN {read} ELSE {}
  BY <1>8 DEF ReadBack
<1> QED
  BY <1>1, <1>9, <1>10

-----------------------------------------------------------------------------
(* What Ax is offered for a parameter.                                      *)

\* A parameter is active where what it hangs on has the value that calls for it.
LEMMA ActiveIs ==
  ASSUME NEW defs, TreeIs(defs), NEW p \in ToSet(defs)
  PROVE  /\ p.name \in Names(defs) /\ Named(defs, p.name) = p
         /\ p.lo \in Int /\ p.hi \in Int
         /\ ~Conditional(p) => \A at : IsActive(p, at)
         /\ Conditional(p) =>
              /\ Controller(p) \in Names(defs) /\ Controller(p) # p.name /\ Calling(p) \in Int
              /\ Above(defs, p.name) = {Controller(p)}
              /\ \A at : IsActive(p, at)
                           <=> Controller(p) \in DOMAIN at /\ at[Controller(p)] = Calling(p)
<1>1. p.name \in Names(defs) /\ Named(defs, p.name) = p /\ p.lo \in Int /\ p.hi \in Int
  BY SpaceIs DEF TreeIs
<1>2. ~Conditional(p) => \A at : IsActive(p, at)
  BY DEF Conditional, IsActive
<1>3. ASSUME Conditional(p)
      PROVE  /\ Controller(p) \in Names(defs) /\ Controller(p) # p.name /\ Calling(p) \in Int
             /\ Above(defs, p.name) = {Controller(p)}
             /\ \A at : IsActive(p, at)
                          <=> Controller(p) \in DOMAIN at /\ at[Controller(p)] = Calling(p)
  <2>1. /\ DOMAIN p.when = {Controller(p)} /\ p.when[Controller(p)] = {Calling(p)}
        /\ Calling(p) \in Int
    BY <1>3 DEF TreeIs
  <2>2. DOMAIN p.when \in SUBSET (Names(defs) \ {p.name})
    BY DEF TreeIs, Arranged
  <2> QED
    BY <1>1, <2>1, <2>2 DEF IsActive, Above
<1> QED
  BY <1>1, <1>2, <1>3

\* The recursion of Ancestry.
Ancestor(defs, a, q) ==
  IF ~Conditional(q) THEN NoPoint
  ELSE WithParam(a[Named(defs, Controller(q))], Controller(q), Calling(q))

\* Ancestry solves its recursion.
LEMMA AncestryIs ==
  ASSUME NEW defs, TreeIs(defs)
  PROVE  \A q \in ToSet(defs) :
           Ancestry(defs, q) =
             IF ~Conditional(q) THEN NoPoint
             ELSE WithParam(Ancestry(defs, Named(defs, Controller(q))), Controller(q), Calling(q))
<1> DEFINE N == Names(defs)
           P == ToSet(defs)
           Made(a) == a = [q \in P |->
             IF ~Conditional(q) THEN NoPoint
             ELSE WithParam(a[Named(defs, Controller(q))], Controller(q), Calling(q))]
           Some(w, D) == \A n \in D : w[n] = IF ~Conditional(Named(defs, n)) THEN NoPoint
             ELSE WithParam(w[Controller(Named(defs, n))], Controller(Named(defs, n)),
                            Calling(Named(defs, n)))
<1>1. /\ \A p \in P : p.name \in N /\ Named(defs, p.name) = p
      /\ \A n \in N : Named(defs, n) \in P /\ Named(defs, n).name = n
  BY SpaceIs DEF TreeIs
<1>2. \A n \in N : Conditional(Named(defs, n)) =>
        Controller(Named(defs, n)) \in N /\ Above(defs, n) = {Controller(Named(defs, n))}
  BY <1>1, ActiveIs
<1>3. \A n \in N : Above(defs, n) \in SUBSET N
  BY SpaceIs DEF TreeIs
<1> HIDE DEF N, P
<1>4. PICK G : G = {D \in SUBSET N : /\ \A n \in D : Above(defs, n) \subseteq D
                                     /\ \E w : Some(w, D)}
  OBVIOUS
<1>5. {} \in G
  BY <1>4
<1>6. ASSUME NEW D \in G, NEW n \in N \ D, Above(defs, n) \subseteq D PROVE D \cup {n} \in G
  <2>1. PICK w : Some(w, D)
    BY <1>4
  <2>2. D \in SUBSET N /\ \A m \in D \cup {n} : Above(defs, m) \subseteq D
    BY <1>4, <1>6
  <2>3. PICK p : p = Named(defs, n)
    OBVIOUS
  <2>4. PICK x : x = IF ~Conditional(p) THEN NoPoint
                     ELSE WithParam(w[Controller(p)], Controller(p), Calling(p))
    OBVIOUS
  <2>5. PICK u : u = [m \in D \cup {n} |-> IF m = n THEN x ELSE w[m]]
    OBVIOUS
  <2>6. u[n] = x /\ \A m \in D : u[m] = w[m]
    BY <1>6, <2>5
  <2>7. ASSUME NEW m \in D \cup {n}, Conditional(Named(defs, m))
        PROVE  u[Controller(Named(defs, m))] = w[Controller(Named(defs, m))]
    BY <1>2, <2>2, <2>6, <2>7
  <2>8. Some(u, D \cup {n})
    BY <1>6, <2>1, <2>3, <2>4, <2>6, <2>7
  <2> QED
    <3>1. D \cup {n} \in SUBSET N
      BY <2>2
    <3> HIDE DEF Some
    <3> QED
      BY <1>4, <2>2, <2>8, <3>1
<1>7. N \in G
  <2>1. G \in SUBSET SUBSET Names(defs)
    BY <1>4 DEF N
  <2>2. defs \in Seq(ToSet(defs)) /\ Arranged(defs)
    BY DEF TreeIs
  <2> HIDE DEF Some
  <2> QED
    BY <1>5, <1>6, <2>1, <2>2, Climb DEF N
<1>8. PICK w : Some(w, N)
  BY <1>4, <1>7
<1>9. PICK a : a = [q \in P |-> w[q.name]]
  OBVIOUS
<1>10. Made(a)
  <2>1. ASSUME NEW q \in P
        PROVE  a[q] = IF ~Conditional(q) THEN NoPoint
                      ELSE WithParam(a[Named(defs, Controller(q))], Controller(q), Calling(q))
    <3>1. q.name \in N /\ Named(defs, q.name) = q
      BY <1>1
    <3>2. a[q] = IF ~Conditional(q) THEN NoPoint
                 ELSE WithParam(w[Controller(q)], Controller(q), Calling(q))
      BY <1>8, <1>9, <3>1
    <3>3. ASSUME Conditional(q) PROVE a[Named(defs, Controller(q))] = w[Controller(q)]
      BY <1>1, <1>2, <1>9, <3>1, <3>3
    <3> QED
      BY <3>2, <3>3
  <2> QED
    BY <1>9, <2>1
<1>11. PICK e : e = CHOOSE u : Made(u)
  OBVIOUS
<1>12. Made(e)
  <2> HIDE DEF Made
  <2> QED
    BY <1>10, <1>11
<1>13. \A q : Ancestry(defs, q) = e[q]
  BY <1>11 DEF Ancestry, P
<1> QED
  BY <1>12, <1>13 DEF P

\* A point that has a parameter has what the parameter hangs on.
LEMMA Ancestors ==
  ASSUME NEW defs, TreeIs(defs), NEW at, FullPoint(at, defs, {}), NEW p \in ToSet(defs),
         p.name \in DOMAIN at
  PROVE  \A n \in DOMAIN Ancestry(defs, p) : n \in DOMAIN at /\ at[n] = Ancestry(defs, p)[n]
<1> DEFINE N == Names(defs)
           Has(q) == \A n \in DOMAIN Ancestry(defs, q) :
                       n \in DOMAIN at /\ at[n] = Ancestry(defs, q)[n]
<1>1. /\ \A q \in ToSet(defs) : q.name \in N /\ Named(defs, q.name) = q
      /\ \A n \in N : Named(defs, n) \in ToSet(defs) /\ Named(defs, n).name = n
  BY SpaceIs DEF TreeIs
<1>2. PICK G : G = {D \in SUBSET N : \A n \in D : n \in DOMAIN at => Has(Named(defs, n))}
  OBVIOUS
<1>3. {} \in G
  BY <1>2
<1>4. ASSUME NEW D \in G, NEW n \in N \ D, Above(defs, n) \subseteq D PROVE D \cup {n} \in G
  <2>1. ASSUME n \in DOMAIN at PROVE Has(Named(defs, n))
    <3>1. PICK q \in ToSet(defs) : q = Named(defs, n) /\ q.name = n
      BY <1>1
    <3>2. CASE ~Conditional(q)
      <4>1. Ancestry(defs, q) = NoPoint
        BY <3>2, AncestryIs
      <4>2. DOMAIN Ancestry(defs, q) = {}
        BY <4>1 DEF NoPoint
      <4> QED
        BY <3>1, <4>2
    <3>3. CASE Conditional(q)
      <4>1. PICK c : c = Controller(q)
        OBVIOUS
      <4>2. IsActive(q, at)
        BY <1>4, <2>1, <3>1 DEF FullPoint
      <4>3. c \in DOMAIN at /\ at[c] = Calling(q) /\ c \in D
        BY <1>4, <3>1, <3>3, <4>1, <4>2, ActiveIs
      <4>4. Has(Named(defs, c))
        BY <1>2, <4>3
      <4>5. PICK a : a = Ancestry(defs, Named(defs, c))
        OBVIOUS
      <4>6. Ancestry(defs, q) = WithParam(a, c, Calling(q))
        BY <3>3, <4>1, <4>5, AncestryIs
      <4>7. DOMAIN Ancestry(defs, q) = DOMAIN a \cup {c}
        BY <4>6 DEF WithParam
      <4>8. ASSUME NEW m \in DOMAIN Ancestry(defs, q)
            PROVE  m \in DOMAIN at /\ at[m] = Ancestry(defs, q)[m]
        <5>1. Ancestry(defs, q)[m] = IF m = c THEN Calling(q) ELSE a[m]
          BY <4>6, <4>7, <4>8 DEF WithParam
        <5> QED
          BY <4>3, <4>4, <4>5, <4>7, <4>8, <5>1
      <4> QED
        BY <3>1, <4>8
    <3> QED
      BY <3>2, <3>3
  <2>2. D \in SUBSET N /\ \A m \in D : m \in DOMAIN at => Has(Named(defs, m))
    BY <1>2
  <2>3. D \cup {n} \in SUBSET N
    BY <2>2
  <2> HIDE DEF Has
  <2> QED
    BY <1>2, <2>1, <2>2, <2>3
<1>5. N \in G
  <2>1. G \in SUBSET SUBSET Names(defs)
    BY <1>2
  <2>2. defs \in Seq(ToSet(defs)) /\ Arranged(defs)
    BY DEF TreeIs
  <2> HIDE DEF Has
  <2> QED
    BY <1>3, <1>4, <2>1, <2>2, Climb
<1>6. Has(Named(defs, p.name))
  BY <1>1, <1>2, <1>5
<1> QED
  BY <1>1, <1>6

Pruned(defs, p, left, r) ==
  LET kept == {v \in left : Controls(defs, p, v) \/ v \notin r.when[p.name]}
  IN  IF Enumerated(p, defs) /\ Decided(defs, r, p) /\ kept # {} THEN kept ELSE left

Prunes(st, defs, rules, p) ==
  /\ st[0] = Declared(p)
  /\ \A k \in 1..Len(rules) : st[k] = Pruned(defs, p, st[k - 1], rules[k])
  /\ Offered(defs, rules, p) = {Token(p, v) : v \in st[Len(rules)]}

\* What is offered is what the rules leave, pruned by one after the other.
LEMMA OfferedAre ==
  ASSUME NEW defs, NEW rules, rules \in Seq(ToSet(rules)), NEW p
  PROVE  \E st : Prunes(st, defs, rules, p)
<1> DEFINE S == 1..Len(rules)
           Start == Declared(p)
           Made(f) == f = [s \in SUBSET S |-> IF s = {} THEN Start
                             ELSE LET x == Max(s) IN Pruned(defs, p, f[s \ {x}], rules[x])]
<1>1. DOMAIN rules = S /\ Len(rules) \in Nat
  OBVIOUS
<1>2. PICK l : l = Len(rules)
  OBVIOUS
<1>3. PICK B : B = SUBSET Declared(p)
  OBVIOUS
<1>4. PICK t : t = [x \in S \X B |-> Pruned(defs, p, x[2], rules[x[1]])]
  OBVIOUS
<1>5. t \in [S \X B -> B] /\ Start \in B
  <2>1. \A x \in B : \A r : Pruned(defs, p, x, r) \in B
    BY <1>3 DEF Pruned
  <2> QED
    BY <1>3, <1>4, <2>1
<1>6. PICK g : Filling(g, t, B, Start, l)
  BY <1>1, <1>2, <1>5, FillingExists
<1>7. Made(g)
  <2>1. ASSUME NEW s \in (SUBSET S) \ {{}}
        PROVE  g[s] = Pruned(defs, p, g[s \ {Max(s)}], rules[Max(s)])
    <3>1. PICK i \in S : i = Max(s) /\ g[s \ {i}] \in B /\ g[s] = t[<<i, g[s \ {i}]>>]
      BY <1>2, <1>6 DEF Filling
    <3> QED
      BY <1>4, <3>1
  <2> QED
    BY <1>2, <1>6, <2>1 DEF Filling
<1>8. PICK f : f = CHOOSE u : Made(u)
  OBVIOUS
<1>9. Made(f)
  <2> HIDE DEF Made
  <2> QED
    BY <1>7, <1>8
<1>10. Offered(defs, rules, p) = {Token(p, v) : v \in f[S]}
  BY <1>1, <1>8 DEF Offered, FoldLeft, MapThenFoldSet, Pruned
<1>11. PICK st : st = [k \in 0..l |-> f[1..k]]
  OBVIOUS
<1>12. st[0] = Start /\ st[l] = f[S]
  <2>1. 1..0 = {} /\ 0 \in 0..l /\ l \in 0..l
    BY <1>1, <1>2
  <2> QED
    BY <1>2, <1>9, <1>11, <2>1
<1>13. ASSUME NEW k \in S PROVE st[k] = Pruned(defs, p, st[k - 1], rules[k])
  <2>1. PICK s : s = 1..k
    OBVIOUS
  <2>2. /\ k - 1 \in 0..l /\ k \in 0..l
        /\ s \in SUBSET S /\ s # {} /\ Max(s) = k /\ s \ {k} = 1..(k - 1)
    BY <1>1, <1>2, <2>1, Upwards
  <2>3. f[s] = Pruned(defs, p, f[s \ {k}], rules[k])
    BY <1>9, <2>2
  <2> QED
    BY <1>11, <2>1, <2>2, <2>3
<1> QED
  BY <1>2, <1>10, <1>12, <1>13 DEF Prunes

\* Only declared values are offered.
LEMMA OffersDeclared ==
  ASSUME NEW defs, NEW rules, rules \in Seq(ToSet(rules)), NEW p,
         NEW t \in Offered(defs, rules, p)
  PROVE  \E v \in Declared(p) : t = Token(p, v)
<1>1. PICK st : Prunes(st, defs, rules, p)
  BY OfferedAre
<1>2. PICK l \in Nat : l = Len(rules)
  OBVIOUS
<1>3. PICK G : G = {k \in 0..l : st[k] \subseteq Declared(p)}
  OBVIOUS
<1>4. 0 \in G
  BY <1>1, <1>3 DEF Prunes
<1>5. ASSUME NEW k \in 0..(l - 1), k \in G PROVE k + 1 \in G
  <2>1. k + 1 \in 1..l /\ k + 1 \in 0..l /\ (k + 1) - 1 = k
    OBVIOUS
  <2>2. st[k + 1] = Pruned(defs, p, st[k], rules[k + 1])
    BY <1>1, <1>2, <2>1 DEF Prunes
  <2>3. st[k + 1] \subseteq st[k]
    BY <2>2 DEF Pruned
  <2> QED
    BY <1>3, <1>5, <2>1, <2>3
<1>6. l \in G
  <2>1. \A k \in 0..l : k \in G
    BY <1>4, <1>5, CountsUp
  <2> QED
    BY <2>1
<1> QED
  BY <1>1, <1>2, <1>3, <1>6 DEF Prunes

\* What a feasible point has is offered: what is pruned breaks the rule it was pruned for.
LEMMA OffersFeasible ==
  ASSUME NEW defs, NEW rules, Coded(defs, rules), NEW at, FullPoint(at, defs, {}),
         Feasible(at, rules), NEW p \in ToSet(defs), p.name \in DOMAIN at
  PROVE  Token(p, at[p.name]) \in Offered(defs, rules, p)
<1>1. rules \in Seq(ToSet(rules)) /\ TreeIs(defs)
  BY DEF Coded
<1>2. PICK st : Prunes(st, defs, rules, p)
  BY <1>1, OfferedAre
<1>3. PICK l \in Nat : l = Len(rules) /\ DOMAIN rules = 1..l
  BY <1>1
<1>4. PICK v : v = at[p.name]
  OBVIOUS
<1>5. v \in Declared(p)
  BY <1>1, <1>4, ActiveIs DEF FullPoint
<1>6. PICK G : G = {k \in 0..l : v \in st[k]}
  OBVIOUS
<1>7. 0 \in G
  BY <1>2, <1>5, <1>6 DEF Prunes
<1>8. ASSUME NEW k \in 0..(l - 1), k \in G PROVE k + 1 \in G
  <2>1. k + 1 \in 1..l /\ k + 1 \in 0..l /\ (k + 1) - 1 = k
    OBVIOUS
  <2>2. PICK r : r = rules[k + 1]
    OBVIOUS
  <2>3. st[k + 1] = Pruned(defs, p, st[k], r)
    BY <1>2, <1>3, <2>1, <2>2 DEF Prunes
  <2>4. v \in st[k]
    BY <1>6, <1>8
  <2>5. ASSUME Decided(defs, r, p), v \in r.when[p.name] PROVE FALSE
    <3>1. PICK given : given = Ancestry(defs, p)
      OBVIOUS
    <3>2. \A n \in DOMAIN given : n \in DOMAIN at /\ at[n] = given[n]
      BY <1>1, <3>1, Ancestors
    <3>3. r.kind = "forbidden" /\ p.name \in DOMAIN r.when
      BY <2>5 DEF Decided
    <3>4. \A n \in DOMAIN r.when \ {p.name} : n \in DOMAIN given /\ given[n] \in r.when[n]
      BY <2>5, <3>1 DEF Decided
    <3>5. \A n \in DOMAIN r.when : n \in DOMAIN at /\ at[n] \in r.when[n]
      BY <1>4, <2>5, <3>2, <3>4
    <3>6. Violated(r, at)
      BY <3>3, <3>5 DEF Violated, ForbiddenViolated
    <3>7. k + 1 \in Violations(at, rules)
      BY <1>3, <2>1, <2>2, <3>6 DEF Violations
    <3> QED
      BY <3>7 DEF Feasible
  <2>6. v \in st[k + 1]
    BY <2>3, <2>4, <2>5 DEF Pruned
  <2> QED
    BY <1>6, <2>1, <2>6
<1>9. l \in G
  <2>1. \A k \in 0..l : k \in G
    BY <1>7, <1>8, CountsUp
  <2> QED
    BY <2>1
<1> QED
  BY <1>2, <1>3, <1>4, <1>6, <1>9 DEF Prunes

-----------------------------------------------------------------------------
(* What the rules say of a point and of what is written for it.             *)

\* A linear rule, without the parameters that are fixed or do not count, is the rule.
LEMMA ObeysIs ==
  ASSUME NEW defs, TreeIs(defs), NEW r, Weighed(defs, r), NEW at, FullPoint(at, defs, {}),
         NEW arm, arm = ArmFor(defs, at)
  PROVE  LinearViolated(r, at) <=> ~Obeys(defs, arm, r)
<1> DEFINE T == DOMAIN r.terms
           H == {n \in T : Fixed(Named(defs, n))}
           W == Weighing(defs, r)
           f == [n \in T |-> r.terms[n] * at[n]]
           g == [n \in H |-> r.terms[n] * Named(defs, n).lo]
           h == [n \in T \ H |-> r.terms[n] * at[n]]
           w == [n \in W |-> r.terms[n] * arm[Index(defs, n)]]
           z == [n \in (T \ H) \ W |-> r.terms[n] * at[n]]
<1>1. /\ T \subseteq Names(defs) /\ r.rhs \in Int /\ \A n \in T : r.terms[n] \in Int
      /\ \A n \in T : ~Conditional(Named(defs, n)) /\ Named(defs, n).type \in Numeric
  BY DEF Weighed
<1>2. DOMAIN at \subseteq Names(defs) /\ \A n \in DOMAIN at : at[n] \in Declared(Named(defs, n))
  BY DEF FullPoint
<1>3. ASSUME NEW n \in T
      PROVE  /\ n \in DOMAIN at /\ at[n] \in Int /\ Named(defs, n).lo \in Int
             /\ at[n] \in Named(defs, n).lo..Named(defs, n).hi
             /\ arm[Index(defs, n)] = at[n]
  <2>1. PICK p \in ToSet(defs) : p = Named(defs, n) /\ p.name = n
    BY <1>1, IndexIs
  <2>2. IsActive(p, at) /\ p.lo \in Int /\ p.hi \in Int
    BY <1>1, <2>1, ActiveIs
  <2>3. n \in DOMAIN at
    BY <1>1, <2>1, <2>2 DEF FullPoint
  <2>4. at[n] \in p.lo..p.hi
    BY <1>2, <2>1, <2>3 DEF Declared
  <2>5. arm[Index(defs, n)] = Token(p, at[n])
    BY <1>2, <2>1, <2>3, WrittenIs
  <2>6. p.type # "categorical"
    BY <1>1, <2>1 DEF Numeric
  <2> QED
    BY <2>1, <2>2, <2>3, <2>4, <2>5, <2>6 DEF Token
<1>4. IsFiniteSet(T) /\ IsFiniteSet(T \ H) /\ IsFiniteSet((T \ H) \ W)
  <2>1. IsFiniteSet(Names(defs))
    BY SpaceIs DEF TreeIs
  <2> QED
    BY <1>1, <2>1, FS_Subset
<1>5. W \in SUBSET (T \ H) /\ H \in SUBSET T
  BY DEF Weighing
<1>6. \A n \in T \ H : n \notin W => r.terms[n] = 0
  BY DEF Weighing
<1>7. \A n \in T : r.terms[n] * at[n] \in Int
  BY <1>1, <1>3
<1>8. f \in [T -> Int] /\ h \in [T \ H -> Int] /\ z \in [(T \ H) \ W -> Int]
  BY <1>7
<1>9. g \in [H -> Int] /\ \A n \in H : g[n] = f[n]
  <2>1. ASSUME NEW n \in H PROVE Named(defs, n).lo = at[n]
    BY <1>3, <2>1 DEF Fixed
  <2> QED
    BY <1>7, <2>1
<1>10. w \in [W -> Int] /\ \A n \in W : w[n] = h[n]
  <2>1. \A n \in W : arm[Index(defs, n)] = at[n] /\ n \in T \ H
    BY <1>3, <1>5
  <2> QED
    BY <1>7, <2>1
<1>11. \A n \in (T \ H) \ W : z[n] = 0
  <2>1. \A n \in (T \ H) \ W : r.terms[n] = 0 /\ at[n] \in Int
    BY <1>3, <1>6
  <2> QED
    BY <2>1
<1>12. PICK lhs, held, rest, weight, nought \in Int :
         /\ lhs = SumFunction(f) /\ held = SumFunction(g) /\ rest = SumFunction(h)
         /\ weight = SumFunction(w) /\ nought = SumFunction(z)
         /\ lhs = held + rest /\ rest = weight + nought /\ nought = 0
  <2>1. \A n \in T \ H : h[n] = f[n]
    OBVIOUS
  <2>2. \A n \in (T \ H) \ W : z[n] = h[n]
    OBVIOUS
  <2> HIDE DEF f, g, h, w, z, T, H, W
  <2>3. Shares(f, g, h, T, H) /\ Shares(h, w, z, T \ H, W)
    BY <1>4, <1>5, <1>8, <1>9, <1>10, <2>1, <2>2 DEF Shares
  <2>4. /\ SumFunction(f) \in Int /\ SumFunction(g) \in Int /\ SumFunction(h) \in Int
        /\ SumFunction(f) = SumFunction(g) + SumFunction(h)
    BY <2>3, SumParts
  <2>5. /\ SumFunction(h) \in Int /\ SumFunction(w) \in Int /\ SumFunction(z) \in Int
        /\ SumFunction(h) = SumFunction(w) + SumFunction(z)
    BY <2>3, SumParts
  <2>6. SumFunction(z) = 0
    BY <1>4, <1>8, <1>11, SumOfZeros
  <2> QED
    BY <2>4, <2>5, <2>6
<1>13. DOMAIN r.terms \subseteq DOMAIN at
  BY <1>3
<1>14. LinearViolated(r, at) <=> IF r.op = "<=" THEN lhs > r.rhs ELSE lhs < r.rhs
  BY <1>12, <1>13 DEF LinearViolated
<1>15. Remaining(defs, r) = r.rhs - held
  BY <1>12 DEF Remaining
<1>16. Obeys(defs, arm, r)
         <=> IF r.op = "<=" THEN weight <= r.rhs - held ELSE weight >= r.rhs - held
  BY <1>12, <1>15 DEF Obeys
<1> HIDE DEF f, g, h, w, z, T, H, W
<1>17. r.rhs \in Int /\ lhs = held + weight
  BY <1>1, <1>12
<1> QED
  BY <1>14, <1>16, <1>17

\* What Ax is given to obey leaves only forbidden combinations to be broken.
LEMMA ObeyedIs ==
  ASSUME NEW defs, NEW rules, Coded(defs, rules), NEW at, FullPoint(at, defs, {}),
         NEW arm, arm = ArmFor(defs, at)
  PROVE  /\ Feasible(at, rules) => \A r \in LinearRules(rules) : Obeys(defs, arm, r)
         /\ (\A r \in LinearRules(rules) : Obeys(defs, arm, r)) =>
              \A i \in Violations(at, rules) : rules[i].kind = "forbidden"
<1>1. TreeIs(defs) /\ DOMAIN rules = 1..Len(rules)
  BY DEF Coded
<1>2. \A i \in DOMAIN rules : rules[i] \in ToSet(rules)
  BY DEF ToSet
<1>3. \A r \in LinearRules(rules) : LinearViolated(r, at) <=> ~Obeys(defs, arm, r)
  <2>1. ASSUME NEW r \in LinearRules(rules) PROVE Weighed(defs, r)
    BY DEF Coded, LinearRules
  <2> QED
    BY <1>1, <2>1, ObeysIs
<1>4. ASSUME Feasible(at, rules), NEW r \in LinearRules(rules) PROVE Obeys(defs, arm, r)
  <2>1. PICK i \in DOMAIN rules : rules[i] = r /\ r.kind = "linear"
    BY DEF LinearRules, ToSet
  <2>2. ~Violated(r, at)
    BY <1>4, <2>1 DEF Feasible, Violations
  <2> QED
    BY <1>3, <2>1, <2>2 DEF Violated
<1>5. ASSUME \A r \in LinearRules(rules) : Obeys(defs, arm, r), NEW i \in Violations(at, rules)
      PROVE  rules[i].kind = "forbidden"
  <2>1. PICK r \in ToSet(rules) : r = rules[i] /\ Violated(r, at)
    BY <1>2 DEF Violations
  <2>2. ASSUME r.kind = "bound" PROVE FALSE
    <3>1. WithinBounds(defs, r) /\ BoundViolated(r, at)
      BY <2>1, <2>2 DEF Coded, Violated
    <3>2. r.param \in DOMAIN at
      BY <3>1 DEF BoundViolated
    <3>3. PICK p \in ToSet(defs) : p = Named(defs, r.param) /\ p.name = r.param
      BY <1>1, <3>2, IndexIs DEF FullPoint
    <3>4. at[r.param] \in Declared(p)
      BY <3>2, <3>3 DEF FullPoint
    <3> QED
      BY <3>1, <3>3, <3>4 DEF WithinBounds, BoundViolated
  <2>3. ASSUME r.kind = "linear" PROVE FALSE
    <3>1. r \in LinearRules(rules) /\ LinearViolated(r, at)
      BY <2>1, <2>3 DEF LinearRules, Violated
    <3> QED
      BY <1>3, <1>5, <3>1
  <2> QED
    BY <2>1, <2>2, <2>3 DEF Coded
<1> QED
  BY <1>4, <1>5

-----------------------------------------------------------------------------
(* The arms Ax has, and the points that are counted, parameter by parameter.*)

Widened(defs, rules, arms, n) ==
  LET i == Index(defs, n)
  IN  UNION {IF Reached(defs, arm, i)
             THEN {WithParam(arm, i, t) : t \in Offered(defs, rules, defs[i])}
             ELSE {arm} : arm \in arms}

Reaches(st, defs, rules) ==
  /\ st[0] = {Root(defs)}
  /\ \A k \in 1..Len(defs) : st[k] = Widened(defs, rules, st[k - 1], Order(defs)[k])
  /\ Arms(defs, rules) =
       {arm \in st[Len(defs)] : \A r \in LinearRules(rules) : Obeys(defs, arm, r)}

Walked(defs, rules, points, n) ==
  LET p == Named(defs, n)
  IN  {at \in UNION {IF IsActive(p, at) THEN {WithParam(at, n, v) : v \in Declared(p)} ELSE {at} :
                       at \in points} : Feasible(at, rules)}

Walks(st, defs, rules) ==
  /\ st[0] = {NoPoint}
  /\ \A k \in 1..Len(defs) : st[k] = Walked(defs, rules, st[k - 1], Order(defs)[k])
  /\ FinitePoints(defs, rules) = st[Len(defs)]

\* The arms are made parameter by parameter, and those that disobey a linear rule taken out.
LEMMA ArmsAre ==
  ASSUME NEW defs, TreeIs(defs), NEW rules
  PROVE  \E st : Reaches(st, defs, rules)
<1> DEFINE l == Len(defs)
           S == 1..l
           q == Order(defs)
           Start == {Root(defs)}
           Made(f) == f = [s \in SUBSET S |-> IF s = {} THEN Start
                             ELSE LET x == Max(s) IN Widened(defs, rules, f[s \ {x}], q[x])]
<1>1. DOMAIN q = S /\ l \in Nat /\ \A i \in S : q[i] \in Names(defs)
  <2>1. defs \in Seq(ToSet(defs)) /\ Arranged(defs)
    BY DEF TreeIs
  <2>2. q \in Seq(Names(defs)) /\ Len(q) = l
    BY <2>1, OrderIs DEF Sorted
  <2> QED
    BY <2>1, <2>2
<1>2. PICK V : V = {0} \cup UNION {Offered(defs, rules, defs[i]) : i \in DOMAIN defs}
  OBVIOUS
<1>3. PICK I : I = {0} \cup DOMAIN defs
  OBVIOUS
<1>4. PICK U : U = UNION {[D -> V] : D \in SUBSET I}
  OBVIOUS
<1>5. PICK B : B = SUBSET U
  OBVIOUS
<1>6. Start \in B
  <2>1. Root(defs) \in [DOMAIN Root(defs) -> V] /\ DOMAIN Root(defs) \in SUBSET I
    BY <1>2, <1>3, RootIs
  <2> QED
    BY <1>4, <1>5, <2>1
<1>7. ASSUME NEW arms \in B, NEW n \in Names(defs) PROVE Widened(defs, rules, arms, n) \in B
  <2>1. PICK i \in DOMAIN defs : i = Index(defs, n)
    BY IndexIs
  <2>2. ASSUME NEW arm \in arms, NEW t \in Offered(defs, rules, defs[i])
        PROVE  WithParam(arm, i, t) \in U
    <3>1. PICK D \in SUBSET I : arm \in [D -> V]
      BY <1>4, <1>5
    <3>2. t \in V /\ D \cup {i} \in SUBSET I
      BY <1>2, <1>3
    <3>3. WithParam(arm, i, t) \in [D \cup {i} -> V]
      BY <3>1, <3>2 DEF WithParam
    <3> QED
      BY <1>4, <3>2, <3>3
  <2>3. arms \subseteq U
    BY <1>5
  <2>4. ASSUME NEW new \in Widened(defs, rules, arms, n) PROVE new \in U
    <3>1. PICK arm \in arms :
            new \in IF Reached(defs, arm, i)
                   THEN {WithParam(arm, i, t) : t \in Offered(defs, rules, defs[i])}
                   ELSE {arm}
      BY <2>1, <2>4 DEF Widened
    <3> QED
      BY <2>2, <2>3, <3>1
  <2> QED
    BY <1>5, <2>4
<1>8. PICK t : t = [x \in S \X B |-> Widened(defs, rules, x[2], q[x[1]])]
  OBVIOUS
<1>9. PICK g : Filling(g, t, B, Start, l)
  <2>1. t \in [S \X B -> B]
    BY <1>1, <1>7, <1>8
  <2> QED
    BY <1>1, <1>6, <2>1, FillingExists
<1>10. Made(g)
  <2>1. ASSUME NEW s \in (SUBSET S) \ {{}}
        PROVE  g[s] = Widened(defs, rules, g[s \ {Max(s)}], q[Max(s)])
    <3>1. PICK i \in S : i = Max(s) /\ g[s \ {i}] \in B /\ g[s] = t[<<i, g[s \ {i}]>>]
      BY <1>9 DEF Filling
    <3> QED
      BY <1>8, <3>1
  <2> QED
    BY <1>9, <2>1 DEF Filling
<1>11. PICK f : f = CHOOSE u : Made(u)
  OBVIOUS
<1>12. Made(f)
  <2> HIDE DEF Made
  <2> QED
    BY <1>10, <1>11
<1>13. Arms(defs, rules) = {arm \in f[S] : \A r \in LinearRules(rules) : Obeys(defs, arm, r)}
  BY <1>1, <1>11 DEF Arms, FoldLeft, MapThenFoldSet, Widened
<1>14. PICK st : st = [k \in 0..l |-> f[1..k]]
  OBVIOUS
<1>15. st[0] = Start /\ st[l] = f[S]
  <2>1. 1..0 = {} /\ 0 \in 0..l /\ l \in 0..l
    BY <1>1
  <2> QED
    BY <1>12, <1>14, <2>1
<1>16. ASSUME NEW k \in S PROVE st[k] = Widened(defs, rules, st[k - 1], q[k])
  <2>1. PICK s : s = 1..k
    OBVIOUS
  <2>2. /\ k - 1 \in 0..l /\ k \in 0..l
        /\ s \in SUBSET S /\ s # {} /\ Max(s) = k /\ s \ {k} = 1..(k - 1)
    BY <1>1, <2>1, Upwards
  <2>3. f[s] = Widened(defs, rules, f[s \ {k}], q[k])
    BY <1>12, <2>2
  <2> QED
    BY <1>14, <2>1, <2>2, <2>3
<1> QED
  BY <1>13, <1>15, <1>16 DEF Reaches

\* The points that are counted are made parameter by parameter, without those that break a rule.
LEMMA WalksAre ==
  ASSUME NEW defs, TreeIs(defs), NEW rules
  PROVE  \E st : Walks(st, defs, rules)
<1> DEFINE l == Len(defs)
           S == 1..l
           q == Order(defs)
           Start == {NoPoint}
           Made(f) == f = [s \in SUBSET S |-> IF s = {} THEN Start
                             ELSE LET x == Max(s) IN Walked(defs, rules, f[s \ {x}], q[x])]
<1>1. DOMAIN q = S /\ l \in Nat /\ \A i \in S : q[i] \in Names(defs)
  <2>1. defs \in Seq(ToSet(defs)) /\ Arranged(defs)
    BY DEF TreeIs
  <2>2. q \in Seq(Names(defs)) /\ Len(q) = l
    BY <2>1, OrderIs DEF Sorted
  <2> QED
    BY <2>1, <2>2
<1>2. PICK V : V = UNION {Declared(p) : p \in ToSet(defs)}
  OBVIOUS
<1>3. PICK U : U = UNION {[D -> V] : D \in SUBSET Names(defs)}
  OBVIOUS
<1>4. PICK B : B = SUBSET U
  OBVIOUS
<1>5. Start \in B
  <2>1. NoPoint \in [{} -> V] /\ {} \in SUBSET Names(defs)
    BY DEF NoPoint
  <2> QED
    BY <1>3, <1>4, <2>1
<1>6. ASSUME NEW points \in B, NEW n \in Names(defs) PROVE Walked(defs, rules, points, n) \in B
  <2>1. PICK p \in ToSet(defs) : p = Named(defs, n)
    BY IndexIs
  <2>2. ASSUME NEW at \in points, NEW v \in Declared(p)
        PROVE  WithParam(at, n, v) \in U
    <3>1. PICK D \in SUBSET Names(defs) : at \in [D -> V]
      BY <1>3, <1>4
    <3>2. v \in V /\ D \cup {n} \in SUBSET Names(defs)
      BY <1>2
    <3>3. WithParam(at, n, v) \in [D \cup {n} -> V]
      BY <3>1, <3>2 DEF WithParam
    <3> QED
      BY <1>3, <3>2, <3>3
  <2>3. points \subseteq U
    BY <1>4
  <2>4. ASSUME NEW new \in Walked(defs, rules, points, n) PROVE new \in U
    <3>1. PICK at \in points : new \in IF IsActive(p, at)
                                      THEN {WithParam(at, n, v) : v \in Declared(p)} ELSE {at}
      BY <2>1, <2>4 DEF Walked
    <3> QED
      BY <2>2, <2>3, <3>1
  <2> QED
    BY <1>4, <2>4
<1>7. PICK t : t = [x \in S \X B |-> Walked(defs, rules, x[2], q[x[1]])]
  OBVIOUS
<1>8. PICK g : Filling(g, t, B, Start, l)
  <2>1. t \in [S \X B -> B]
    BY <1>1, <1>6, <1>7
  <2> QED
    BY <1>1, <1>5, <2>1, FillingExists
<1>9. Made(g)
  <2>1. ASSUME NEW s \in (SUBSET S) \ {{}}
        PROVE  g[s] = Walked(defs, rules, g[s \ {Max(s)}], q[Max(s)])
    <3>1. PICK i \in S : i = Max(s) /\ g[s \ {i}] \in B /\ g[s] = t[<<i, g[s \ {i}]>>]
      BY <1>8 DEF Filling
    <3> QED
      BY <1>7, <3>1
  <2> QED
    BY <1>8, <2>1 DEF Filling
<1>10. PICK f : f = CHOOSE u : Made(u)
  OBVIOUS
<1>11. Made(f)
  <2> HIDE DEF Made
  <2> QED
    BY <1>9, <1>10
<1>12. FinitePoints(defs, rules) = f[S]
  BY <1>1, <1>10 DEF FinitePoints, FoldLeft, MapThenFoldSet, Walked
<1>13. PICK st : st = [k \in 0..l |-> f[1..k]]
  OBVIOUS
<1>14. st[0] = Start /\ st[l] = f[S]
  <2>1. 1..0 = {} /\ 0 \in 0..l /\ l \in 0..l
    BY <1>1
  <2> QED
    BY <1>11, <1>13, <2>1
<1>15. ASSUME NEW k \in S PROVE st[k] = Walked(defs, rules, st[k - 1], q[k])
  <2>1. PICK s : s = 1..k
    OBVIOUS
  <2>2. /\ k - 1 \in 0..l /\ k \in 0..l
        /\ s \in SUBSET S /\ s # {} /\ Max(s) = k /\ s \ {k} = 1..(k - 1)
    BY <1>1, <2>1, Upwards
  <2>3. f[s] = Walked(defs, rules, f[s \ {k}], q[k])
    BY <1>11, <2>2
  <2> QED
    BY <1>13, <2>1, <2>2, <2>3
<1> QED
  BY <1>12, <1>14, <1>15 DEF Walks

-----------------------------------------------------------------------------
(* The arms are what is written for points, and the points are counted.     *)

\* A point of which some parameters were visited: its values are declared.
Sound(at, defs) ==
  /\ at = [n \in DOMAIN at |-> at[n]] /\ DOMAIN at \subseteq Names(defs)
  /\ \A n \in DOMAIN at : at[n] \in Declared(Named(defs, n))

\* Points that are visited, complete, or part of a complete one are such points.
LEMMA SoundIs ==
  ASSUME NEW defs, TreeIs(defs), NEW at
  PROVE  /\ \A k \in 0..Len(defs) : PointTo(at, defs, k, {}) => Sound(at, defs)
         /\ FullPoint(at, defs, {}) => Sound(at, defs) /\ \A k : Sound(Part(at, defs, k), defs)
<1>1. defs \in Seq(ToSet(defs)) /\ Arranged(defs)
  BY DEF TreeIs
<1>2. \A i \in 1..Len(defs) : Order(defs)[i] \in Names(defs)
  BY <1>1, PlacesIn
<1>3. ASSUME NEW k \in 0..Len(defs), PointTo(at, defs, k, {}) PROVE Sound(at, defs)
  <2>1. \A i \in 1..k : Order(defs)[i] \in Names(defs)
    BY <1>1, <1>2
  <2> QED
    BY <1>3, <2>1 DEF PointTo, Sound
<1>4. ASSUME FullPoint(at, defs, {}), NEW k PROVE Sound(Part(at, defs, k), defs)
  BY <1>4 DEF FullPoint, Sound, Part, AtOnly
<1> QED
  BY <1>3, <1>4 DEF FullPoint, Sound

\* For the empty point, the root is written.
LEMMA WrittenStarts ==
  ASSUME NEW defs
  PROVE  ArmFor(defs, NoPoint) = Root(defs)
<1>1. DOMAIN NoPoint = {}
  BY DEF NoPoint
<1>2. DOMAIN Root(defs) \cup {Index(defs, n) : n \in DOMAIN NoPoint} = DOMAIN Root(defs)
  BY <1>1
<1>3. DOMAIN Root(defs) \subseteq {0} /\ Root(defs) = [i \in DOMAIN Root(defs) |-> 0]
  BY RootIs
<1> QED
  BY <1>2, <1>3 DEF ArmFor

\* One parameter more in the point is one entry more in what is written.
LEMMA WrittenGrows ==
  ASSUME NEW defs, TreeIs(defs), NEW at, Sound(at, defs), NEW n \in Names(defs), NEW v
  PROVE  ArmFor(defs, WithParam(at, n, v))
           = WithParam(ArmFor(defs, at), Index(defs, n), Token(Named(defs, n), v))
<1>1. PICK i \in DOMAIN defs : i = Index(defs, n) /\ defs[i] = Named(defs, n) /\ defs[i].name = n
  BY IndexIs
<1>2. PICK new : new = WithParam(at, n, v)
  OBVIOUS
<1>3. /\ DOMAIN new = DOMAIN at \cup {n} /\ new[n] = v
      /\ \A m \in DOMAIN at : m # n => new[m] = at[m]
  BY <1>2 DEF WithParam
<1>4. i # 0 /\ DOMAIN Root(defs) \subseteq {0}
  BY IndexIs, RootIs
<1>5. PICK A, C : /\ A = {Index(defs, m) : m \in DOMAIN at}
                  /\ C = {Index(defs, m) : m \in DOMAIN new}
  OBVIOUS
<1>6. C = A \cup {i}
  <2>1. i \in C /\ A \subseteq C
    BY <1>1, <1>3, <1>5
  <2>2. ASSUME NEW j \in C PROVE j \in A \cup {i}
    <3>1. PICK m \in DOMAIN new : j = Index(defs, m)
      BY <1>5
    <3> QED
      BY <1>1, <1>3, <1>5, <3>1
  <2> QED
    BY <2>1, <2>2
<1>7. PICK I, J : I = DOMAIN Root(defs) \cup A /\ J = DOMAIN Root(defs) \cup C
  OBVIOUS
<1>8. ASSUME NEW j \in J
      PROVE  ArmFor(defs, new)[j] = IF j = i THEN Token(defs[i], v) ELSE ArmFor(defs, at)[j]
  <2>1. ArmFor(defs, new)[j] = IF j = 0 THEN 0 ELSE Token(defs[j], new[defs[j].name])
    BY <1>5, <1>7 DEF ArmFor
  <2>2. CASE j = i
    BY <1>1, <1>3, <1>4, <2>1, <2>2
  <2>3. CASE j # i
    <3>1. j \in I
      BY <1>6, <1>7, <2>3
    <3>2. ArmFor(defs, at)[j] = IF j = 0 THEN 0 ELSE Token(defs[j], at[defs[j].name])
      BY <1>5, <1>7, <3>1 DEF ArmFor
    <3>3. ASSUME j # 0 PROVE new[defs[j].name] = at[defs[j].name]
      <4>1. PICK m \in DOMAIN at : j = Index(defs, m)
        BY <1>4, <1>5, <1>7, <3>1, <3>3
      <4>2. defs[j].name = m
        BY <4>1, IndexIs DEF Sound
      <4> QED
        BY <1>1, <1>3, <2>3, <4>1, <4>2
    <3> QED
      BY <2>1, <2>3, <3>2, <3>3
  <2> QED
    BY <2>2, <2>3
<1>9. PICK a, b : a = ArmFor(defs, new) /\ b = WithParam(ArmFor(defs, at), i, Token(defs[i], v))
  OBVIOUS
<1>10. /\ DOMAIN a = J /\ DOMAIN b = J
       /\ a = [j \in DOMAIN a |-> a[j]] /\ b = [j \in DOMAIN b |-> b[j]]
  <2>1. DOMAIN ArmFor(defs, at) = I /\ J = I \cup {i}
    BY <1>5, <1>6, <1>7 DEF ArmFor
  <2> QED
    BY <1>5, <1>7, <1>9, <2>1 DEF ArmFor, WithParam
<1>11. \A j \in J : a[j] = b[j]
  <2>1. ASSUME NEW j \in J
        PROVE  b[j] = IF j = i THEN Token(defs[i], v) ELSE ArmFor(defs, at)[j]
    BY <1>9, <1>10 DEF WithParam
  <2> QED
    BY <1>8, <1>9, <2>1
<1> QED
  BY <1>1, <1>2, <1>9, <1>10, <1>11

\* Ax reaches a parameter where the parameter is active.
LEMMA ReachedIs ==
  ASSUME NEW defs, TreeIs(defs), NEW at, Sound(at, defs), NEW n \in Names(defs)
  PROVE  Reached(defs, ArmFor(defs, at), Index(defs, n)) <=> IsActive(Named(defs, n), at)
<1>1. PICK i \in DOMAIN defs : /\ i = Index(defs, n) /\ defs[i] = Named(defs, n)
                               /\ defs[i].name = n /\ defs[i] \in ToSet(defs)
  BY IndexIs
<1>2. CASE ~Conditional(defs[i])
  BY <1>1, <1>2, ActiveIs DEF Reached
<1>3. CASE Conditional(defs[i])
  <2>1. PICK c \in Names(defs) : c = Controller(defs[i])
    BY <1>1, <1>3, ActiveIs
  <2>2. PICK j \in DOMAIN defs : /\ j = Index(defs, c) /\ defs[j] = Named(defs, c)
                                 /\ defs[j] \in ToSet(defs)
    BY IndexIs
  <2>3. Calling(defs[i]) \in Int /\ defs[j].lo \in Int /\ defs[j].hi \in Int
    BY <1>1, <1>3, <2>2, ActiveIs
  <2>4. IsActive(defs[i], at) <=> c \in DOMAIN at /\ at[c] = Calling(defs[i])
    BY <1>1, <1>3, <2>1, ActiveIs
  <2>5. PICK arm : arm = ArmFor(defs, at)
    OBVIOUS
  <2>6. /\ j \in DOMAIN arm <=> c \in DOMAIN at
        /\ c \in DOMAIN at => arm[j] = Token(defs[j], at[c])
    <3>1. /\ \A m \in Names(defs) : Index(defs, m) \in DOMAIN arm <=> m \in DOMAIN at
          /\ \A m \in DOMAIN at : arm[Index(defs, m)] = Token(Named(defs, m), at[m])
      <4>1. DOMAIN at \subseteq Names(defs)
        BY DEF Sound
      <4> QED
        BY <2>5, <4>1, WrittenIs
    <3> QED
      BY <2>1, <2>2, <3>1
  <2>7. c \in DOMAIN at => (Token(defs[j], at[c]) = Token(defs[j], Calling(defs[i]))
                              <=> at[c] = Calling(defs[i]))
    <3>1. ASSUME c \in DOMAIN at PROVE at[c] \in Int
      BY <2>2, <2>3, <3>1 DEF Sound, Declared
    <3> QED
      BY <2>3, <3>1 DEF Token
  <2>8. Reached(defs, arm, i) <=> j \in DOMAIN arm /\ arm[j] = Token(defs[j], Calling(defs[i]))
    BY <1>3, <2>1, <2>2 DEF Reached
  <2> QED
    BY <1>1, <2>4, <2>5, <2>6, <2>7, <2>8
<1> QED
  BY <1>2, <1>3

\* Whatever Ax has is what is written for a point.
LEMMA ArmsAreWritten ==
  ASSUME NEW defs, NEW rules, Coded(defs, rules), NEW arm \in Arms(defs, rules)
  PROVE  \E at : FullPoint(at, defs, {}) /\ arm = ArmFor(defs, at)
<1>1. /\ TreeIs(defs) /\ rules \in Seq(ToSet(rules))
      /\ defs \in Seq(ToSet(defs)) /\ Arranged(defs)
  BY DEF Coded, TreeIs
<1>2. PICK st : Reaches(st, defs, rules)
  BY <1>1, ArmsAre
<1>3. PICK l \in Nat : l = Len(defs)
  BY <1>1
<1>4. PICK G : G = {k \in 0..l : \A a \in st[k] :
                      \E at : PointTo(at, defs, k, {}) /\ a = ArmFor(defs, at)}
  OBVIOUS
<1>5. 0 \in G
  <2>1. PointTo(NoPoint, defs, 0, {})
    BY DEF PointTo, NoPoint
  <2>2. \A a \in st[0] : a = ArmFor(defs, NoPoint)
    BY <1>2, WrittenStarts DEF Reaches
  <2> QED
    BY <1>4, <2>1, <2>2
<1>6. ASSUME NEW k \in 0..(l - 1), k \in G PROVE k + 1 \in G
  <2>1. /\ k + 1 \in 1..l /\ k + 1 \in 0..l /\ (k + 1) - 1 = k /\ k \in Nat /\ k < l
        /\ k \in 0..l
    OBVIOUS
  <2>2. PICK n : n = Order(defs)[k + 1] /\ n \in Names(defs)
    BY <1>1, <1>3, <2>1, PlacesIn
  <2>3. PICK i \in DOMAIN defs : /\ i = Index(defs, n) /\ defs[i] = Named(defs, n)
                                 /\ defs[i].name = n
    BY <1>1, <2>2, IndexIs
  <2>4. st[k + 1] = Widened(defs, rules, st[k], n)
    BY <1>2, <1>3, <2>1, <2>2 DEF Reaches
  <2>5. ASSUME NEW a \in st[k + 1]
        PROVE  \E at : PointTo(at, defs, k + 1, {}) /\ a = ArmFor(defs, at)
    <3>1. PICK b \in st[k] :
            a \in IF Reached(defs, b, i)
                  THEN {WithParam(b, i, t) : t \in Offered(defs, rules, defs[i])} ELSE {b}
      BY <2>3, <2>4, <2>5 DEF Widened
    <3>2. PICK at : PointTo(at, defs, k, {}) /\ b = ArmFor(defs, at)
      BY <1>4, <1>6
    <3>3. Sound(at, defs)
      BY <1>1, <1>3, <2>1, <3>2, SoundIs
    <3>4. Reached(defs, b, i) <=> IsActive(defs[i], at)
      BY <1>1, <2>2, <2>3, <3>2, <3>3, ReachedIs
    <3>5. /\ ~IsActive(defs[i], at) => PointTo(at, defs, k + 1, {})
          /\ \A v : IsActive(defs[i], at) /\ v \in Declared(defs[i])
               => PointTo(WithParam(at, n, v), defs, k + 1, {})
      BY <1>1, <1>3, <2>1, <2>2, <2>3, <3>2, VisitGoesOn
    <3>6. CASE ~IsActive(defs[i], at)
      BY <3>1, <3>2, <3>4, <3>5, <3>6
    <3>7. CASE IsActive(defs[i], at)
      <4>1. PICK t \in Offered(defs, rules, defs[i]) : a = WithParam(b, i, t)
        BY <3>1, <3>4, <3>7
      <4>2. PICK v \in Declared(defs[i]) : t = Token(defs[i], v)
        BY <1>1, <4>1, OffersDeclared
      <4>3. ArmFor(defs, WithParam(at, n, v)) = WithParam(b, i, t)
        BY <1>1, <2>2, <2>3, <3>2, <3>3, <4>2, WrittenGrows
      <4> QED
        BY <3>5, <3>7, <4>1, <4>2, <4>3
    <3> QED
      BY <3>6, <3>7
  <2> QED
    BY <1>4, <2>1, <2>5
<1>7. l \in G
  <2>1. \A k \in 0..l : k \in G
    BY <1>5, <1>6, CountsUp
  <2> QED
    BY <2>1
<1>8. PICK at : PointTo(at, defs, l, {}) /\ arm = ArmFor(defs, at)
  BY <1>2, <1>3, <1>4, <1>7 DEF Reaches
<1> QED
  BY <1>1, <1>3, <1>8, FullWhenVisited

\* What is written for a feasible point is among what Ax has.
LEMMA WrittenIsAnArm ==
  ASSUME NEW defs, NEW rules, Coded(defs, rules), NEW at, FullPoint(at, defs, {}),
         Feasible(at, rules)
  PROVE  ArmFor(defs, at) \in Arms(defs, rules)
<1>1. /\ TreeIs(defs) /\ rules \in Seq(ToSet(rules))
      /\ defs \in Seq(ToSet(defs)) /\ Arranged(defs)
  BY DEF Coded, TreeIs
<1>2. PICK st : Reaches(st, defs, rules)
  BY <1>1, ArmsAre
<1>3. PICK l \in Nat : l = Len(defs)
  BY <1>1
<1>4. PICK G : G = {k \in 0..l : ArmFor(defs, Part(at, defs, k)) \in st[k]}
  OBVIOUS
<1>5. 0 \in G
  BY <1>1, <1>2, <1>4, PartEnds, WrittenStarts DEF Reaches
<1>6. ASSUME NEW k \in 0..(l - 1), k \in G PROVE k + 1 \in G
  <2>1. k + 1 \in 1..l /\ k + 1 \in 0..l /\ (k + 1) - 1 = k /\ k \in Nat /\ k < l
    OBVIOUS
  <2>2. PICK n, kept : n = Order(defs)[k + 1] /\ kept = Part(at, defs, k)
    OBVIOUS
  <2>3. /\ n \in Names(defs)
        /\ IsActive(Named(defs, n), kept) <=> n \in DOMAIN at
        /\ Part(at, defs, k + 1) = IF n \in DOMAIN at THEN WithParam(kept, n, at[n]) ELSE kept
    BY <1>1, <1>3, <2>1, <2>2, PartGrows
  <2>4. PICK i \in DOMAIN defs : /\ i = Index(defs, n) /\ defs[i] = Named(defs, n)
                                 /\ defs[i].name = n /\ defs[i] \in ToSet(defs)
    BY <1>1, <2>3, IndexIs
  <2>5. st[k + 1] = Widened(defs, rules, st[k], n)
    BY <1>2, <1>3, <2>1, <2>2 DEF Reaches
  <2>6. PICK arm : arm = ArmFor(defs, kept) /\ arm \in st[k]
    BY <1>4, <1>6, <2>2
  <2>7. Sound(kept, defs)
    BY <1>1, <2>2, SoundIs
  <2>8. Reached(defs, arm, i) <=> n \in DOMAIN at
    BY <1>1, <2>3, <2>4, <2>6, <2>7, ReachedIs
  <2>9. st[k + 1] = UNION {IF Reached(defs, a, i)
                           THEN {WithParam(a, i, t) : t \in Offered(defs, rules, defs[i])}
                           ELSE {a} : a \in st[k]}
    BY <2>4, <2>5 DEF Widened
  <2>10. ASSUME n \in DOMAIN at PROVE ArmFor(defs, WithParam(kept, n, at[n])) \in st[k + 1]
    <3>1. PICK t : t = Token(defs[i], at[n]) /\ t \in Offered(defs, rules, defs[i])
      BY <2>4, <2>10, OffersFeasible
    <3>2. ArmFor(defs, WithParam(kept, n, at[n])) = WithParam(arm, i, t)
      BY <1>1, <2>3, <2>4, <2>6, <2>7, <3>1, WrittenGrows
    <3>3. WithParam(arm, i, t) \in {WithParam(arm, i, u) : u \in Offered(defs, rules, defs[i])}
      BY <3>1
    <3> QED
      BY <2>6, <2>8, <2>9, <2>10, <3>2, <3>3
  <2>11. ASSUME n \notin DOMAIN at PROVE arm \in st[k + 1]
    BY <2>6, <2>8, <2>9, <2>11
  <2> QED
    BY <1>4, <2>1, <2>3, <2>6, <2>10, <2>11
<1>7. l \in G
  <2>1. \A k \in 0..l : k \in G
    BY <1>5, <1>6, CountsUp
  <2> QED
    BY <2>1
<1>8. Part(at, defs, l) = at
  BY <1>1, <1>3, PartEnds
<1>9. \A r \in LinearRules(rules) : Obeys(defs, ArmFor(defs, at), r)
  BY ObeyedIs
<1> QED
  BY <1>2, <1>3, <1>4, <1>7, <1>8, <1>9 DEF Reaches

\* A rule that part of a point breaks is broken by the point.
LEMMA BreaksOn ==
  ASSUME NEW defs, NEW rules, Coded(defs, rules), NEW at, FullPoint(at, defs, {}),
         Feasible(at, rules), NEW kept, DOMAIN kept \subseteq DOMAIN at,
         \A n \in DOMAIN kept : kept[n] = at[n]
  PROVE  Feasible(kept, rules)
<1>1. ASSUME NEW r \in ToSet(rules), Violated(r, kept) PROVE Violated(r, at)
  <2>1. CASE r.kind = "bound"
    <3>1. BoundViolated(r, kept)
      BY <1>1, <2>1 DEF Violated
    <3>2. BoundViolated(r, at)
      BY <3>1 DEF BoundViolated
    <3> QED
      BY <2>1, <3>2 DEF Violated
  <2>2. CASE r.kind = "linear"
    <3>1. LinearViolated(r, kept)
      BY <1>1, <2>2 DEF Violated
    <3>2. DOMAIN r.terms \subseteq DOMAIN kept
      BY <3>1 DEF LinearViolated
    <3>3. [n \in DOMAIN r.terms |-> r.terms[n] * kept[n]]
            = [n \in DOMAIN r.terms |-> r.terms[n] * at[n]]
      BY <3>2
    <3>4. LinearViolated(r, at)
      BY <3>1, <3>2, <3>3 DEF LinearViolated
    <3> QED
      BY <2>2, <3>4 DEF Violated
  <2>3. CASE r.kind = "forbidden"
    <3>1. ForbiddenViolated(r, kept)
      BY <1>1, <2>3 DEF Violated
    <3>2. ForbiddenViolated(r, at)
      BY <3>1 DEF ForbiddenViolated
    <3> QED
      BY <2>3, <3>2 DEF Violated
  <2> QED
    BY <2>1, <2>2, <2>3 DEF Coded
<1>2. \A i \in DOMAIN rules : rules[i] \in ToSet(rules)
  BY DEF ToSet
<1> QED
  BY <1>1, <1>2 DEF Feasible, Violations

\* The points that are counted are all feasible points.
LEMMA CountedAre ==
  ASSUME NEW defs, NEW rules, Coded(defs, rules), Len(defs) # 0, NEW at
  PROVE  at \in FinitePoints(defs, rules) <=> FullPoint(at, defs, {}) /\ Feasible(at, rules)
<1>1. /\ TreeIs(defs) /\ rules \in Seq(ToSet(rules))
      /\ defs \in Seq(ToSet(defs)) /\ Arranged(defs)
  BY DEF Coded, TreeIs
<1>2. PICK st : Walks(st, defs, rules)
  BY <1>1, WalksAre
<1>3. PICK l \in Nat : l = Len(defs) /\ l # 0
  BY <1>1
<1>4. ASSUME NEW k \in 0..(l - 1)
      PROVE  /\ k + 1 \in 1..l /\ k + 1 \in 0..l /\ k \in 0..l /\ k \in Nat /\ k < l
             /\ \E n \in Names(defs) :
                  /\ n = Order(defs)[k + 1] /\ Named(defs, n).name = n
                  /\ st[k + 1] = Walked(defs, rules, st[k], n)
  <2>1. k + 1 \in 1..l /\ k + 1 \in 0..l /\ (k + 1) - 1 = k /\ k \in Nat /\ k < l
    OBVIOUS
  <2>2. PICK n \in Names(defs) : n = Order(defs)[k + 1] /\ Named(defs, n).name = n
    BY <1>1, <1>3, <2>1, PlacesIn
  <2>3. st[k + 1] = Walked(defs, rules, st[k], n)
    BY <1>2, <1>3, <2>1, <2>2 DEF Walks
  <2> QED
    BY <2>1, <2>2, <2>3
<1>5. ASSUME at \in FinitePoints(defs, rules) PROVE FullPoint(at, defs, {}) /\ Feasible(at, rules)
  <2>1. PICK G : G = {k \in 0..l : \A a \in st[k] : /\ PointTo(a, defs, k, {})
                                                    /\ k # 0 => Feasible(a, rules)}
    OBVIOUS
  <2>2. 0 \in G
    <3>1. PointTo(NoPoint, defs, 0, {})
      BY DEF PointTo, NoPoint
    <3> QED
      BY <1>2, <2>1, <3>1 DEF Walks
  <2>3. ASSUME NEW k \in 0..(l - 1), k \in G PROVE k + 1 \in G
    <3>1. PICK n \in Names(defs) : /\ n = Order(defs)[k + 1] /\ Named(defs, n).name = n
                                   /\ st[k + 1] = Walked(defs, rules, st[k], n)
      BY <1>4
    <3>2. ASSUME NEW a \in st[k + 1] PROVE PointTo(a, defs, k + 1, {}) /\ Feasible(a, rules)
      <4>1. PICK p : p = Named(defs, n)
        OBVIOUS
      <4>2. Feasible(a, rules)
        BY <3>1, <3>2 DEF Walked
      <4>3. PICK b \in st[k] :
              a \in IF IsActive(p, b) THEN {WithParam(b, n, v) : v \in Declared(p)} ELSE {b}
        BY <3>1, <3>2, <4>1 DEF Walked
      <4>4. PointTo(b, defs, k, {})
        BY <2>1, <2>3
      <4>5. /\ ~IsActive(p, b) => PointTo(b, defs, k + 1, {})
            /\ \A v : IsActive(p, b) /\ v \in Declared(p)
                     => PointTo(WithParam(b, n, v), defs, k + 1, {})
        BY <1>1, <1>3, <1>4, <3>1, <4>1, <4>4, VisitGoesOn
      <4>6. PointTo(a, defs, k + 1, {})
        BY <4>3, <4>5
      <4> QED
        BY <4>2, <4>6
    <3> QED
      BY <1>4, <2>1, <3>2
  <2>4. l \in G
    <3>1. \A k \in 0..l : k \in G
      BY <2>2, <2>3, CountsUp
    <3> QED
      BY <3>1
  <2>5. at \in st[l]
    BY <1>2, <1>3, <1>5 DEF Walks
  <2>6. PointTo(at, defs, l, {}) /\ Feasible(at, rules)
    BY <1>3, <2>1, <2>4, <2>5
  <2> QED
    BY <1>1, <1>3, <2>6, FullWhenVisited
<1>6. ASSUME FullPoint(at, defs, {}), Feasible(at, rules) PROVE at \in FinitePoints(defs, rules)
  <2>1. PICK G : G = {k \in 0..l : Part(at, defs, k) \in st[k]}
    OBVIOUS
  <2>2. 0 \in G
    BY <1>1, <1>2, <1>6, <2>1, PartEnds DEF Walks
  <2>3. ASSUME NEW k \in 0..(l - 1), k \in G PROVE k + 1 \in G
    <3>1. PICK n \in Names(defs) : /\ n = Order(defs)[k + 1] /\ Named(defs, n).name = n
                                   /\ st[k + 1] = Walked(defs, rules, st[k], n)
      BY <1>4
    <3>2. PICK kept, new, p : /\ kept = Part(at, defs, k) /\ new = Part(at, defs, k + 1)
                              /\ p = Named(defs, n)
      OBVIOUS
    <3>3. /\ IsActive(p, kept) <=> n \in DOMAIN at
          /\ new = IF n \in DOMAIN at THEN WithParam(kept, n, at[n]) ELSE kept
      BY <1>1, <1>3, <1>4, <1>6, <3>1, <3>2, PartGrows
    <3>4. Feasible(new, rules)
      <4>1. DOMAIN new \subseteq DOMAIN at /\ \A m \in DOMAIN new : new[m] = at[m]
        BY <3>2 DEF Part, AtOnly
      <4> QED
        BY <1>6, <4>1, BreaksOn
    <3>5. kept \in st[k]
      BY <2>1, <2>3, <3>2
    <3>6. new \in IF IsActive(p, kept) THEN {WithParam(kept, n, v) : v \in Declared(p)}
                  ELSE {kept}
      <4>1. n \in DOMAIN at => at[n] \in Declared(p)
        BY <1>6, <3>2 DEF FullPoint
      <4> QED
        BY <3>3, <4>1
    <3>7. new \in Walked(defs, rules, st[k], n)
      BY SMTT(30), <3>2, <3>4, <3>5, <3>6 DEF Walked
    <3> QED
      BY <1>4, <2>1, <3>1, <3>2, <3>7
  <2>4. l \in G
    <3>1. \A k \in 0..l : k \in G
      BY <2>2, <2>3, CountsUp
    <3> QED
      BY <3>1
  <2>5. Part(at, defs, l) = at
    BY <1>1, <1>3, <1>6, PartEnds
  <2> QED
    BY <1>2, <1>3, <2>1, <2>4, <2>5 DEF Walks
<1> QED
  BY <1>5, <1>6

\* The codec, for every space and all rules that the contracts and the codec accept.
LEMMA CodecShows ==
  ASSUME NEW params, NEW rules, ContractIs(params, rules), RulesTyped(rules),
         SpaceAccepted(params), RulesAccepted(rules, params)
  PROVE  CodecIsExact(params, rules)
<1>1. PICK defs : defs = Definitions(params, rules)
  OBVIOUS
<1>2. PICK points : points = PointsWithin(defs, rules)
  OBVIOUS
<1>3. SUFFICES ASSUME CodecAccepted(defs, rules)
      PROVE  /\ \A at \in points : \E arm \in Arm(defs, at) :
                  arm \in Arms(defs, rules) /\ ReadBack(defs, arm) = {at}
             /\ \A arm \in Arms(defs, rules) :
                  /\ ReadBack(defs, arm) # {}
                  /\ \A at \in ReadBack(defs, arm) : \A i \in Violations(at, rules) :
                       rules[i].kind = "forbidden"
             /\ FinitePoints(defs, rules) = points
  BY <1>1, <1>2 DEF CodecIsExact
<1>4. Coded(defs, rules) /\ TreeIs(defs)
  BY <1>1, <1>3, AcceptedCoded DEF Coded
<1>5. \A at : at \in points <=> FullPoint(at, defs, {}) /\ Feasible(at, rules)
  BY <1>2, <1>4, PointsWithinAre
<1>6. ASSUME NEW at \in points
      PROVE  \E arm \in Arm(defs, at) : arm \in Arms(defs, rules) /\ ReadBack(defs, arm) = {at}
  <2>1. PICK arm : arm = ArmFor(defs, at)
    OBVIOUS
  <2>2. FullPoint(at, defs, {}) /\ Feasible(at, rules)
    BY <1>5
  <2>3. Arm(defs, at) = {arm} /\ ReadBack(defs, arm) = {at}
    BY <1>4, <2>1, <2>2, ReadBackIs
  <2>4. arm \in Arms(defs, rules)
    BY <1>4, <2>1, <2>2, WrittenIsAnArm
  <2> QED
    BY <2>3, <2>4
<1>7. ASSUME NEW arm \in Arms(defs, rules)
      PROVE  /\ ReadBack(defs, arm) # {}
             /\ \A at \in ReadBack(defs, arm) : \A i \in Violations(at, rules) :
                  rules[i].kind = "forbidden"
  <2>1. PICK at : FullPoint(at, defs, {}) /\ arm = ArmFor(defs, at)
    BY <1>4, ArmsAreWritten
  <2>2. ReadBack(defs, arm) = {at}
    BY <1>4, <2>1, ReadBackIs
  <2>3. \A r \in LinearRules(rules) : Obeys(defs, arm, r)
    BY DEF Arms
  <2>4. \A i \in Violations(at, rules) : rules[i].kind = "forbidden"
    BY <1>4, <2>1, <2>3, ObeyedIs
  <2> QED
    BY <2>2, <2>4
<1>8. FinitePoints(defs, rules) = points
  <2>1. Len(defs) # 0
    <3>1. params # <<>> /\ params \in Seq(ToSet(params)) /\ DOMAIN defs = DOMAIN params
      BY <1>1 DEF ContractIs, SpaceAccepted, Definitions
    <3>2. defs \in Seq(ToSet(defs))
      BY <1>4 DEF TreeIs
    <3> QED
      BY <3>1, <3>2
  <2>2. \A at : at \in FinitePoints(defs, rules)
                 <=> FullPoint(at, defs, {}) /\ Feasible(at, rules)
    BY <1>4, <2>1, CountedAre
  <2> QED
    BY <1>5, <2>2
<1> QED
  BY <1>6, <1>7, <1>8

-----------------------------------------------------------------------------
(* Means and tails.                                                         *)

\* A sum of multiples is the multiple of the sum.
LEMMA SumScaled ==
  ASSUME NEW T, IsFiniteSet(T), NEW f \in [T -> Int], NEW c \in Int,
         NEW g, g = [x \in T |-> c * f[x]]
  PROVE  SumFunction(f) \in Int /\ SumFunction(g) = c * SumFunction(f)
<1>1. PICK a : Sums(a, f, T) /\ SumFunction(f) = a[T]
  BY SumTable
<1>2. g \in [T -> Int]
  <2>1. \A x \in T : c * f[x] \in Int
    OBVIOUS
  <2> QED
    BY <2>1
<1>3. PICK b : Sums(b, g, T) /\ SumFunction(g) = b[T]
  BY <1>2, SumTable
<1>4. /\ AddsUp(a, f, SUBSET T) /\ AddsUp(b, g, SUBSET T)
      /\ \A s \in SUBSET T : a[s] \in Int /\ b[s] \in Int
  BY <1>1, <1>3 DEF Sums
<1>5. PICK ch : ch = Chosen(T) /\ Picks(ch, T)
  BY SetFoldIs
<1>6. PICK I : I = [s \in SUBSET T |-> {c * a[s]}]
  OBVIOUS
<1>7. b[{}] \in I[{}]
  <2>1. a[{}] = 0 /\ b[{}] = 0
    BY <1>4 DEF AddsUp
  <2>2. c * 0 = 0
    OBVIOUS
  <2> QED
    BY <1>6, <2>1, <2>2
<1>8. ASSUME NEW s \in (SUBSET T) \ {{}}, b[s \ {ch[s]}] \in I[s \ {ch[s]}] PROVE b[s] \in I[s]
  <2>1. PICK y : y = ch[s] /\ y = First(s) /\ y \in T
    BY <1>5 DEF Chosen, First, Picks
  <2>2. PICK t : t = s \ {y} /\ t \in SUBSET T
    OBVIOUS
  <2>3. a[s] = f[y] + a[t] /\ b[s] = g[y] + b[t]
    BY <1>4, <2>1, <2>2 DEF AddsUp
  <2>4. b[t] = c * a[t]
    BY <1>6, <1>8, <2>1, <2>2
  <2>5. PICK i, j \in Int : i = f[y] /\ j = a[t] /\ g[y] = c * i
    BY <1>4, <2>1, <2>2
  <2>6. b[s] = c * i + c * j /\ a[s] = i + j
    BY <2>3, <2>4, <2>5
  <2>7. c * i + c * j = c * (i + j)
    OBVIOUS
  <2> QED
    BY <1>6, <2>6, <2>7
<1>9. \A s \in SUBSET T : b[s] \in I[s]
  BY <1>5, <1>7, <1>8, SetsGrow
<1> QED
  BY <1>1, <1>3, <1>4, <1>6, <1>9

\* A sum does not depend on what the elements are called.
LEMMA SumRenamed ==
  ASSUME NEW T, IsFiniteSet(T), NEW f \in [T -> Int], NEW h, NEW U,
         U = {h[x] : x \in T}, \A x, y \in T : h[x] = h[y] => x = y,
         NEW g \in [U -> Int], \A x \in T : g[h[x]] = f[x]
  PROVE  SumFunction(g) = SumFunction(f)
<1>1. PICK a : Sums(a, f, T) /\ SumFunction(f) = a[T]
  BY SumTable
<1>2. IsFiniteSet(U)
  <2>1. PICK k : k = [x \in T |-> h[x]]
    OBVIOUS
  <2>2. k \in Surjection(T, U)
    BY <2>1 DEF Surjection
  <2> QED
    BY <2>2, FS_Surjection
<1>3. PICK b : Sums(b, g, U) /\ SumFunction(g) = b[U]
  BY ZenonT(30), <1>2, SumTable
<1>4. /\ AddsUp(a, f, SUBSET T) /\ AddsUp(b, g, SUBSET U) /\ AnyFirst(b, g, U)
      /\ \A s \in SUBSET T : a[s] \in Int
  BY <1>1, <1>2, <1>3, SumPicks DEF Sums
<1>5. PICK ch : ch = Chosen(T) /\ Picks(ch, T)
  BY SetFoldIs
<1>6. PICK I : I = [s \in SUBSET T |-> {b[{h[x] : x \in s}]}]
  OBVIOUS
<1>7. a[{}] \in I[{}]
  <2>1. {h[x] : x \in {}} = {}
    OBVIOUS
  <2> QED
    BY <1>4, <1>6, <2>1 DEF AddsUp
<1>8. ASSUME NEW s \in (SUBSET T) \ {{}}, a[s \ {ch[s]}] \in I[s \ {ch[s]}] PROVE a[s] \in I[s]
  <2>1. PICK y : y = ch[s] /\ y = First(s) /\ y \in s /\ y \in T
    BY <1>5 DEF Chosen, First, Picks
  <2>2. PICK t : t = s \ {y} /\ t \in SUBSET T
    <3>1. s \ {y} \in SUBSET T
      BY <1>8
    <3> QED
      BY <3>1
  <2>3. a[s] = f[y] + a[t]
    BY <1>4, <2>1, <2>2 DEF AddsUp
  <2>4. PICK v, w : v = {h[x] : x \in s} /\ w = {h[x] : x \in t}
    OBVIOUS
  <2>5. v \in SUBSET U /\ h[y] \in v /\ w = v \ {h[y]}
    BY <2>1, <2>2, <2>4
  <2>6. b[v] = g[h[y]] + b[w]
    BY <1>4, <2>5 DEF AnyFirst
  <2>7. a[t] = b[w]
    BY <1>6, <1>8, <2>1, <2>2, <2>4
  <2>8. a[s] = b[v]
    BY <2>1, <2>3, <2>6, <2>7
  <2> QED
    BY <1>6, <2>4, <2>8
<1>9. \A s \in SUBSET T : a[s] \in I[s]
  BY <1>5, <1>7, <1>8, SetsGrow
<1> QED
  BY <1>1, <1>3, <1>6, <1>9

\* Ones add up to the number of elements.
LEMMA SumOfOnes ==
  ASSUME NEW T, IsFiniteSet(T), NEW f, f = [x \in T |-> 1]
  PROVE  SumFunction(f) = Cardinality(T)
<1>1. f \in [T -> Int]
  OBVIOUS
<1>2. PICK a : Sums(a, f, T) /\ SumFunction(f) = a[T]
  BY <1>1, SumTable
<1>3. AddsUp(a, f, SUBSET T)
  BY <1>2 DEF Sums
<1>4. PICK ch : ch = Chosen(T) /\ Picks(ch, T)
  BY SetFoldIs
<1>5. PICK I : I = [s \in SUBSET T |-> {Cardinality(s)}]
  OBVIOUS
<1>6. a[{}] \in I[{}]
  BY <1>3, <1>5, FS_EmptySet DEF AddsUp
<1>7. ASSUME NEW s \in (SUBSET T) \ {{}}, a[s \ {ch[s]}] \in I[s \ {ch[s]}] PROVE a[s] \in I[s]
  <2>1. PICK y : y = ch[s] /\ y = First(s) /\ y \in s /\ y \in T
    BY <1>4 DEF Chosen, First, Picks
  <2>2. PICK t : t = s \ {y} /\ t \in SUBSET T
    OBVIOUS
  <2>3. a[s] = 1 + a[t]
    BY <1>3, <2>1, <2>2 DEF AddsUp
  <2>4. IsFiniteSet(s)
    BY FS_Subset
  <2>5. Cardinality(t) = Cardinality(s) - 1 /\ Cardinality(s) \in Nat
    BY <2>1, <2>2, <2>4, FS_RemoveElement, FS_CardinalityType
  <2>6. a[t] = Cardinality(t)
    BY <1>5, <1>7, <2>1, <2>2
  <2> QED
    BY <1>5, <2>3, <2>5, <2>6
<1>8. \A s \in SUBSET T : a[s] \in I[s]
  BY <1>4, <1>6, <1>7, SetsGrow
<1> QED
  BY <1>2, <1>5, <1>8

\* A weighted sum lies between what the weights make of a lower and of an upper bound.
LEMMA SumBetween ==
  ASSUME NEW T, IsFiniteSet(T), NEW w \in [T -> Nat], NEW v \in [T -> Int],
         NEW lo \in Int, NEW hi \in Int, \A x \in T : lo <= v[x] /\ v[x] <= hi,
         NEW g, g = [x \in T |-> w[x] * v[x]]
  PROVE  /\ SumFunction(w) \in Nat /\ SumFunction(g) \in Int
         /\ lo * SumFunction(w) <= SumFunction(g) /\ SumFunction(g) <= hi * SumFunction(w)
<1>1. g \in [T -> Int] /\ w \in [T -> Int]
  <2>1. \A x \in T : w[x] * v[x] \in Int
    OBVIOUS
  <2> QED
    BY <2>1
<1>2. PICK f, h : f = [x \in T |-> lo * w[x]] /\ h = [x \in T |-> hi * w[x]]
  OBVIOUS
<1>3. ASSUME NEW x \in T
      PROVE  f[x] \in Int /\ h[x] \in Int /\ f[x] <= g[x] /\ g[x] <= h[x]
  <2>1. PICK i \in Nat, j \in Int : i = w[x] /\ j = v[x] /\ lo <= j /\ j <= hi
    OBVIOUS
  <2>2. PICK p, q \in Nat : p = j - lo /\ q = hi - j
    BY <2>1
  <2>3. PICK a, b \in Nat : a = p * i /\ b = q * i
    OBVIOUS
  <2>4. i * j = lo * i + p * i /\ hi * i = i * j + q * i
    BY <2>2
  <2>5. PICK m, n, k \in Int : m = lo * i /\ n = i * j /\ k = hi * i
    OBVIOUS
  <2> QED
    BY <1>2, <2>1, <2>3, <2>4, <2>5
<1>4. f \in [T -> Int] /\ h \in [T -> Int]
  BY <1>2, <1>3
<1>5. SumFunction(f) <= SumFunction(g) /\ SumFunction(g) <= SumFunction(h)
      /\ SumFunction(g) \in Int
  <2>1. /\ FoldFunction(+, 0, f) <= FoldFunction(+, 0, g)
        /\ FoldFunction(+, 0, g) \in Int
    BY <1>1, <1>3, <1>4, SumGrows
  <2>2. FoldFunction(+, 0, g) <= FoldFunction(+, 0, h)
    BY <1>1, <1>3, <1>4, SumGrows
  <2> QED
    BY <2>1, <2>2, SumIsFold
<1>6. /\ SumFunction(w) \in Int /\ SumFunction(f) = lo * SumFunction(w)
      /\ SumFunction(h) = hi * SumFunction(w)
  BY <1>1, <1>2, SumScaled
<1>7. SumFunction(w) >= 0
  <2>1. PICK z : z = [x \in T |-> 0]
    OBVIOUS
  <2>2. z \in [T -> Int] /\ SumFunction(z) = 0
    BY <2>1, SumOfZeros
  <2>3. FoldFunction(+, 0, z) <= FoldFunction(+, 0, w)
    <3>1. \A x \in T : z[x] <= w[x]
      BY <2>1
    <3> QED
      BY <1>1, <2>2, <3>1, SumGrows
  <2> QED
    BY <1>6, <2>2, <2>3, SumIsFold
<1> QED
  BY <1>5, <1>6, <1>7

\* What is left of the tail of the expected improvement falls slower than the gain rises.
LEMMA TailShrinks ==
  ASSUME NEW s \in Nat \ {0}, NEW t \in Nat, s <= t, NEW h \in Nat, NEW m \in Nat, h <= m,
         NEW k \in Nat, k >= 2
  PROVE  /\ (s * s) \div (2 * s + 2 * m) \in Nat
         /\ (t * t) \div (2 * t + 2 * (h + k)) \in Nat
         /\ (s * s) \div (2 * s + 2 * m) < (t * t) \div (2 * t + 2 * (h + k)) + k
<1>1. PICK d \in Nat \ {0}, e \in Nat \ {0}, f \in Nat, g \in Nat :
        /\ d = 2 * s + 2 * m /\ e = 2 * t + 2 * (h + k) /\ f = s * s /\ g = t * t
  OBVIOUS
<1>2. PICK a \in Nat, b \in Nat : a = f \div d /\ b = g \div e
  <2>1. f \div d \in Nat /\ g \div e \in Nat
    OBVIOUS
  <2> QED
    BY <2>1
<1>3. a * d <= f /\ g < (b + 1) * e
  BY <1>2
<1>4. SUFFICES ASSUME a >= b + k PROVE FALSE
  BY <1>1, <1>2
<1>5. PICK c \in Nat : c = a - k + 1 /\ c >= b + 1 /\ a = c + k - 1
  <2>1. a - k + 1 \in Nat /\ a - k + 1 >= b + 1
    BY <1>4
  <2> QED
    BY <2>1
<1>6. g < c * e
  <2>1. PICK z \in Nat : c = b + 1 + z
    <3>1. c - (b + 1) \in Nat /\ c = b + 1 + (c - (b + 1))
      BY <1>5
    <3> QED
      BY <3>1
  <2>2. c * e = (b + 1) * e + z * e
    BY <2>1
  <2>3. z * e \in Nat /\ (b + 1) * e \in Nat
    OBVIOUS
  <2> QED
    BY <1>3, <2>2, <2>3
<1>7. 2 * (a * s) + 2 * (a * h) <= s * s /\ a * s \in Nat /\ a * h \in Nat
  <2>1. a * d = 2 * (a * s) + 2 * (a * m)
    BY <1>1
  <2>2. PICK y \in Nat : m = h + y
    <3>1. m - h \in Nat /\ m = h + (m - h)
      OBVIOUS
    <3> QED
      BY <3>1
  <2>3. a * m = a * h + a * y /\ a * y \in Nat
    BY <2>2
  <2> QED
    BY <1>1, <1>3, <2>1, <2>3
<1>8. 2 * a <= s
  <2>1. (2 * a) * s <= s * s
    BY <1>7
  <2>2. SUFFICES ASSUME 2 * a > s PROVE FALSE
    OBVIOUS
  <2>3. PICK y \in Nat \ {0} : 2 * a = s + y
    <3>1. 2 * a - s \in Nat \ {0} /\ 2 * a = s + (2 * a - s)
      BY <2>2
    <3> QED
      BY <3>1
  <2>4. (s + y) * s = s * s + y * s /\ y * s > 0
    BY <2>3
  <2> QED
    BY <2>1, <2>3, <2>4
<1>9. 2 * c <= s
  BY <1>5, <1>8
<1>10. s * s < 2 * (c * s) + 2 * (c * h) + 2 * (c * k)
  <2>1. PICK y \in Nat : t = s + y
    <3>1. t - s \in Nat /\ t = s + (t - s)
      OBVIOUS
    <3> QED
      BY <3>1
  <2>2. g = s * s + 2 * (s * y) + y * y
    BY <1>1, <2>1
  <2>3. c * e = 2 * (c * s) + 2 * (c * y) + 2 * (c * h) + 2 * (c * k)
    BY <1>1, <2>1
  <2>4. c * y <= s * y
    <3>1. PICK z \in Nat : s = c + z
      <4>1. s - c \in Nat /\ s = c + (s - c)
        BY <1>9
      <4> QED
        BY <4>1
    <3>2. s * y = c * y + z * y /\ z * y \in Nat /\ c * y \in Nat
      BY <3>1
    <3> QED
      BY <3>2
  <2>5. y * y \in Nat /\ c * y \in Nat /\ s * y \in Nat /\ c * s \in Nat /\ c * h \in Nat
        /\ c * k \in Nat /\ s * s \in Nat
    OBVIOUS
  <2> QED
    BY <1>6, <2>2, <2>3, <2>4, <2>5
<1>11. PICK j \in Nat : k = j + 2
  <2>1. k - 2 \in Nat /\ k = (k - 2) + 2
    OBVIOUS
  <2> QED
    BY <2>1
<1>12. (j + 1) * s + (j + 1) * h < (j + 2) * c
  <2>1. a * s = c * s + (j + 1) * s /\ a * h = c * h + (j + 1) * h
    BY <1>5, <1>11
  <2>2. c * k = (j + 2) * c
    BY <1>11
  <2>3. c * s \in Nat /\ c * h \in Nat /\ (j + 1) * s \in Nat /\ (j + 1) * h \in Nat
        /\ (j + 2) * c \in Nat /\ s * s \in Nat
    OBVIOUS
  <2> QED
    BY <1>7, <1>10, <2>1, <2>2, <2>3
<1>13. 2 * ((j + 2) * c) <= (j + 2) * s
  <2>1. PICK z \in Nat : s = 2 * c + z
    <3>1. s - 2 * c \in Nat /\ s = 2 * c + (s - 2 * c)
      BY <1>9
    <3> QED
      BY <3>1
  <2>2. (j + 2) * s = 2 * ((j + 2) * c) + (j + 2) * z /\ (j + 2) * z \in Nat
    BY <2>1
  <2>3. (j + 2) * c \in Nat
    OBVIOUS
  <2> QED
    BY <2>2, <2>3
<1>14. 2 * ((j + 1) * s) = (j + 2) * s + j * s /\ j * s \in Nat /\ (j + 1) * h \in Nat
       /\ (j + 1) * s \in Nat /\ (j + 2) * s \in Nat /\ (j + 2) * c \in Nat
  OBVIOUS
<1> QED
  BY <1>12, <1>13, <1>14

=============================================================================
