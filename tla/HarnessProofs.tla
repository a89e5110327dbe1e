---------------------------- MODULE HarnessProofs ----------------------------
(***************************************************************************)
(* The client harness for any suggestions, ids, waits and courses, and for *)
(* a log of any length.  The event feed first: how the lines of the log    *)
(* lie, and the invariant that keeps the sidecar's deliveries complete and *)
(* their ids the same when an event is delivered again.  Then the whole:   *)
(* the states are of their types, a record saved is worth a job, and an    *)
(* evaluation has one result.                                              *)
(***************************************************************************)
EXTENDS Harness, FiniteSetTheorems, SequenceTheorems, WellFoundedInduction, TLAPS

-----------------------------------------------------------------------------
(* Sets of numbers and sequences. *)

LEMMA LeastOfNaturals ==
  ASSUME NEW T \in SUBSET Nat, T # {}
  PROVE  \E x \in T : \A y \in T : x <= y
<1> DEFINE R == {ss \in Nat \X Nat : ss[1] < ss[2]}
<1>1. IsWellFoundedOn(R, Nat)
  BY NatLessThanWellFounded DEF OpToRel
<1> HIDE DEF R
<1>2. PICK x \in T : \A y \in T : ~(<<y, x>> \in R)
  BY <1>1, WFMin
<1>3. ASSUME NEW y \in T PROVE x <= y
  <2>1. <<y, x>> \notin R
    BY <1>2
  <2>2. <<y, x>> \in Nat \X Nat /\ <<y, x>>[1] = y /\ <<y, x>>[2] = x
    OBVIOUS
  <2>3. ~(y < x)
    BY <2>1, <2>2 DEF R
  <2> QED
    BY <2>3
<1> QED
  BY <1>2, <1>3

LEMMA GreatestOfNaturals ==
  ASSUME NEW b \in Nat, NEW T \in SUBSET (0..b), T # {}
  PROVE  \E x \in T : \A y \in T : y <= x
<1> DEFINE U == {n \in 0..b : b - n \in T}
<1>1. U \in SUBSET Nat
  OBVIOUS
<1>2. \A y \in T : b - y \in U
  OBVIOUS
<1>3. U # {}
  BY <1>2
<1>4. PICK n \in U : \A m \in U : n <= m
  <2> HIDE DEF U
  <2> QED
    BY <1>1, <1>3, LeastOfNaturals
<1>5. ASSUME NEW y \in T PROVE y <= b - n
  <2>1. n <= b - y
    BY <1>2, <1>4
  <2> QED
    BY <2>1
<1> QED
  BY <1>4, <1>5

LEMMA FunctionIsSeq ==
  ASSUME NEW S, NEW n \in Nat, NEW f \in [1..n -> S]
  PROVE  f \in Seq(S) /\ Len(f) = n
<1>1. f \in Seq(S)
  BY SeqDef
<1>2. Len(f) \in Nat /\ DOMAIN f = 1..Len(f) /\ DOMAIN f = 1..n
  BY <1>1, LenProperties
<1> QED
  BY <1>1, <1>2

-----------------------------------------------------------------------------
(* Types. *)

Cursor == [whole : BOOLEAN, line : Nat, offset : Nat]
Fragment == [event : 1..MaxEvents, part : 1..3]
Delivery == [event : 1..MaxEvents, id : Nat \X (1..MaxEvents)]

FeedTyped ==
  /\ FeedTypeOK
  /\ log \in Seq(Fragment)
  /\ origin \in Nat /\ next \in [cursor : Cursor, origin : Nat]
  /\ batch \in Seq(Delivery) /\ delivered \in SUBSET Delivery
  /\ twice \in Nat /\ tears \in Nat /\ failures \in Nat /\ removed \in Nat

\* The writer appends an event's fragments in their order; what is being
\* written is the last of the log.
LogWritten ==
  /\ \A i \in DOMAIN log :
       /\ log[i].event <= events
       /\ log[i].part > 1 =>
            i > 1 /\ log[i - 1] = [event |-> log[i].event, part |-> log[i].part - 1]
       /\ log[i].part = 1 => \A k \in 1..i - 1 : log[k].event < log[i].event
  /\ writing < 3 => log # <<>> /\ log[Len(log)] = [event |-> events, part |-> writing]

LEMMA LogFacts ==
  ASSUME FeedTyped
  PROVE  /\ Len(log) \in Nat /\ DOMAIN log = 1..Len(log)
         /\ \A i \in 1..Len(log) :
              /\ log[i] \in Fragment /\ log[i].event \in 1..MaxEvents
              /\ log[i].part \in 1..3
<1>1. log \in Seq(Fragment)
  BY DEF FeedTyped
<1>2. Len(log) \in Nat /\ DOMAIN log = 1..Len(log) /\ log \in [1..Len(log) -> Fragment]
  BY <1>1, LenProperties
<1>3. \A i \in 1..Len(log) : log[i] \in Fragment
  BY <1>2
<1> QED
  BY <1>2, <1>3 DEF Fragment

-----------------------------------------------------------------------------
(* Lines. *)

LEMMA LineEndIs ==
  ASSUME FeedTyped, NEW i \in 1..Len(log)
  PROVE  /\ LineEnd(i) \in i..Len(log)
         /\ \A j \in i..LineEnd(i) - 1 : log[j].part # 3
         /\ LineEnd(i) = Len(log) \/ log[LineEnd(i)].part = 3
<1> DEFINE ends == {j \in i..Len(log) : log[j].part = 3}
<1>0. Len(log) \in Nat
  BY LogFacts
<1>1. CASE ends = {}
  <2>1. LineEnd(i) = Len(log)
    BY <1>1 DEF LineEnd
  <2>2. \A j \in i..Len(log) : log[j].part # 3
    BY <1>1
  <2> QED
    BY <1>0, <2>1, <2>2
<1>2. CASE ends # {}
  <2>1. ends \in SUBSET Nat
    BY <1>0
  <2>2. \E x \in ends : \A y \in ends : x <= y
    <3> HIDE DEF ends
    <3> QED
      BY <1>2, <2>1, LeastOfNaturals
  <2>3. Min(ends) \in ends /\ \A y \in ends : Min(ends) <= y
    BY <2>2 DEF Min
  <2>4. LineEnd(i) = Min(ends)
    BY <1>2 DEF LineEnd
  <2>5. LineEnd(i) \in i..Len(log) /\ log[LineEnd(i)].part = 3
    BY <2>3, <2>4
  <2>6. ASSUME NEW j \in i..LineEnd(i) - 1 PROVE log[j].part # 3
    <3>1. j \in i..Len(log) /\ ~(LineEnd(i) <= j)
      BY <1>0, <2>5
    <3>2. j \notin ends
      BY <2>3, <2>4, <3>1
    <3> QED
      BY <3>1, <3>2
  <2> QED
    BY <2>5, <2>6
<1> QED
  BY <1>1, <1>2

\* Every position behind the offset is in a line.
LEMMA HasLine ==
  ASSUME FeedTyped, NEW from \in Nat, NEW i \in from + 1..Len(log)
  PROVE  \E l \in Lines(from) : i \in l.at..l.to
<1> DEFINE starts == {k \in LineStarts(from) : k <= i}
<1>0. Len(log) \in Nat /\ starts \in SUBSET (0..i) /\ i \in Nat
  BY LogFacts DEF LineStarts
<1>1. from + 1 \in starts
  BY <1>0 DEF LineStarts
<1>2. PICK at \in starts : \A k \in starts : k <= at
  <2> HIDE DEF starts
  <2> QED
    BY <1>0, <1>1, GreatestOfNaturals
<1>9. at \in LineStarts(from)
  BY <1>2
<1>3. at \in 1..Len(log) /\ at <= i /\ from + 1 <= at /\ from \in Nat
  BY <1>0 DEF LineStarts
<1>4. i <= LineEnd(at)
  <2>0. LineEnd(at) \in at..Len(log)
    BY <1>3, LineEndIs
  <2> SUFFICES ASSUME LineEnd(at) < i PROVE FALSE
    BY <1>0, <1>3, <2>0
  <2>1. LineEnd(at) \in at..Len(log) /\ log[LineEnd(at)].part = 3
    BY <1>0, <1>3, LineEndIs
  <2> DEFINE k == LineEnd(at) + 1
  <2>2. k \in from + 1..Len(log) /\ k - 1 = LineEnd(at) /\ k <= i /\ k > at
    BY <1>0, <1>3, <2>1
  <2>3. k \in starts
    BY <2>1, <2>2 DEF LineStarts
  <2>4. k <= at
    BY <1>2, <2>3
  <2> QED
    BY <1>0, <1>3, <2>1, <2>2, <2>4
<1>5. [at |-> at, to |-> LineEnd(at)] \in Lines(from)
  BY <1>9 DEF Lines
<1>6. LineEnd(at) \in Nat
  BY <1>3, LineEndIs
<1>7. i \in at..LineEnd(at)
  BY <1>0, <1>3, <1>4, <1>6
<1> DEFINE l == [at |-> at, to |-> LineEnd(at)]
<1>8. l \in Lines(from) /\ l.at = at /\ l.to = LineEnd(at)
  BY <1>5
<1> HIDE DEF l
<1> QED
  BY <1>7, <1>8

LEMMA LineIs ==
  ASSUME FeedTyped, NEW from \in Nat, NEW l \in Lines(from)
  PROVE  /\ l.at \in LineStarts(from) /\ l.at \in from + 1..Len(log)
         /\ l.at = from + 1 \/ log[l.at - 1].part = 3
         /\ l.to = LineEnd(l.at) /\ l.to \in l.at..Len(log)
         /\ l = [at |-> l.at, to |-> l.to]
         /\ \A j \in l.at..l.to - 1 : log[j].part # 3
<1>1. PICK i \in LineStarts(from) : l = [at |-> i, to |-> LineEnd(i)]
  BY DEF Lines
<1>2. i \in 1..Len(log) /\ i \in from + 1..Len(log) /\ (i = from + 1 \/ log[i - 1].part = 3)
  BY LogFacts DEF LineStarts
<1> QED
  BY <1>1, <1>2, LineEndIs

\* The text of a line is its fragments without the newline.
LEMMA TextIs ==
  ASSUME FeedTyped, NEW from \in Nat, NEW l \in Lines(from)
  PROVE  /\ Text(l) \in Seq(Fragment)
         /\ \A j \in l.at..l.to : log[j].part # 3 =>
              j - l.at + 1 \in 1..Len(Text(l)) /\ Text(l)[j - l.at + 1] = log[j]
         /\ \A k \in 1..Len(Text(l)) :
              /\ l.at + k - 1 \in l.at..l.to /\ Text(l)[k] = log[l.at + k - 1]
<1> DEFINE e == l.to - (IF log[l.to].part = 3 THEN 1 ELSE 0)
<1>1. /\ Len(log) \in Nat /\ l.at \in 1..Len(log) /\ l.to \in l.at..Len(log)
      /\ \A j \in l.at..l.to - 1 : log[j].part # 3
  BY LineIs, LogFacts
<1>2. e \in Int /\ e <= l.to /\ e >= l.at - 1 /\ e >= l.to - 1
      /\ (log[l.to].part # 3 => e = l.to)
  BY <1>1
<1>3. Text(l) = SubSeq(log, l.at, e)
  BY DEF Text
<1> HIDE DEF e
<1>4. \A i \in l.at..e : log[i] \in Fragment
  BY <1>1, <1>2, LogFacts
<1>5. /\ Text(l) \in Seq(Fragment)
      /\ Len(Text(l)) = IF l.at <= e THEN e - l.at + 1 ELSE 0
      /\ \A i \in 1..e - l.at + 1 : Text(l)[i] = log[l.at + i - 1]
  BY <1>1, <1>2, <1>3, <1>4, SubSeqProperties
<1>6. Len(Text(l)) = e - l.at + 1
  <2>1. l.at \in Int /\ e \in Int /\ e >= l.at - 1
    BY <1>1, <1>2
  <2>2. Len(Text(l)) = IF l.at <= e THEN e - l.at + 1 ELSE 0
    BY <1>5
  <2> QED
    BY <2>1, <2>2
<1>7. ASSUME NEW j \in l.at..l.to, log[j].part # 3
      PROVE  j - l.at + 1 \in 1..Len(Text(l)) /\ Text(l)[j - l.at + 1] = log[j]
  <2>1. j <= e
    BY <1>1, <1>2, <1>7
  <2>2. j - l.at + 1 \in 1..e - l.at + 1 /\ l.at + (j - l.at + 1) - 1 = j
    BY <1>1, <1>2, <2>1
  <2>3. Text(l)[j - l.at + 1] = log[l.at + (j - l.at + 1) - 1]
    BY <1>5, <2>2
  <2> QED
    BY <1>6, <2>2, <2>3
<1>8. ASSUME NEW k \in 1..Len(Text(l))
      PROVE  l.at + k - 1 \in l.at..l.to /\ Text(l)[k] = log[l.at + k - 1]
  <2>1. k \in 1..e - l.at + 1
    BY <1>6
  <2>2. l.at + k - 1 \in l.at..l.to
    BY <1>1, <1>2, <2>1
  <2>3. Text(l)[k] = log[l.at + k - 1]
    BY <1>5, <2>1
  <2> QED
    BY <2>2, <2>3
<1>9. Text(l) \in Seq(Fragment)
  BY <1>5
<1> QED
  BY <1>7, <1>8, <1>9

-----------------------------------------------------------------------------
(* What a consumer makes of the lines. *)

LEMMA LineNumberIsNat ==
  ASSUME FeedTyped, NEW from \in Cursor, NEW i \in Nat
  PROVE  LineNumber(from, i) \in Nat
<1> DEFINE starts == {k \in LineStarts(from.offset) : k <= i}
<1>1. Len(log) \in Nat /\ from.offset \in Nat /\ from.line \in Nat
  BY LogFacts DEF Cursor
<1>2. starts \in SUBSET (1..Len(log))
  BY <1>1 DEF LineStarts
<1>3. IsFiniteSet(1..Len(log))
  BY <1>1, FS_Interval
<1> HIDE DEF starts
<1>5. IsFiniteSet(starts)
  BY <1>2, <1>3, FS_Subset
<1>4. Cardinality(starts) \in Nat
  BY <1>5, FS_CardinalityType
<1> QED
  BY <1>1, <1>4 DEF LineNumber, starts

LEMMA GoodIs ==
  ASSUME FeedTyped, LogWritten, NEW from \in Cursor, Readable(from), NEW l \in Good(from)
  PROVE  /\ l \in Lines(from.offset) /\ Parses(l)
         /\ l.at \in 1..Len(log) /\ l.at > from.offset
         /\ l = [at |-> l.at, to |-> LineEnd(l.at)]
         /\ Text(l)[1].event \in 1..MaxEvents
         /\ log[l.at] = [event |-> Text(l)[1].event, part |-> 1]
         /\ EventAt(from, l) \in Delivery
         /\ EventAt(from, l).event = Text(l)[1].event
         /\ EventAt(from, l).id = <<LineNumber(from, l.at), Text(l)[1].event>>
<1>1. l \in Lines(from.offset) /\ Len(Text(l)) = 2 /\ from.offset \in Nat
  BY DEF Good, Cursor
<1>2. Text(l) # <<>>
  <2>1. Len(<<>>) = 0 /\ 0 # 2
    BY EmptySeq
  <2> QED
    BY <1>1, <2>1, Zenon
<1>3. Parses(l)
  BY <1>1, <1>2 DEF Readable, Blank
<1>4. /\ Len(log) \in Nat /\ l.at \in from.offset + 1..Len(log)
      /\ l = [at |-> l.at, to |-> LineEnd(l.at)]
  BY <1>1, LineIs, LogFacts
<1>5. l.at \in 1..Len(log) /\ l.at > from.offset /\ l.at \in Nat
  BY <1>1, <1>4
<1>6. Text(l)[1] = log[l.at]
  <2>1. 1 \in 1..Len(Text(l)) /\ l.at + 1 - 1 = l.at
    BY <1>1, <1>5
  <2> QED
    BY <1>1, <2>1, TextIs
<1>7. Text(l)[1].part = 1
  BY <1>3 DEF Parses
<1>8. log[l.at] \in Fragment
  BY <1>5, LogFacts
<1>9. /\ Text(l)[1].event \in 1..MaxEvents
      /\ log[l.at] = [event |-> Text(l)[1].event, part |-> 1]
  BY <1>6, <1>7, <1>8 DEF Fragment
<1>10. LineNumber(from, l.at) \in Nat
  BY <1>5, LineNumberIsNat
<1> QED
  BY <1>1, <1>3, <1>4, <1>5, <1>9, <1>10 DEF EventAt, Delivery

LEMMA GoodIsFinite ==
  ASSUME FeedTyped, NEW from \in Cursor
  PROVE  IsFiniteSet(Good(from))
<1> DEFINE f == [l \in Good(from) |-> l.at]
<1>1. Len(log) \in Nat /\ from.offset \in Nat
  BY LogFacts DEF Cursor
<1>2. ASSUME NEW l \in Good(from)
      PROVE  l.at \in 1..Len(log) /\ l = [at |-> l.at, to |-> LineEnd(l.at)]
  BY <1>1, LineIs DEF Good
<1>3. f \in Injection(Good(from), 1..Len(log))
  BY <1>2 DEF Injection, IsInjective
<1>4. IsFiniteSet(1..Len(log))
  BY <1>1, FS_Interval
<1> HIDE DEF f
<1> QED
  BY <1>3, <1>4, FS_Injection

\* The n-th of finitely many lines is one of them, and each is the n-th for
\* one n.
LEMMA Ranks ==
  ASSUME NEW G, IsFiniteSet(G), \A l \in G : l.at \in Nat,
         \A k, l \in G : k.at = l.at => k = l
  PROVE  \E rank \in [G -> 1..Cardinality(G)] :
           /\ \A l \in G : rank[l] = Cardinality({k \in G : k.at <= l.at})
           /\ \A n \in 1..Cardinality(G) : \E l \in G : rank[l] = n
           /\ \A k, l \in G : rank[k] = rank[l] => k = l
<1> DEFINE UpTo(l) == {k \in G : k.at <= l.at}
           rank == [l \in G |-> Cardinality(UpTo(l))]
<1>1. ASSUME NEW l \in G
      PROVE  /\ UpTo(l) \in SUBSET G /\ IsFiniteSet(UpTo(l)) /\ l \in UpTo(l)
             /\ Cardinality(UpTo(l)) \in 1..Cardinality(G)
  <2>1. UpTo(l) \in SUBSET G /\ l \in UpTo(l)
    OBVIOUS
  <2>2. IsFiniteSet(UpTo(l)) /\ Cardinality(UpTo(l)) <= Cardinality(G)
    <3> HIDE DEF UpTo
    <3> QED
      BY <2>1, FS_Subset
  <2>3. Cardinality(G) \in Nat /\ Cardinality(UpTo(l)) \in Nat
    BY <2>2, FS_CardinalityType
  <2>4. Cardinality(UpTo(l)) # 0
    <3> HIDE DEF UpTo
    <3> QED
      BY <2>1, <2>2, FS_EmptySet
  <2> QED
    BY <2>1, <2>2, <2>3, <2>4
<1>2. ASSUME NEW k \in G, NEW l \in G, Cardinality(UpTo(k)) = Cardinality(UpTo(l))
      PROVE  k = l
  <2>1. UpTo(k) \in SUBSET UpTo(l) \/ UpTo(l) \in SUBSET UpTo(k)
    OBVIOUS
  <2>2. UpTo(k) = UpTo(l)
    <3>1. IsFiniteSet(UpTo(k)) /\ IsFiniteSet(UpTo(l))
      BY <1>1
    <3> HIDE DEF UpTo
    <3> QED
      BY <1>2, <2>1, <3>1, FS_Subset
  <2>3. k.at <= l.at /\ l.at <= k.at
    BY <1>1, <2>2
  <2> QED
    BY <2>3
<1>3. rank \in [G -> 1..Cardinality(G)] /\ \A l \in G : rank[l] = Cardinality(UpTo(l))
  BY <1>1
<1>4. \A k, l \in G : rank[k] = rank[l] => k = l
  BY <1>2, <1>3
<1>5. Cardinality(G) \in Nat
  BY FS_CardinalityType
<1> DEFINE T == 1..Cardinality(G)
<1>6. IsFiniteSet(T) /\ Cardinality(T) = Cardinality(G)
  <2>1. \A c \in Nat : IsFiniteSet(1..c) /\ Cardinality(1..c) = c
    BY FS_Interval
  <2> QED
    BY <1>5, <2>1
<1>7. rank \in Injection(G, T)
  BY <1>3, <1>4 DEF Injection, IsInjective
<1>8. rank \in Surjection(G, T)
  <2> HIDE DEF rank, T
  <2> QED
    BY <1>6, <1>7, FS_Injection
<1>9. \A n \in T : \E l \in G : rank[l] = n
  BY <1>8 DEF Surjection
<1> QED
  BY <1>3, <1>4, <1>9

\* What is consumed: one event for each good line.
LEMMA EventsAre ==
  ASSUME FeedTyped, LogWritten, NEW from \in Cursor, Readable(from)
  PROVE  /\ EventsFrom(from) \in Seq(Delivery)
         /\ \A l \in Good(from) : \E n \in DOMAIN EventsFrom(from) :
              EventsFrom(from)[n] = EventAt(from, l)
         /\ \A n \in DOMAIN EventsFrom(from) : \E l \in Good(from) :
              EventsFrom(from)[n] = EventAt(from, l)
         /\ \A m, n \in DOMAIN EventsFrom(from) :
              EventsFrom(from)[m].event = EventsFrom(from)[n].event => m = n
<1> DEFINE G == Good(from)  E == EventsFrom(from)
<1>1. IsFiniteSet(G)
  BY GoodIsFinite
<1>2. ASSUME NEW l \in G PROVE l.at \in Nat /\ l = [at |-> l.at, to |-> LineEnd(l.at)]
  <2>1. l.at \in 1..Len(log) /\ l = [at |-> l.at, to |-> LineEnd(l.at)]
    BY GoodIs
  <2> QED
    BY <2>1
<1>3. ASSUME NEW k \in G, NEW l \in G, k.at = l.at PROVE k = l
  <2>1. k = [at |-> l.at, to |-> LineEnd(l.at)] /\ l = [at |-> l.at, to |-> LineEnd(l.at)]
    BY <1>2, <1>3
  <2> QED
    BY <2>1
<1>4. PICK rank \in [G -> 1..Cardinality(G)] :
        /\ \A l \in G : rank[l] = Cardinality({k \in G : k.at <= l.at})
        /\ \A n \in 1..Cardinality(G) : \E l \in G : rank[l] = n
        /\ \A k, l \in G : rank[k] = rank[l] => k = l
  <2> HIDE DEF G
  <2> QED
    BY <1>1, <1>2, <1>3, Ranks
<1> DEFINE nth(n) == CHOOSE l \in G : Cardinality({k \in G : k.at <= l.at}) = n
<1>5. Cardinality(G) \in Nat
  BY <1>1, FS_CardinalityType
<1>6. \A n \in 1..Cardinality(G) : nth(n) \in G /\ rank[nth(n)] = n
  BY <1>4
<1>7. E = [n \in 1..Cardinality(G) |-> EventAt(from, nth(n))]
  BY DEF EventsFrom
<1>8. \A l \in G : EventAt(from, l) \in Delivery
  BY GoodIs
<1> HIDE DEF E, G, nth
<1>9. E \in [1..Cardinality(G) -> Delivery]
  BY <1>6, <1>7, <1>8
<1>10. E \in Seq(Delivery) /\ DOMAIN E = 1..Cardinality(G)
  BY <1>5, <1>9, FunctionIsSeq
<1>11. \A n \in DOMAIN E : nth(n) \in G /\ E[n] = EventAt(from, nth(n)) /\ rank[nth(n)] = n
  BY <1>6, <1>7, <1>10
<1>12. ASSUME NEW l \in G PROVE \E n \in DOMAIN E : E[n] = EventAt(from, l)
  <2>1. rank[l] \in DOMAIN E /\ nth(rank[l]) = l
    BY <1>4, <1>6, <1>10
  <2> QED
    BY <1>11, <2>1
<1>13. ASSUME NEW k \in G, NEW l \in G, EventAt(from, k).event = EventAt(from, l).event
       PROVE  k = l
  <2>0. k \in Good(from) /\ l \in Good(from)
    BY DEF G
  <2>5. /\ k.at \in 1..Len(log) /\ log[k.at] = [event |-> EventAt(from, k).event, part |-> 1]
        /\ l.at \in 1..Len(log) /\ log[l.at] = [event |-> EventAt(from, l).event, part |-> 1]
    BY <2>0, GoodIs
  <2>1. /\ k.at \in 1..Len(log) /\ l.at \in 1..Len(log)
        /\ log[k.at].event = log[l.at].event /\ log[k.at].part = 1 /\ log[l.at].part = 1
    BY <1>13, <2>5
  <2>2. \A i \in 1..Len(log) : log[i].event \in Nat
    BY LogFacts
  <2>6. \A i, j \in 1..Len(log) : i < j /\ log[j].part = 1 => log[i].event < log[j].event
    <3> SUFFICES ASSUME NEW i \in 1..Len(log), NEW j \in 1..Len(log), i < j, log[j].part = 1
                 PROVE  log[i].event < log[j].event
      OBVIOUS
    <3>1. i \in 1..j - 1 /\ j \in DOMAIN log
      BY LogFacts
    <3> QED
      BY <3>1 DEF LogWritten
  <2>3. ~(k.at < l.at) /\ ~(l.at < k.at)
    BY <2>1, <2>2, <2>6
  <2>4. k.at = l.at
    BY <2>1, <2>3
  <2> QED
    BY <1>3, <2>4
<1>14. \A m, n \in DOMAIN E : E[m].event = E[n].event => m = n
  BY <1>11, <1>13
<1> QED
  BY <1>10, <1>11, <1>12, <1>14 DEF E, G

\* What a reader goes over: fragments of events it has read, or the newline of
\* the line before.
LEMMA AllIsRead ==
  ASSUME FeedTyped, LogWritten, NEW from \in Cursor, Readable(from),
         NEW i \in from.offset + 1..Len(log)
  PROVE  \/ \E l \in Good(from) : EventAt(from, l).event = log[i].event
         \/ from.offset \in 1..Len(log) /\ log[from.offset].event = log[i].event
<1>0. from.offset \in Nat /\ Len(log) \in Nat /\ i \in 1..Len(log)
  BY LogFacts DEF Cursor
<1>1. PICK l \in Lines(from.offset) : i \in l.at..l.to
  BY <1>0, HasLine
<1>2. /\ l.at \in from.offset + 1..Len(log) /\ l.to \in l.at..Len(log)
      /\ l.at = from.offset + 1 \/ log[l.at - 1].part = 3
      /\ \A j \in l.at..l.to - 1 : log[j].part # 3
  BY <1>0, <1>1, LineIs
<1>3. /\ \A j \in l.at..l.to : log[j].part # 3 =>
           j - l.at + 1 \in 1..Len(Text(l)) /\ Text(l)[j - l.at + 1] = log[j]
      /\ \A k \in 1..Len(Text(l)) :
           l.at + k - 1 \in l.at..l.to /\ Text(l)[k] = log[l.at + k - 1]
  BY <1>0, <1>1, TextIs
<1>4. \A j \in 1..Len(log) : log[j].part > 1 =>
        j > 1 /\ log[j - 1] = [event |-> log[j].event, part |-> log[j].part - 1]
  BY LogFacts DEF LogWritten
<1>5. \A j \in 1..Len(log) : log[j].part \in 1..3
  BY LogFacts
<1>6. log[i].part = 3 =>
        /\ i = l.to /\ i > 1 /\ log[i - 1].part = 2 /\ log[i - 1].event = log[i].event
  <2> SUFFICES ASSUME log[i].part = 3
               PROVE  /\ i = l.to /\ i > 1
                      /\ log[i - 1].part = 2 /\ log[i - 1].event = log[i].event
    OBVIOUS
  <2>1. i = l.to
    BY <1>0, <1>1, <1>2
  <2>2. i > 1 /\ log[i - 1] = [event |-> log[i].event, part |-> 3 - 1]
    BY <1>0, <1>4
  <2> QED
    BY <2>1, <2>2
<1>7. CASE Blank(l)
  <2>1. Len(Text(l)) = 0
    <3>1. Len(<<>>) = 0
      BY EmptySeq
    <3> QED
      BY <1>7, <3>1, Zenon DEF Blank
  <2>2. \A j \in l.at..l.to : log[j].part = 3
    BY <1>3, <2>1
  <2>3. i = l.at /\ i = l.to /\ log[i].part = 3
    BY <1>0, <1>1, <1>2, <2>2
  <2>4. i = from.offset + 1
    BY <1>2, <1>6, <2>3
  <2> QED
    BY <1>0, <1>6, <2>3, <2>4
<1>8. CASE Parses(l)
  <2>1. /\ Len(Text(l)) = 2 /\ Text(l)[1].part = 1 /\ Text(l)[1].event = Text(l)[2].event
    BY <1>8 DEF Parses
  <2>2. l \in Good(from) /\ EventAt(from, l).event = Text(l)[1].event
    BY <1>1, <2>1 DEF Good, EventAt
  <2>3. \A j \in l.at..l.to : log[j].part # 3 => log[j].event = Text(l)[1].event
    <3> SUFFICES ASSUME NEW j \in l.at..l.to, log[j].part # 3
                 PROVE  log[j].event = Text(l)[1].event
      OBVIOUS
    <3>1. j - l.at + 1 \in 1..2 /\ Text(l)[j - l.at + 1] = log[j]
      BY <1>3, <2>1
    <3>2. j - l.at + 1 = 1 \/ j - l.at + 1 = 2
      BY <3>1
    <3> QED
      BY <2>1, <3>1, <3>2
  <2>4. log[l.at].part = 1
    <3>1. 1 \in 1..Len(Text(l)) /\ l.at + 1 - 1 = l.at
      BY <1>2, <2>1
    <3> QED
      BY <1>3, <2>1, <3>1
  <2>5. log[i].part = 3 => i - 1 \in l.at..l.to
    BY <1>0, <1>1, <1>2, <2>4
  <2>6. log[i].event = Text(l)[1].event
    BY <1>1, <1>6, <2>3, <2>5
  <2> QED
    BY <2>2, <2>6
<1> QED
  BY <1>1, <1>7, <1>8 DEF Readable

\* A longer log has the same lines up to a position of the shorter one.
LEMMA NumbersStay ==
  ASSUME FeedTyped, FeedTyped', UNCHANGED cursor, NEW i \in 1..Len(log),
         Len(log) <= Len(log'), \A k \in 1..Len(log) : log'[k] = log[k]
  PROVE  LineNumber(cursor, i)' = LineNumber(cursor, i)
<1>0. log' \in Seq(Fragment)
  BY DEF FeedTyped, Fragment
<1>1. Len(log) \in Nat /\ Len(log') \in Nat /\ cursor.offset \in Nat
  BY <1>0, LogFacts, LenProperties DEF FeedTyped, FeedTypeOK
<1>2. ASSUME NEW k \in 1..i, k # cursor.offset + 1, k \in cursor.offset + 1..Len(log')
      PROVE  log'[k - 1] = log[k - 1]
  <2>1. k - 1 \in 1..Len(log)
    BY <1>1, <1>2
  <2> QED
    BY <2>1
<1>3. {k \in LineStarts(cursor.offset) : k <= i}' = {k \in LineStarts(cursor.offset) : k <= i}
  BY <1>1, <1>2 DEF LineStarts
<1> QED
  BY <1>3 DEF LineNumber

-----------------------------------------------------------------------------
(* The invariant. *)

\* What the consumer has taken from the log: delivered, or about to be.
Taken == delivered \cup {batch[k] : k \in DOMAIN batch}

\* A cursor that counts from the beginning of this log lies in it.
CursorsKept ==
  /\ origin <= era /\ next.origin <= era
  /\ cursor.whole /\ origin = era => cursor.offset <= Len(log)
  /\ next.origin = era => next.cursor.offset <= Len(log)
  /\ next.cursor.whole
  /\ stage # "idle" => cursor.whole
  /\ stage # "delivering" <=> batch = <<>>
  /\ \A x \in Taken : x.event <= events

\* Before the cursor that will be saved, everything has been taken.
NothingLeft ==
  /\ NothingSkipped
  /\ stage # "idle" /\ next.origin = era =>
       \A i \in 1..next.cursor.offset : \E x \in Taken : x.event = log[i].event

\* Behind it, nothing has.
Ahead == stage # "idle" =>
  \A i \in 1..Len(log) : i > next.cursor.offset /\ log[i].part = 1 =>
    \A x \in Taken : x.event < log[i].event

\* An event's id is the one that the present cursor gives it, if it gives one.
Numbered == removed = 0 =>
  /\ \A d, e \in Taken : d.event = e.event => d.id = e.id
  /\ cursor.whole => \A x \in Taken, i \in 1..Len(log) :
       i > cursor.offset /\ log[i] = [event |-> x.event, part |-> 1] =>
         x.id = <<LineNumber(cursor, i), x.event>>

\* While no consumer died, what is taken is not yet delivered.
Once ==
  /\ \A j, k \in DOMAIN batch : batch[j].event = batch[k].event => j = k
  /\ failures + removed = 0 =>
       /\ twice = 0
       /\ \A d \in delivered, k \in DOMAIN batch : d.event # batch[k].event
       /\ stage = "idle" => \A d \in delivered, i \in 1..Len(log) :
            i > cursor.offset /\ log[i].part = 1 => d.event # log[i].event

FeedInv == FeedTyped /\ LogWritten /\ CursorsKept /\ NothingLeft /\ Ahead /\ Numbered /\ Once

LEMMA FeedInvInit == FeedInit => FeedInv
<1> SUFFICES ASSUME FeedInit PROVE FeedInv
  OBVIOUS
<1>1. At0 \in Cursor /\ next = [cursor |-> At0, origin |-> 0] /\ next.origin = 0
      /\ next.cursor = At0 /\ At0.whole /\ At0.offset = 0
  BY DEF At0, Cursor, FeedInit
<1>2. /\ log = <<>> /\ batch = <<>> /\ Len(log) = 0
      /\ DOMAIN log = {} /\ DOMAIN batch = {}
      /\ log \in Seq(Fragment) /\ batch \in Seq(Delivery)
  BY DEF FeedInit
<1>3. MaxEvents \in Nat /\ MaxLogResets \in Nat
  BY FeedAssumption
<1>4. FeedTyped
  BY <1>1, <1>2, <1>3 DEF FeedTyped, FeedTypeOK, FeedInit, Cursor
<1>5. Taken = {}
  BY <1>2 DEF Taken, FeedInit
<1>6. LogWritten
  BY <1>2 DEF LogWritten, FeedInit
<1>7. CursorsKept
  BY <1>1, <1>2, <1>5 DEF CursorsKept, FeedInit
<1>8. NothingLeft
  BY <1>1 DEF NothingLeft, NothingSkipped, FeedInit
<1>9. Ahead /\ Numbered
  BY <1>5 DEF Ahead, Numbered, FeedInit
<1>10. Once
  BY <1>2 DEF Once, FeedInit
<1> QED
  BY <1>4, <1>6, <1>7, <1>8, <1>9, <1>10 DEF FeedInv

-----------------------------------------------------------------------------
(* The log grows by an event's next fragment, or is removed. *)

LEMMA WritesAppend ==
  ASSUME FeedTyped, LogWritten, BeginEvent \/ WriteOn
  PROVE  \E f \in Fragment :
           /\ log' = Append(log, f) /\ log' \in Seq(Fragment)
           /\ Len(log') = Len(log) + 1 /\ Len(log) \in Nat
           /\ DOMAIN log = 1..Len(log) /\ DOMAIN log' = 1..Len(log) + 1
           /\ \A k \in 1..Len(log) : log'[k] = log[k]
           /\ log'[Len(log) + 1] = f
           /\ f = [event |-> events', part |-> writing']
           /\ writing' \in 1..3 /\ events' \in 1..MaxEvents /\ events <= events'
           /\ f.part = 1 => writing = 3 /\ events' = events + 1
           /\ f.part > 1 => Len(log) \in 1..Len(log) /\ events' = events
                            /\ log[Len(log)] = [event |-> f.event, part |-> f.part - 1]
<1> DEFINE f == [event |-> events', part |-> writing']
<1>1. /\ log \in Seq(Fragment) /\ events \in 0..MaxEvents /\ writing \in 1..3
      /\ MaxEvents \in Nat
  BY FeedAssumption DEF FeedTyped, FeedTypeOK
<1>2. Len(log) \in Nat /\ DOMAIN log = 1..Len(log)
  BY LogFacts
<1>3. CASE BeginEvent
  <2>1. writing' = 1 /\ events' = events + 1 /\ events' \in 1..MaxEvents /\ writing = 3
        /\ log' = Append(log, f)
    BY <1>1, <1>3 DEF BeginEvent, Write
  <2>2. f \in Fragment /\ f.part = 1
    BY <2>1 DEF Fragment
  <2> HIDE DEF f
  <2>3. /\ log' \in Seq(Fragment) /\ Len(log') = Len(log) + 1
        /\ \A k \in 1..Len(log) : log'[k] = log[k]
        /\ log'[Len(log) + 1] = f
    BY <1>1, <2>1, <2>2, AppendProperties
  <2>4. DOMAIN log' = 1..Len(log) + 1
    BY <2>3, LenProperties
  <2>5. f = [event |-> events', part |-> writing']
    BY DEF f
  <2> QED
    BY <1>1, <1>2, <2>1, <2>2, <2>3, <2>4, <2>5, SMTT(30)
<1>4. CASE WriteOn
  <2>1. writing' = writing + 1 /\ writing' \in {2, 3} /\ events' = events
        /\ log' = Append(log, f)
    BY <1>1, <1>4 DEF WriteOn, Write
  <2>2. log # <<>> /\ log[Len(log)] = [event |-> events, part |-> writing]
    BY <1>4 DEF LogWritten, WriteOn
  <2>3. Len(log) \in 1..Len(log)
    BY <1>1, <2>2, EmptySeq
  <2>4. events \in 1..MaxEvents
    BY <2>2, <2>3, LogFacts
  <2>5. f \in Fragment /\ f.part > 1 /\ f.part - 1 = writing /\ f.event = events
    BY <1>1, <2>1, <2>4 DEF Fragment
  <2> HIDE DEF f
  <2>6. /\ log' \in Seq(Fragment) /\ Len(log') = Len(log) + 1
        /\ \A k \in 1..Len(log) : log'[k] = log[k]
        /\ log'[Len(log) + 1] = f
    BY <1>1, <2>1, <2>5, AppendProperties
  <2>7. DOMAIN log' = 1..Len(log) + 1
    BY <2>6, LenProperties
  <2>8. f = [event |-> events', part |-> writing']
    BY DEF f
  <2>9. ~(f.part = 1) /\ events <= events'
    BY <1>1, <2>1, <2>5
  <2> QED
    BY <1>2, <2>1, <2>2, <2>3, <2>4, <2>5, <2>6, <2>7, <2>8, <2>9
<1> QED
  BY <1>3, <1>4

\* How a step leaves the log.
LEMMA LogSteps ==
  ASSUME [FeedNext]_feedVars
  PROVE  \/ (BeginEvent \/ WriteOn) /\ UNCHANGED era /\ Reader
         \/ ResetLog
         \/ UNCHANGED <<log, events, era>> /\ (UNCHANGED writing \/ WriterDies)
BY DEF FeedNext, feedVars, BeginEvent, WriteOn, WriterDies, Consume, Deliver, SaveCursor,
       ConsumerDies, RemoveCursor, Writer, logVars

LEMMA WrittenStep ==
  ASSUME FeedTyped, LogWritten, [FeedNext]_feedVars
  PROVE  LogWritten'
<1>1. CASE BeginEvent \/ WriteOn
  <2>1. PICK f \in Fragment :
           /\ Len(log') = Len(log) + 1 /\ Len(log) \in Nat
           /\ DOMAIN log = 1..Len(log) /\ DOMAIN log' = 1..Len(log) + 1
           /\ \A k \in 1..Len(log) : log'[k] = log[k]
           /\ log'[Len(log) + 1] = f
           /\ f = [event |-> events', part |-> writing']
           /\ writing' \in 1..3 /\ events' \in 1..MaxEvents /\ events <= events'
           /\ f.part = 1 => writing = 3 /\ events' = events + 1
           /\ f.part > 1 => Len(log) \in 1..Len(log) /\ events' = events
                            /\ log[Len(log)] = [event |-> f.event, part |-> f.part - 1]
    BY <1>1, WritesAppend
  <2> DEFINE n == Len(log)
  <2>2. events \in Nat /\ MaxEvents \in Nat /\ f.event = events' /\ f.part = writing'
    BY <2>1, FeedAssumption DEF FeedTyped, FeedTypeOK
  <2>3. \A k \in 1..n : log[k].event <= events /\ log[k].event \in Nat /\ log[k].part \in 1..3
    <3>1. \A k \in 1..n : log[k].event \in 1..MaxEvents /\ log[k].part \in 1..3
      BY LogFacts
    <3>2. \A k \in 1..n : log[k].event <= events
      BY <2>1 DEF LogWritten
    <3> QED
      BY <3>1, <3>2
  <2>4. ASSUME NEW k \in 1..n
        PROVE  /\ log'[k].event <= events'
               /\ log'[k].part > 1 =>
                    k > 1 /\ log'[k - 1] = [event |-> log'[k].event, part |-> log'[k].part - 1]
               /\ log'[k].part = 1 => \A j \in 1..k - 1 : log'[j].event < log'[k].event
    <3>1. /\ log[k].part > 1 =>
               k > 1 /\ log[k - 1] = [event |-> log[k].event, part |-> log[k].part - 1]
          /\ log[k].part = 1 => \A j \in 1..k - 1 : log[j].event < log[k].event
      BY <2>1 DEF LogWritten
    <3>2. log'[k] = log[k] /\ \A j \in 1..k - 1 : j \in 1..n /\ log'[j] = log[j]
      BY <2>1
    <3>3. k > 1 => log'[k - 1] = log[k - 1]
      BY <3>2
    <3>4. log'[k].event <= events'
      <4>1. log'[k].event = log[k].event /\ log[k].event \in Nat /\ log[k].event <= events
        BY <2>3, <3>2
      <4>2. events <= events' /\ events' \in Nat
        BY <2>1
      <4> QED
        BY <2>2, <4>1, <4>2
    <3>5. log'[k].part > 1 =>
            k > 1 /\ log'[k - 1] = [event |-> log'[k].event, part |-> log'[k].part - 1]
      BY <3>1, <3>2, <3>3
    <3>6. log'[k].part = 1 => \A j \in 1..k - 1 : log'[j].event < log'[k].event
      BY <3>1, <3>2
    <3> QED
      BY <3>4, <3>5, <3>6
  <2>5. /\ f.event <= events'
        /\ f.part > 1 =>
             n + 1 > 1 /\ log'[n + 1 - 1] = [event |-> f.event, part |-> f.part - 1]
        /\ f.part = 1 => \A j \in 1..n + 1 - 1 : log'[j].event < f.event
    <3>1. f.part > 1 => log'[n] = [event |-> f.event, part |-> f.part - 1] /\ n >= 1
      BY <2>1
    <3>2. n + 1 - 1 = n
      BY <2>1
    <3>3. f.part = 1 => \A j \in 1..n : log'[j].event < f.event
      BY <2>1, <2>2, <2>3
    <3> QED
      BY <2>1, <2>2, <3>1, <3>2, <3>3
  <2>6. \A i \in DOMAIN log' : i \in 1..n \/ i = n + 1
    BY <2>1
  <2>7. log' # <<>> /\ log'[Len(log')] = [event |-> events', part |-> writing']
    <3>1. 1 \in DOMAIN log'
      BY <2>1
    <3> QED
      BY <2>1, <3>1
  <2> QED
    BY <2>1, <2>4, <2>5, <2>6, <2>7 DEF LogWritten
<1>2. CASE ResetLog
  BY <1>2 DEF ResetLog, LogWritten
<1>3. CASE UNCHANGED <<log, events, era>> /\ (UNCHANGED writing \/ WriterDies)
  BY <1>3 DEF LogWritten, WriterDies
<1> QED
  BY <1>1, <1>2, <1>3, LogSteps

LEMMA FeedTypedStep ==
  ASSUME FeedTyped, LogWritten, CursorsKept, [FeedNext]_feedVars
  PROVE  FeedTyped'
<1>0. /\ MaxEvents \in Nat /\ MaxLogResets \in Nat
      /\ log \in Seq(Fragment) /\ writing \in 1..3 /\ events \in 0..MaxEvents
      /\ era \in 0..MaxLogResets
      /\ stage \in {"idle", "delivering", "saving"} /\ cursor \in Cursor /\ origin \in Nat
      /\ next \in [cursor : Cursor, origin : Nat] /\ batch \in Seq(Delivery)
      /\ delivered \in SUBSET Delivery
      /\ twice \in Nat /\ tears \in Nat /\ failures \in Nat /\ removed \in Nat
  BY FeedAssumption DEF FeedTyped, FeedTypeOK, Cursor
<1>1. /\ log' \in Seq(Fragment) /\ writing' \in 1..3 /\ events' \in 0..MaxEvents
      /\ era' \in 0..MaxLogResets /\ tears' \in Nat
  <2>1. CASE BeginEvent \/ WriteOn
    <3>1. log' \in Seq(Fragment) /\ writing' \in 1..3 /\ events' \in 1..MaxEvents
      BY <2>1, WritesAppend
    <3>2. UNCHANGED <<era, tears>>
      BY <2>1 DEF BeginEvent, WriteOn
    <3> QED
      BY <1>0, <3>1, <3>2
  <2>2. CASE ResetLog
    BY <1>0, <2>2 DEF ResetLog
  <2>3. CASE UNCHANGED <<log, events, era>> /\ (UNCHANGED writing \/ WriterDies)
    <3>1. tears' = tears \/ tears' = tears + 1
      BY <2>3 DEF WriterDies, FeedNext, feedVars, BeginEvent, WriteOn, ResetLog, Consume,
                  Deliver, SaveCursor, ConsumerDies, RemoveCursor, Writer
    <3> QED
      BY <1>0, <2>3, <3>1 DEF WriterDies
  <2> QED
    BY <2>1, <2>2, <2>3, LogSteps
<1>2. \A i \in DOMAIN log' : log'[i].event \in 1..MaxEvents /\ log'[i].part \in 1..3
  <2>1. log' \in [DOMAIN log' -> Fragment]
    BY <1>1, LenProperties
  <2> QED
    BY <2>1 DEF Fragment
<1>3. /\ stage' \in {"idle", "delivering", "saving"} /\ cursor' \in Cursor /\ origin' \in Nat
      /\ next' \in [cursor : Cursor, origin : Nat] /\ batch' \in Seq(Delivery)
      /\ delivered' \in SUBSET Delivery
      /\ twice' \in Nat /\ failures' \in Nat /\ removed' \in Nat
  <2>0. At0 \in Cursor /\ Torn \in Cursor
    BY DEF At0, Torn, Cursor
  <2>1. CASE BeginEvent \/ WriteOn \/ WriterDies \/ ResetLog \/ UNCHANGED feedVars
    BY <1>0, <2>1 DEF BeginEvent, WriteOn, WriterDies, ResetLog, Reader, feedVars
  <2>2. CASE Consume
    <3>1. EventsFrom(cursor) \in Seq(Delivery)
      BY <1>0, <2>2, EventsAre DEF Consume
    <3>2. LineNumber(cursor, Len(log)) \in Nat /\ Len(log) \in Nat
      BY <1>0, LineNumberIsNat, LogFacts
    <3>3. After(cursor) \in Cursor
      BY <3>2 DEF After, Cursor
    <3> QED
      BY <1>0, <2>2, <3>1, <3>3 DEF Consume
  <2>3. CASE Deliver
    <3>0. batch # <<>>
      BY <2>3 DEF Deliver, CursorsKept
    <3>1. Head(batch) \in Delivery /\ Tail(batch) \in Seq(Delivery)
      BY <1>0, <3>0, HeadTailProperties
    <3>2. [event |-> Head(batch).event, id |-> Head(batch).id] \in Delivery
      BY <3>1 DEF Delivery
    <3>3. /\ delivered' = delivered \cup {[event |-> Head(batch).event, id |-> Head(batch).id]}
          /\ batch' = Tail(batch) /\ twice' \in {twice, twice + 1}
          /\ stage' \in {"idle", "delivering", "saving"}
          /\ UNCHANGED <<cursor, origin, next, failures, removed>>
      BY <2>3 DEF Deliver
    <3> QED
      BY <1>0, <3>1, <3>2, <3>3
  <2>4. CASE SaveCursor
    BY <1>0, <2>4 DEF SaveCursor
  <2>5. CASE ConsumerDies
    BY <1>0, <2>0, <2>5 DEF ConsumerDies
  <2>6. CASE RemoveCursor
    BY <1>0, <2>0, <2>6 DEF RemoveCursor
  <2> QED
    BY <2>1, <2>2, <2>3, <2>4, <2>5, <2>6 DEF FeedNext
<1> QED
  BY <1>1, <1>2, <1>3 DEF FeedTyped, FeedTypeOK, Cursor

-----------------------------------------------------------------------------
(* The invariant's other parts, action by action. *)

Rest == CursorsKept /\ NothingLeft /\ Ahead /\ Numbered /\ Once

LEMMA NumberFacts ==
  ASSUME FeedTyped
  PROVE  /\ Len(log) \in Nat /\ events \in Nat /\ era \in Nat /\ origin \in Nat
         /\ next.origin \in Nat /\ cursor.offset \in Nat /\ next.cursor.offset \in Nat
         /\ Taken \in SUBSET Delivery /\ \A x \in Taken : x.event \in Nat
         /\ \A i \in 1..Len(log) : log[i].event \in Nat
<1>1. batch \in Seq(Delivery) /\ delivered \in SUBSET Delivery
  BY DEF FeedTyped
<1>2. \A k \in DOMAIN batch : batch[k] \in Delivery
  BY <1>1, LenProperties
<1>3. Taken \in SUBSET Delivery
  BY <1>1, <1>2 DEF Taken
<1>4. \A x \in Delivery : x.event \in Nat
  BY FeedAssumption DEF Delivery
<1>5. Len(log) \in Nat /\ \A i \in 1..Len(log) : log[i].event \in Nat
  <2>1. \A i \in 1..Len(log) : log[i].event \in 1..MaxEvents
    BY LogFacts
  <2> QED
    BY <2>1, LogFacts
<1>6. events \in Nat /\ era \in Nat
  BY FeedAssumption DEF FeedTyped, FeedTypeOK
<1>7. /\ origin \in Nat /\ next.origin \in Nat /\ next.cursor \in Cursor
      /\ cursor.offset \in Nat
  BY DEF FeedTyped, FeedTypeOK, Cursor
<1> QED
  BY <1>3, <1>4, <1>5, <1>6, <1>7 DEF Cursor

LEMMA RestWrites ==
  ASSUME FeedTyped, FeedTyped', LogWritten, Rest, BeginEvent \/ WriteOn
  PROVE  Rest'
<1> DEFINE n == Len(log)
<1>1. PICK f \in Fragment :
           /\ Len(log') = Len(log) + 1 /\ Len(log) \in Nat
           /\ \A k \in 1..Len(log) : log'[k] = log[k]
           /\ log'[Len(log) + 1] = f
           /\ f = [event |-> events', part |-> writing']
           /\ events <= events' /\ events' \in 1..MaxEvents
           /\ f.part = 1 => writing = 3 /\ events' = events + 1
  BY WritesAppend
<1>2. /\ UNCHANGED <<cursor, origin, stage, batch, next, delivered, twice, failures, removed>>
      /\ UNCHANGED era
  BY DEF BeginEvent, WriteOn, Reader
<1>3. Taken' = Taken
  BY <1>2 DEF Taken
<1>4. /\ n \in Nat /\ events \in Nat /\ cursor.offset \in Nat /\ next.cursor.offset \in Nat
      /\ events' \in Nat /\ f.event = events'
      /\ \A x \in Taken : x.event \in Nat /\ x.event <= events
  BY <1>1, NumberFacts, FeedAssumption DEF Rest, CursorsKept
<1>5. \A i \in 1..Len(log') : i \in 1..n \/ i = n + 1
  BY <1>1, <1>4
<1>6. \A x \in Taken : f.part = 1 => x.event < f.event
  BY <1>1, <1>4
<1>7. CursorsKept'
  BY <1>1, <1>2, <1>3, <1>4 DEF Rest, CursorsKept
<1>8. NothingLeft'
  <2>1. origin = era /\ cursor.whole => cursor.offset <= n
    BY DEF Rest, CursorsKept
  <2>2. next.origin = era => next.cursor.offset <= n
    BY DEF Rest, CursorsKept
  <2>3. NothingSkipped'
    <3> SUFFICES ASSUME cursor.whole, origin = era, NEW i \in 1..cursor.offset
                 PROVE  \E d \in delivered : d.event = log'[i].event
      BY <1>2 DEF NothingSkipped
    <3>1. i \in 1..n
      BY <1>4, <2>1
    <3> QED
      BY <1>1, <3>1 DEF Rest, NothingLeft, NothingSkipped
  <2>4. ASSUME stage # "idle", next.origin = era, NEW i \in 1..next.cursor.offset
        PROVE  \E x \in Taken : x.event = log'[i].event
    <3>1. i \in 1..n
      BY <1>4, <2>2, <2>4
    <3> QED
      BY <1>1, <2>4, <3>1 DEF Rest, NothingLeft
  <2> QED
    BY <1>2, <1>3, <2>3, <2>4 DEF NothingLeft
<1>9. Ahead'
  <2> SUFFICES ASSUME stage # "idle", NEW i \in 1..Len(log'), i > next.cursor.offset,
                      log'[i].part = 1, NEW x \in Taken
               PROVE  x.event < log'[i].event
    BY <1>2, <1>3 DEF Ahead
  <2>1. CASE i \in 1..n
    BY <1>1, <2>1 DEF Rest, Ahead
  <2>2. CASE i = n + 1
    BY <1>1, <1>6, <2>2
  <2> QED
    BY <1>5, <2>1, <2>2
<1>10. Numbered'
  <2> SUFFICES ASSUME removed = 0, cursor.whole, NEW x \in Taken, NEW i \in 1..Len(log'),
                      i > cursor.offset, log'[i] = [event |-> x.event, part |-> 1]
               PROVE  x.id = <<LineNumber(cursor, i)', x.event>>
    BY <1>2, <1>3 DEF Rest, Numbered, LineNumber, LineStarts
  <2>1. i \in 1..n
    <3>1. i = n + 1 => f.part = 1 /\ f.event = x.event
      BY <1>1
    <3> QED
      BY <1>4, <1>5, <1>6, <3>1
  <2>2. x.id = <<LineNumber(cursor, i), x.event>>
    BY <1>1, <2>1 DEF Rest, Numbered
  <2>3. n <= Len(log')
    BY <1>1
  <2>4. LineNumber(cursor, i)' = LineNumber(cursor, i)
    BY <1>1, <1>2, <2>1, <2>3, NumbersStay
  <2> QED
    BY <2>2, <2>4
<1>11. Once'
  <2> SUFFICES ASSUME failures + removed = 0, stage = "idle", NEW d \in delivered,
                      NEW i \in 1..Len(log'), i > cursor.offset, log'[i].part = 1
               PROVE  d.event # log'[i].event
    BY <1>2 DEF Rest, Once
  <2>1. CASE i \in 1..n
    BY <1>1, <2>1 DEF Rest, Once
  <2>2. CASE i = n + 1
    <3>1. d \in Taken /\ d.event < f.event /\ d.event \in Nat
      BY <1>1, <1>4, <1>6, <2>2 DEF Taken
    <3> QED
      BY <1>1, <1>4, <2>2, <3>1
  <2> QED
    BY <1>5, <2>1, <2>2
<1> QED
  BY <1>7, <1>8, <1>9, <1>10, <1>11 DEF Rest

LEMMA RestReset ==
  ASSUME FeedTyped, Rest, ResetLog
  PROVE  Rest'
<1>1. /\ UNCHANGED <<cursor, origin, stage, batch, next, delivered, twice, failures, removed>>
      /\ UNCHANGED events /\ era' = era + 1 /\ log' = <<>> /\ Len(log') = 0
  BY DEF ResetLog, Reader
<1>2. Taken' = Taken
  BY <1>1 DEF Taken
<1>3. /\ origin <= era' /\ next.origin <= era' /\ origin # era' /\ next.origin # era'
  BY <1>1, NumberFacts DEF Rest, CursorsKept
<1>4. CursorsKept'
  BY <1>1, <1>2, <1>3 DEF Rest, CursorsKept
<1>5. NothingLeft'
  BY <1>1, <1>3 DEF NothingLeft, NothingSkipped
<1>6. Ahead'
  BY <1>1 DEF Ahead
<1>7. Numbered'
  BY <1>1, <1>2 DEF Rest, Numbered
<1>8. Once'
  BY <1>1 DEF Rest, Once
<1> QED
  BY <1>4, <1>5, <1>6, <1>7, <1>8 DEF Rest

LEMMA RestWriterDies ==
  ASSUME Rest, WriterDies \/ UNCHANGED feedVars
  PROVE  Rest'
<1>1. UNCHANGED <<log, events, era, cursor, origin, stage, batch, next, delivered,
                  twice, failures, removed>>
  BY DEF WriterDies, Reader, feedVars
<1>2. Taken' = Taken
  BY <1>1 DEF Taken
<1>3. CursorsKept'
  BY <1>1, <1>2 DEF Rest, CursorsKept
<1>4. NothingLeft'
  BY <1>1, <1>2 DEF Rest, NothingLeft, NothingSkipped
<1>5. Ahead'
  BY <1>1, <1>2 DEF Rest, Ahead
<1>6. Numbered'
  BY <1>1, <1>2 DEF Rest, Numbered, LineNumber, LineStarts
<1>7. Once'
  BY <1>1 DEF Rest, Once
<1> QED
  BY <1>3, <1>4, <1>5, <1>6, <1>7 DEF Rest

LEMMA RestConsume ==
  ASSUME FeedTyped, LogWritten, Rest, Consume
  PROVE  Rest'
<1> DEFINE E == EventsFrom(cursor)  n == Len(log)
<1>1. /\ stage = "idle" /\ Readable(cursor) /\ batch' = E
      /\ next'.cursor = After(cursor)
      /\ next'.origin = IF cursor = At0 THEN era ELSE origin
      /\ stage' = IF batch' = <<>> THEN "saving" ELSE "delivering"
      /\ UNCHANGED <<log, events, era, cursor, origin, delivered, twice, failures, removed>>
  BY DEF Consume, logVars
<1>2. cursor \in Cursor /\ cursor.whole /\ cursor.offset <= n
  BY <1>1 DEF FeedTyped, FeedTypeOK, Readable, Cursor
<1>3. /\ E \in Seq(Delivery)
      /\ \A l \in Good(cursor) : \E k \in DOMAIN E : E[k] = EventAt(cursor, l)
      /\ \A k \in DOMAIN E : \E l \in Good(cursor) : E[k] = EventAt(cursor, l)
      /\ \A j, k \in DOMAIN E : E[j].event = E[k].event => j = k
  BY <1>1, <1>2, EventsAre
<1> HIDE DEF E
<1>4. Taken = delivered /\ Taken' = delivered \cup {E[k] : k \in DOMAIN E}
  BY <1>1 DEF Rest, CursorsKept, Taken
<1>5. /\ n \in Nat /\ events \in Nat /\ era \in Nat /\ origin \in Nat /\ cursor.offset \in Nat
      /\ \A x \in delivered : x.event \in Nat
      /\ \A i \in 1..n : log[i].event \in Nat
  BY <1>4, NumberFacts
<1>6. After(cursor).offset = n /\ After(cursor).whole
  BY DEF After
\* Where each event that is consumed lies in the log.
<1>7. ASSUME NEW k \in DOMAIN E
      PROVE  \E i \in 1..n : /\ i > cursor.offset
                             /\ log[i] = [event |-> E[k].event, part |-> 1]
                             /\ E[k].id = <<LineNumber(cursor, i), E[k].event>>
  <2>1. PICK l \in Good(cursor) : E[k] = EventAt(cursor, l)
    BY <1>3
  <2>2. /\ l.at \in 1..n /\ l.at > cursor.offset
        /\ log[l.at] = [event |-> EventAt(cursor, l).event, part |-> 1]
        /\ EventAt(cursor, l).id = <<LineNumber(cursor, l.at), EventAt(cursor, l).event>>
    BY <1>1, <1>2, GoodIs
  <2> QED
    BY <2>1, <2>2
<1>8. \A i, j \in 1..n : log[i].event = log[j].event /\ log[i].part = 1 /\ log[j].part = 1 => i = j
  <2> SUFFICES ASSUME NEW i \in 1..n, NEW j \in 1..n, log[j].part = 1, i < j
               PROVE  log[i].event < log[j].event
    BY <1>5
  <2>1. i \in 1..j - 1 /\ j \in DOMAIN log
    BY <1>5, LogFacts
  <2> QED
    BY <2>1 DEF LogWritten
<1>9. CursorsKept'
  <2>1. \A k \in DOMAIN E : E[k].event <= events
    <3> SUFFICES ASSUME NEW k \in DOMAIN E PROVE E[k].event <= events
      OBVIOUS
    <3>1. PICK i \in 1..n : log[i] = [event |-> E[k].event, part |-> 1]
      BY <1>7
    <3>2. log[i].event <= events
      BY LogFacts DEF LogWritten
    <3> QED
      BY <3>1, <3>2
  <2>2. \A x \in Taken' : x.event <= events'
    BY <1>1, <1>4, <2>1 DEF Rest, CursorsKept
  <2>3. next'.origin <= era' /\ origin' <= era'
    BY <1>1, <1>5 DEF Rest, CursorsKept
  <2>4. /\ next'.cursor.offset <= Len(log') /\ next'.cursor.whole
        /\ cursor'.whole /\ cursor'.offset <= Len(log')
    BY <1>1, <1>2, <1>5, <1>6
  <2>5. stage' # "delivering" <=> batch' = <<>>
    BY <1>1
  <2> QED
    BY <2>2, <2>3, <2>4, <2>5 DEF CursorsKept
<1>10. NothingLeft'
  <2>1. NothingSkipped'
    BY <1>1 DEF Rest, NothingLeft, NothingSkipped
  <2>2. ASSUME next'.origin = era, NEW i \in 1..n
        PROVE  \E x \in Taken' : x.event = log[i].event
    <3>1. cursor.offset = 0 \/ origin = era
      BY <1>1, <2>2 DEF At0
    <3>2. \A j \in 1..cursor.offset : \E x \in Taken' : x.event = log[j].event
      BY <1>2, <1>4, <3>1 DEF Rest, NothingLeft, NothingSkipped
    <3>3. CASE i \in 1..cursor.offset
      BY <3>2, <3>3
    <3>4. CASE i \in cursor.offset + 1..n
      <4>1. CASE \E l \in Good(cursor) : EventAt(cursor, l).event = log[i].event
        BY <1>3, <1>4, <4>1
      <4>2. CASE cursor.offset \in 1..n /\ log[cursor.offset].event = log[i].event
        <5>1. cursor.offset \in 1..cursor.offset
          BY <4>2
        <5> QED
          BY <3>2, <4>2, <5>1
      <4> QED
        BY <1>1, <1>2, <3>4, <4>1, <4>2, AllIsRead
    <3> QED
      BY <1>5, <3>3, <3>4
  <2> QED
    BY <1>1, <1>6, <2>1, <2>2 DEF NothingLeft
<1>11. Ahead'
  BY <1>1, <1>5, <1>6 DEF Ahead
<1>12. Numbered'
  <2> SUFFICES ASSUME removed = 0
               PROVE  /\ \A d, e \in Taken' : d.event = e.event => d.id = e.id
                      /\ \A x \in Taken', i \in 1..n :
                           i > cursor.offset /\ log[i] = [event |-> x.event, part |-> 1] =>
                             x.id = <<LineNumber(cursor, i), x.event>>
    BY <1>1 DEF Numbered, LineNumber, LineStarts
  <2>1. \A x \in delivered, i \in 1..n :
          i > cursor.offset /\ log[i] = [event |-> x.event, part |-> 1] =>
            x.id = <<LineNumber(cursor, i), x.event>>
    BY <1>2, <1>4 DEF Rest, Numbered
  <2>2. ASSUME NEW k \in DOMAIN E, NEW i \in 1..n, log[i] = [event |-> E[k].event, part |-> 1]
        PROVE  E[k].id = <<LineNumber(cursor, i), E[k].event>> /\ i > cursor.offset
    <3>1. PICK j \in 1..n : /\ j > cursor.offset
                            /\ log[j] = [event |-> E[k].event, part |-> 1]
                            /\ E[k].id = <<LineNumber(cursor, j), E[k].event>>
      BY <1>7
    <3>2. i = j
      BY <1>8, <2>2, <3>1
    <3> QED
      BY <3>1, <3>2
  <2>3. ASSUME NEW d \in delivered, NEW k \in DOMAIN E, d.event = E[k].event
        PROVE  d.id = E[k].id
    <3>1. PICK i \in 1..n : /\ i > cursor.offset
                            /\ log[i] = [event |-> E[k].event, part |-> 1]
                            /\ E[k].id = <<LineNumber(cursor, i), E[k].event>>
      BY <1>7
    <3> QED
      BY <2>1, <2>3, <3>1
  <2>4. \A d, e \in delivered : d.event = e.event => d.id = e.id
    BY <1>4 DEF Rest, Numbered
  <2>5. \A j, k \in DOMAIN E : E[j].event = E[k].event => E[j].id = E[k].id
    BY <1>3
  <2>6. \A d, e \in Taken' : d.event = e.event => d.id = e.id
    BY <1>4, <2>3, <2>4, <2>5
  <2>7. ASSUME NEW x \in Taken', NEW i \in 1..n, i > cursor.offset,
               log[i] = [event |-> x.event, part |-> 1]
        PROVE  x.id = <<LineNumber(cursor, i), x.event>>
    BY <1>4, <2>1, <2>2, <2>7
  <2> QED
    BY <2>6, <2>7
<1>13. Once'
  <2>1. ASSUME failures + removed = 0, NEW d \in delivered, NEW k \in DOMAIN E
        PROVE  d.event # E[k].event
    <3>1. PICK i \in 1..n : i > cursor.offset /\ log[i] = [event |-> E[k].event, part |-> 1]
      BY <1>7
    <3>2. d.event # log[i].event
      BY <1>1, <2>1, <3>1 DEF Rest, Once
    <3> QED
      BY <3>1, <3>2
  <2>2. failures + removed = 0 => twice = 0
    BY DEF Rest, Once
  <2>3. stage' # "idle"
    BY <1>1
  <2> QED
    BY <1>1, <1>3, <2>1, <2>2, <2>3 DEF Once
<1> QED
  BY <1>9, <1>10, <1>11, <1>12, <1>13 DEF Rest

LEMMA RestDeliver ==
  ASSUME FeedTyped, Rest, Deliver
  PROVE  Rest'
<1> DEFINE x == Head(batch)
<1>1. /\ stage = "delivering" /\ batch # <<>> /\ batch' = Tail(batch)
      /\ delivered' = delivered \cup {[event |-> x.event, id |-> x.id]}
      /\ twice' = IF \E d \in delivered : d.event = x.event THEN twice + 1 ELSE twice
      /\ stage' = IF batch' = <<>> THEN "saving" ELSE "delivering"
      /\ UNCHANGED <<log, events, era, cursor, origin, next, failures, removed>>
  BY DEF Deliver, Writer, logVars, Rest, CursorsKept
<1>2. batch \in Seq(Delivery) /\ Len(batch) \in Nat \ {0} /\ DOMAIN batch = 1..Len(batch)
  BY <1>1, LenProperties, EmptySeq DEF FeedTyped
<1>3. /\ x = batch[1] /\ 1 \in DOMAIN batch /\ x \in Delivery
      /\ Tail(batch) \in Seq(Delivery) /\ Len(Tail(batch)) = Len(batch) - 1
      /\ \A k \in 1..Len(batch) - 1 : Tail(batch)[k] = batch[k + 1]
  BY <1>1, <1>2, HeadTailProperties
<1>4. [event |-> x.event, id |-> x.id] = x
  BY <1>3 DEF Delivery
<1> HIDE DEF x
<1>5. DOMAIN batch' = 1..Len(batch) - 1
  BY <1>1, <1>3, LenProperties
<1>6. \A k \in DOMAIN batch' : k + 1 \in DOMAIN batch /\ batch'[k] = batch[k + 1] /\ k + 1 # 1
  BY <1>1, <1>2, <1>3, <1>5
<1>7. \A k \in DOMAIN batch : k = 1 \/ (k - 1 \in DOMAIN batch' /\ batch'[k - 1] = batch[k])
  <2> SUFFICES ASSUME NEW k \in DOMAIN batch, k # 1
               PROVE  k - 1 \in DOMAIN batch' /\ batch'[k - 1] = batch[k]
    OBVIOUS
  <2>1. k - 1 \in DOMAIN batch' /\ k - 1 + 1 = k
    BY <1>2, <1>5
  <2> QED
    BY <1>6, <2>1
<1>8. Taken' = Taken
  <2>1. \A y : (\E k \in DOMAIN batch : y = batch[k]) <=>
               (y = x \/ \E k \in DOMAIN batch' : y = batch'[k])
    BY <1>3, <1>6, <1>7
  <2>2. {batch[k] : k \in DOMAIN batch} = {x} \cup {batch'[k] : k \in DOMAIN batch'}
    BY <2>1
  <2>3. Taken' = delivered' \cup {batch'[k] : k \in DOMAIN batch'}
    BY DEF Taken
  <2>4. delivered' = delivered \cup {x}
    BY <1>1, <1>4
  <2> QED
    BY <2>2, <2>3, <2>4 DEF Taken
<1>9. CursorsKept'
  BY <1>1, <1>8 DEF Rest, CursorsKept
<1>10. NothingLeft'
  <2>1. NothingSkipped'
    BY <1>1 DEF Rest, NothingLeft, NothingSkipped
  <2> QED
    BY <1>1, <1>8, <2>1 DEF Rest, NothingLeft
<1>11. Ahead'
  BY <1>1, <1>8 DEF Rest, Ahead
<1>12. Numbered'
  <2>1. \A i \in 1..Len(log) : LineNumber(cursor, i)' = LineNumber(cursor, i)
    BY <1>1 DEF LineNumber, LineStarts
  <2> QED
    BY <1>1, <1>8, <2>1 DEF Rest, Numbered
<1>13. Once'
  <2>1. \A j, k \in DOMAIN batch : batch[j].event = batch[k].event => j = k
    BY DEF Rest, Once
  <2>2. \A k \in DOMAIN batch' : batch'[k].event # x.event
    BY <1>3, <1>6, <2>1
  <2>3. \A j, k \in DOMAIN batch' : batch'[j].event = batch'[k].event => j = k
    <3> SUFFICES ASSUME NEW j \in DOMAIN batch', NEW k \in DOMAIN batch',
                        batch'[j].event = batch'[k].event
                 PROVE  j = k
      OBVIOUS
    <3>1. j + 1 = k + 1 /\ j \in Nat /\ k \in Nat
      BY <1>2, <1>5, <1>6, <2>1
    <3> QED
      BY <3>1
  <2>4. ASSUME failures + removed = 0
        PROVE  twice' = 0 /\ \A d \in delivered', k \in DOMAIN batch' : d.event # batch'[k].event
    <3>1. twice = 0 /\ \A d \in delivered, k \in DOMAIN batch : d.event # batch[k].event
      BY <2>4 DEF Rest, Once
    <3>2. twice' = 0
      BY <1>1, <1>3, <3>1
    <3>3. \A d \in delivered, k \in DOMAIN batch' : d.event # batch'[k].event
      BY <1>6, <3>1
    <3> QED
      BY <1>1, <1>4, <2>2, <3>2, <3>3
  <2> QED
    BY <1>1, <2>3, <2>4 DEF Once
<1> QED
  BY <1>9, <1>10, <1>11, <1>12, <1>13 DEF Rest

LEMMA RestSave ==
  ASSUME FeedTyped, Rest, SaveCursor
  PROVE  Rest'
<1>1. /\ stage = "saving" /\ stage' = "idle" /\ cursor' = next.cursor /\ origin' = next.origin
      /\ UNCHANGED <<log, events, era, batch, next, delivered, twice, failures, removed>>
  BY DEF SaveCursor, Writer, logVars
<1>2. Taken' = Taken /\ batch = <<>> /\ Taken = delivered
  BY <1>1 DEF Taken, Rest, CursorsKept
<1>3. CursorsKept'
  BY <1>1, <1>2 DEF Rest, CursorsKept
<1>4. NothingLeft'
  BY <1>1, <1>2 DEF Rest, NothingLeft, NothingSkipped
<1>5. Ahead'
  BY <1>1 DEF Ahead
<1>6. \A x \in delivered, i \in 1..Len(log) :
        i > next.cursor.offset /\ log[i].part = 1 => x.event # log[i].event
  <2> SUFFICES ASSUME NEW x \in delivered, NEW i \in 1..Len(log), i > next.cursor.offset,
                      log[i].part = 1
               PROVE  x.event # log[i].event
    OBVIOUS
  <2>1. x.event < log[i].event
    BY <1>1, <1>2 DEF Rest, Ahead
  <2>2. x.event \in Nat /\ log[i].event \in Nat
    BY <1>2, NumberFacts
  <2> QED
    BY <2>1, <2>2
<1>7. Numbered'
  <2> SUFFICES ASSUME removed = 0, NEW x \in delivered, NEW i \in 1..Len(log),
                      i > next.cursor.offset, log[i] = [event |-> x.event, part |-> 1]
               PROVE  FALSE
    BY <1>1, <1>2 DEF Rest, Numbered
  <2> QED
    BY <1>6
<1>8. Once'
  BY <1>1, <1>6 DEF Rest, Once
<1> QED
  BY <1>3, <1>4, <1>5, <1>7, <1>8 DEF Rest

LEMMA RestDies ==
  ASSUME FeedTyped, Rest, ConsumerDies
  PROVE  Rest'
<1>1. /\ stage' = "idle" /\ batch' = <<>> /\ failures' = failures + 1
      /\ cursor' = cursor \/ cursor' = Torn
      /\ UNCHANGED <<log, events, era, origin, next, delivered, twice, removed>>
  BY DEF ConsumerDies, Writer, logVars
<1>2. /\ ~Torn.whole /\ DOMAIN batch' = {} /\ Taken' = delivered /\ delivered \subseteq Taken
      /\ failures' + removed' # 0
  <2>1. failures \in Nat /\ removed \in Nat
    BY DEF FeedTyped
  <2>2. failures' + removed' # 0
    BY <1>1, <2>1
  <2>3. ~Torn.whole
    BY DEF Torn, At0
  <2>4. DOMAIN batch' = {}
    BY <1>1
  <2> QED
    BY <1>1, <2>2, <2>3, <2>4 DEF Taken
<1>3. CursorsKept'
  BY <1>1, <1>2 DEF Rest, CursorsKept
<1>4. NothingLeft'
  BY <1>1, <1>2 DEF Rest, NothingLeft, NothingSkipped
<1>5. Ahead'
  BY <1>1 DEF Ahead
<1>6. Numbered'
  <2>1. cursor' = cursor => \A i \in 1..Len(log) :
          LineNumber(cursor, i)' = LineNumber(cursor, i)
    BY <1>1 DEF LineNumber, LineStarts
  <2> QED
    BY <1>1, <1>2, <2>1 DEF Rest, Numbered
<1>7. Once'
  BY <1>2 DEF Once
<1> QED
  BY <1>3, <1>4, <1>5, <1>6, <1>7 DEF Rest

LEMMA RestRemove ==
  ASSUME FeedTyped, Rest, RemoveCursor
  PROVE  Rest'
<1>1. /\ stage = "idle" /\ cursor' = At0 /\ origin' = era /\ removed' = removed + 1
      /\ UNCHANGED <<log, events, era, stage, batch, next, delivered, twice, failures>>
  BY DEF RemoveCursor, Writer, logVars
<1>2. /\ At0.whole /\ At0.offset = 0 /\ removed' # 0 /\ failures' + removed' # 0
  <2>1. failures \in Nat /\ removed \in Nat
    BY DEF FeedTyped
  <2> QED
    BY <1>1, <2>1 DEF At0
<1>3. Taken' = Taken
  BY <1>1 DEF Taken
<1>4. CursorsKept'
  BY <1>1, <1>2, <1>3, NumberFacts DEF Rest, CursorsKept
<1>5. NothingLeft'
  BY <1>1, <1>2 DEF Rest, NothingLeft, NothingSkipped
<1>6. Ahead'
  BY <1>1 DEF Ahead
<1>7. Numbered'
  BY <1>2 DEF Numbered
<1>8. Once'
  BY <1>1, <1>2 DEF Rest, Once
<1> QED
  BY <1>4, <1>5, <1>6, <1>7, <1>8 DEF Rest

LEMMA FeedInvStep == FeedInv /\ [FeedNext]_feedVars => FeedInv'
<1> SUFFICES ASSUME FeedInv, [FeedNext]_feedVars PROVE FeedInv'
  OBVIOUS
<1>1. FeedTyped /\ LogWritten /\ Rest /\ CursorsKept
  BY DEF FeedInv, Rest
<1>2. FeedTyped' /\ LogWritten'
  BY <1>1, FeedTypedStep, WrittenStep
<1>3. Rest'
  BY <1>1, <1>2, RestWrites, RestReset, RestWriterDies, RestConsume, RestDeliver, RestSave,
     RestDies, RestRemove DEF FeedNext
<1> QED
  BY <1>2, <1>3 DEF FeedInv, Rest

\* The promise of the feed follows.
LEMMA FeedPromise == FeedInv => DeliveryHolds
<1> SUFFICES ASSUME FeedInv PROVE DeliveryHolds
  OBVIOUS
<1>1. NothingSkipped
  BY DEF FeedInv, NothingLeft
<1>2. twice > 0 => failures + removed > 0
  <2>1. twice \in Nat /\ failures \in Nat /\ removed \in Nat
    BY DEF FeedInv, FeedTyped
  <2>2. failures + removed = 0 => twice = 0
    BY DEF FeedInv, Once
  <2> QED
    BY <2>1, <2>2
<1>3. removed = 0 => \A d, e \in delivered : d.event = e.event => d.id = e.id
  BY DEF FeedInv, Numbered, Taken
<1> QED
  BY <1>1, <1>2, <1>3 DEF DeliveryHolds, RepeatsAreRecognised

-----------------------------------------------------------------------------
(* Types.  BatchTypeOK leaves open what the proofs need of the sequences,   *)
(* the results and the histories, and why a job that runs has an input:     *)
(* its worker uploaded one before it submitted the job.                     *)

Results == {NoResult, Raised} \cup Failures \cup Values

Fed ==
  /\ \A s \in Suggestions : pc[s] = "submit" => input[IdOf[s]] \in Suggestions
  /\ \A n \in DOMAIN jobs :
       /\ input[IdOf[jobs[n].of]] \in Suggestions
       /\ jobs[n].state # "queued" => jobs[n].reads \in Suggestions

BatchTyped ==
  /\ BatchTypeOK /\ Fed
  /\ jobs \in Seq(Job)
  /\ waited \in Seq(0..MaxWait + 1) /\ Len(waited) = Len(jobs)
  /\ result \in [Suggestions -> Results]
  /\ returned \in [Suggestions -> SUBSET Results]
  /\ lost \in [Suggestions -> Nat]
  /\ used \in SUBSET Suggestions
  /\ \A s \in Suggestions : pc[s] \notin {"idle"} => s \in used
  /\ \A n \in DOMAIN jobs : jobs[n].of \in used

LEMMA IdOfType == IdOf \in [Suggestions -> Ids] /\ Ids \in SUBSET (Nat \ {0})
BY BatchAssumption DEF Ids

LEMMA NoRecordType ==
  ASSUME jobs \in Seq(Job)
  PROVE  NoRecord \in Record
BY DEF NoRecord, Record

LEMMA BatchTypedInit == BatchInit => BatchTyped
<1> SUFFICES ASSUME BatchInit PROVE BatchTyped
  OBVIOUS
<1>1. jobs \in Seq(Job) /\ Len(jobs) = 0 /\ waited \in Seq(0..MaxWait + 1) /\ Len(waited) = 0
      /\ DOMAIN jobs = {} /\ DOMAIN waited = {}
  BY DEF BatchInit
<1>2. NoRecord \in Record
  BY <1>1, NoRecordType
<1>3. course \in Courses /\ 0 \in 0..course.resets
  BY BatchAssumption DEF BatchInit
<1>4. Fed
  BY <1>1 DEF BatchInit, Fed
<1>5. BatchTypeOK
  BY <1>1, <1>2, <1>3 DEF BatchInit, BatchTypeOK
<1> QED
  BY <1>1, <1>4, <1>5 DEF BatchInit, BatchTyped, Results

\* Steps that leave the jobs alone: the records keep their type.
LEMMA CampaignTyped ==
  ASSUME BatchTyped,
         Reset \/ \E s \in Suggestions : Suggest(s) \/ StartWorker(s)
  PROVE  BatchTyped'
<1>1. UNCHANGED <<course, told, aws, record, mine, result, history, counters>>
  BY DEF Suggest, Reset, StartWorker, campaign
<1>2. Record' = Record
  BY <1>1 DEF Record, aws
<1>3. /\ current' \in [Ids -> Suggestions \cup {"none"}]
      /\ used' \in SUBSET Suggestions /\ used \subseteq used'
      /\ resets' \in 0..course.resets
  <2>1. CASE \E s \in Suggestions : Suggest(s)
    BY <2>1, IdOfType DEF BatchTyped, BatchTypeOK, Suggest
  <2>2. CASE Reset
    <3>1. course \in Courses /\ course.resets \in Nat
      BY BatchAssumption DEF BatchTyped, BatchTypeOK
    <3> QED
      BY <2>2, <3>1 DEF BatchTyped, BatchTypeOK, Reset
  <2>3. CASE \E s \in Suggestions : StartWorker(s)
    BY <2>3 DEF BatchTyped, BatchTypeOK, StartWorker, campaign
  <2> QED
    BY <2>1, <2>2, <2>3
<1>4. /\ pc' \in [Suggestions -> {"idle", "start", "upload", "submit", "save", "poll",
                                  "download", "report", "done", "dead"}]
      /\ \A q \in Suggestions : pc'[q] = "submit" => pc[q] = "submit"
      /\ \A q \in Suggestions : pc'[q] \notin {"idle"} => q \in used'
  BY <1>3 DEF BatchTyped, BatchTypeOK, Suggest, Reset, StartWorker, campaign
<1>5. Fed'
  BY <1>1, <1>4 DEF BatchTyped, Fed, aws
<1>6. BatchTypeOK'
  BY <1>1, <1>2, <1>3, <1>4 DEF BatchTyped, BatchTypeOK, aws, counters
<1> QED
  BY <1>1, <1>3, <1>4, <1>5, <1>6 DEF BatchTyped, aws, history, counters

LEMMA IngestTyped ==
  ASSUME BatchTyped, NEW s \in Suggestions, Ingest(s)
  PROVE  BatchTyped'
<1>1. UNCHANGED <<course, current, used, resets, aws, record, history, counters>>
  BY DEF Ingest
<1>2. Record' = Record
  BY <1>1 DEF Record, aws
<1>3. /\ told' \in [Suggestions -> Results] /\ result' \in [Suggestions -> Results]
      /\ mine' \in [Suggestions -> Record]
  BY NoRecordType DEF Ingest, BatchTyped, BatchTypeOK, Results
<1>4. /\ pc[s] = "report" /\ \E to \in {"done", "dead"} : pc' = [pc EXCEPT ![s] = to]
  BY DEF Ingest, At
<1>5. /\ pc' \in [Suggestions -> {"idle", "start", "upload", "submit", "save", "poll",
                                  "download", "report", "done", "dead"}]
      /\ \A q \in Suggestions : pc'[q] = "submit" => pc[q] = "submit"
      /\ \A q \in Suggestions : pc'[q] \notin {"idle"} => q \in used'
  BY <1>1, <1>4 DEF BatchTyped, BatchTypeOK
<1>6. Fed'
  BY <1>1, <1>5 DEF BatchTyped, Fed, aws
<1>7. BatchTypeOK'
  BY <1>1, <1>2, <1>3, <1>5 DEF BatchTyped, BatchTypeOK, aws, counters, Results
<1> QED
  BY <1>1, <1>3, <1>5, <1>6, <1>7 DEF BatchTyped, aws, history, counters

Places == {"idle", "start", "upload", "submit", "save", "poll",
           "download", "report", "done", "dead"}

\* A worker's step that submits nothing: records, results and histories have
\* their types, and S3 holds what it held or the worker's own input.
LEMMA WorkTyped ==
  ASSUME BatchTyped, NEW s \in Suggestions, s \in used, UNCHANGED campaign,
         UNCHANGED <<output, jobs>>,
         waited' \in Seq(0..MaxWait + 1), Len(waited') = Len(waited),
         record' \in [Ids -> Record], mine' \in [Suggestions -> Record],
         result' \in [Suggestions -> Results],
         returned' \in [Suggestions -> SUBSET Results],
         lost' \in [Suggestions -> Nat],
         NEW to \in Places, pc' = [pc EXCEPT ![s] = to],
         \/ to # "submit" /\ UNCHANGED input
         \/ input' = [input EXCEPT ![IdOf[s]] = s]
  PROVE  BatchTyped'
<1>1. UNCHANGED <<course, current, told, used, resets>> /\ Record' = Record
  BY DEF campaign, Record
<1>2. IdOf[s] \in Ids /\ input \in [Ids -> Suggestions \cup {"none"}]
  BY IdOfType DEF BatchTyped, BatchTypeOK
<1>3. /\ input' \in [Ids -> Suggestions \cup {"none"}]
      /\ \A i \in Ids : input[i] \in Suggestions => input'[i] \in Suggestions
      /\ to = "submit" => input'[IdOf[s]] \in Suggestions
  BY <1>2
<1>4. pc' \in [Suggestions -> Places] /\ \A q \in Suggestions : pc'[q] # pc[q] => q = s
  BY DEF BatchTyped, BatchTypeOK, Places
<1>5. \A q \in Suggestions : pc'[q] \notin {"idle"} => q \in used'
  BY <1>1, <1>4 DEF BatchTyped
<1>6. Fed'
  <2>1. \A q \in Suggestions : pc'[q] = "submit" => input'[IdOf[q]] \in Suggestions
    <3> SUFFICES ASSUME NEW q \in Suggestions, pc'[q] = "submit"
                 PROVE  input'[IdOf[q]] \in Suggestions
      OBVIOUS
    <3>1. CASE pc[q] = "submit"
      BY <1>3, <3>1, IdOfType DEF BatchTyped, Fed
    <3>2. CASE q = s
      BY <1>3, <3>2 DEF BatchTyped, BatchTypeOK
    <3> QED
      BY <1>4, <3>1, <3>2
  <2>2. \A n \in DOMAIN jobs : IdOf[jobs[n].of] \in Ids
    BY IdOfType DEF BatchTyped
  <2> QED
    BY <1>3, <2>1, <2>2 DEF BatchTyped, Fed
<1>7. waited' \in [DOMAIN jobs' -> 0..MaxWait + 1]
  <2>1. DOMAIN waited' = 1..Len(waited') /\ waited' \in [1..Len(waited') -> 0..MaxWait + 1]
    BY LenProperties
  <2>2. DOMAIN jobs = 1..Len(jobs)
    BY LenProperties DEF BatchTyped
  <2>3. DOMAIN waited' = DOMAIN jobs'
    BY <2>1, <2>2 DEF BatchTyped
  <2> QED
    BY <2>1, <2>3
<1>8. /\ course' \in Courses /\ current' \in [Ids -> Suggestions \cup {"none"}]
      /\ told' \in [Suggestions -> {NoResult, Raised} \cup Failures \cup Values]
      /\ record' \in [Ids -> Record'] /\ mine' \in [Suggestions -> Record']
      /\ output' \in [Ids -> {NoResult} \cup Values]
      /\ \A n \in DOMAIN jobs' : jobs'[n] \in Job
      /\ resets' \in 0..course'.resets
  BY <1>1 DEF BatchTyped, BatchTypeOK
<1>9. BatchTypeOK'
  BY <1>3, <1>4, <1>7, <1>8 DEF BatchTypeOK, Places
<1> QED
  BY <1>1, <1>5, <1>6, <1>9 DEF BatchTyped

LEMMA SaveTyped ==
  ASSUME BatchTyped, NEW s \in Suggestions, NEW r \in Record, Save(s, r)
  PROVE  record' \in [Ids -> Record] /\ mine' \in [Suggestions -> Record]
BY IdOfType DEF Save, BatchTyped, BatchTypeOK

LEMMA ReturnTyped ==
  ASSUME BatchTyped, NEW s \in Suggestions, NEW x \in Results, Return(s, x)
  PROVE  result' \in [Suggestions -> Results] /\ returned' \in [Suggestions -> SUBSET Results]
BY DEF Return, BatchTyped

LEMMA FinalizeTyped ==
  ASSUME BatchTyped, NEW s \in Suggestions, NEW x \in Failures \cup Values, Finalize(s, x)
  PROVE  /\ record' \in [Ids -> Record] /\ mine' \in [Suggestions -> Record]
         /\ result' \in [Suggestions -> Results]
         /\ returned' \in [Suggestions -> SUBSET Results]
<1> DEFINE st == IF x.status = "ok" THEN "succeeded" ELSE x.status
<1>1. mine[s] \in Record
  BY DEF BatchTyped, BatchTypeOK
<1>2. st \in {"succeeded", "failed", "killed", "timeout"}
  BY DEF Failures, Values
<1> HIDE DEF st
<1>3. [mine[s] EXCEPT !.status = st, !.result = x] \in Record
  BY <1>1, <1>2 DEF Record
<1>4. Save(s, [mine[s] EXCEPT !.status = st, !.result = x]) /\ Return(s, x) /\ x \in Results
  BY DEF Finalize, st, Results
<1> QED
  BY <1>3, <1>4, SaveTyped, ReturnTyped

\* One job more, queued for the input just uploaded.
LEMMA SubmissionTyped ==
  ASSUME BatchTyped, NEW s \in Suggestions, UNCHANGED <<campaign, input, output, record>>,
         pc[s] = "submit", Submitted(s),
         \/ UNCHANGED mine
         \/ mine' = [mine EXCEPT ![s] = [NoRecord EXCEPT !.job = Len(jobs) + 1]],
         result' \in [Suggestions -> Results],
         returned' \in [Suggestions -> SUBSET Results],
         lost' \in [Suggestions -> Nat],
         NEW to \in Places, to # "submit", pc' = [pc EXCEPT ![s] = to]
  PROVE  BatchTyped'
<1> DEFINE job == [of |-> s, reads |-> "none", state |-> "queued"]
<1>1. UNCHANGED <<course, current, told, used, resets>>
  BY DEF campaign
<1>2. jobs \in Seq(Job) /\ waited \in Seq(0..MaxWait + 1) /\ Len(waited) = Len(jobs)
      /\ MaxWait \in Nat /\ s \in used
  BY BatchAssumption DEF BatchTyped
<1>3. job \in Job /\ MaxWait + 1 \in 0..MaxWait + 1 /\ job.of = s /\ job.state = "queued"
  BY <1>2 DEF Job
<1>4. jobs' = Append(jobs, job) /\ waited' = Append(waited, MaxWait + 1)
  BY DEF Submitted
<1> HIDE DEF job
<1>5. /\ jobs' \in Seq(Job) /\ Len(jobs') = Len(jobs) + 1
      /\ DOMAIN jobs = 1..Len(jobs) /\ DOMAIN jobs' = 1..Len(jobs')
      /\ \A n \in 1..Len(jobs) : jobs'[n] = jobs[n]
      /\ jobs'[Len(jobs) + 1] = job /\ Len(jobs) \in Nat
  BY <1>2, <1>3, <1>4, AppendProperties, LenProperties
<1>6. /\ waited' \in Seq(0..MaxWait + 1) /\ Len(waited') = Len(jobs')
      /\ waited' \in [1..Len(jobs') -> 0..MaxWait + 1]
  <2>1. waited' \in Seq(0..MaxWait + 1) /\ Len(waited') = Len(jobs')
    BY <1>2, <1>3, <1>4, <1>5, AppendProperties
  <2> QED
    BY <2>1, LenProperties
<1>7. \A n \in DOMAIN jobs' : (n \in DOMAIN jobs /\ jobs'[n] = jobs[n]) \/ jobs'[n] = job
  BY <1>5
<1>8. Record \subseteq Record'
  BY <1>5 DEF Record
<1>9. mine' \in [Suggestions -> Record'] /\ record' \in [Ids -> Record']
  <2>1. mine \in [Suggestions -> Record'] /\ record' \in [Ids -> Record']
    BY <1>8 DEF BatchTyped, BatchTypeOK
  <2>2. [NoRecord EXCEPT !.job = Len(jobs) + 1] \in Record'
    BY <1>5 DEF NoRecord, Record
  <2> QED
    BY <2>1, <2>2
<1>10. pc' \in [Suggestions -> Places] /\ \A q \in Suggestions : pc'[q] # pc[q] => q = s
  BY DEF BatchTyped, BatchTypeOK, Places
<1>11. input[IdOf[s]] \in Suggestions
  BY DEF BatchTyped, Fed
<1>12. Fed'
  <2>1. \A q \in Suggestions : pc'[q] = "submit" => input'[IdOf[q]] \in Suggestions
    BY <1>10 DEF BatchTyped, BatchTypeOK, Fed
  <2>2. \A n \in DOMAIN jobs' : /\ input'[IdOf[jobs'[n].of]] \in Suggestions
                                /\ jobs'[n].state # "queued" => jobs'[n].reads \in Suggestions
    BY <1>3, <1>7, <1>11 DEF BatchTyped, Fed
  <2> QED
    BY <2>1, <2>2 DEF Fed
<1>13. \A q \in Suggestions : pc'[q] \notin {"idle"} => q \in used'
  BY <1>1, <1>2, <1>10 DEF BatchTyped
<1>14. \A n \in DOMAIN jobs' : jobs'[n] \in Job /\ jobs'[n].of \in used'
  BY <1>1, <1>2, <1>3, <1>7 DEF BatchTyped, BatchTypeOK
<1>15. /\ course' \in Courses /\ current' \in [Ids -> Suggestions \cup {"none"}]
       /\ told' \in [Suggestions -> {NoResult, Raised} \cup Failures \cup Values]
       /\ input' \in [Ids -> Suggestions \cup {"none"}]
       /\ output' \in [Ids -> {NoResult} \cup Values]
       /\ resets' \in 0..course'.resets
  BY <1>1 DEF BatchTyped, BatchTypeOK
<1>16. waited' \in [DOMAIN jobs' -> 0..MaxWait + 1]
  BY <1>5, <1>6
<1>17. BatchTypeOK'
  BY <1>9, <1>10, <1>14, <1>15, <1>16 DEF BatchTypeOK, Places
<1>18. used' \in SUBSET Suggestions
  BY <1>1 DEF BatchTyped
<1> QED
  BY <1>5, <1>6, <1>12, <1>13, <1>14, <1>17, <1>18 DEF BatchTyped

LEMMA EvaluateTyped ==
  ASSUME BatchTyped, NEW s \in Suggestions,
         Evaluate(s) \/ PollAgain(s) \/ AwsFails(s) \/ WorkerDies(s)
  PROVE  BatchTyped'
<1>1. /\ result \in [Suggestions -> Results] /\ returned \in [Suggestions -> SUBSET Results]
      /\ lost \in [Suggestions -> Nat] /\ mine \in [Suggestions -> Record]
      /\ record \in [Ids -> Record] /\ waited \in Seq(0..MaxWait + 1)
      /\ IdOf[s] \in Ids /\ (pc[s] # "idle" => s \in used)
  BY IdOfType DEF BatchTyped, BatchTypeOK
<1>2. CASE LoadRecord(s)
  <2> DEFINE r == record[IdOf[s]]
  <2>1. r \in Record
    BY <1>1
  <2>2. mine' \in [Suggestions -> Record]
    BY <1>1, <1>2, <2>1 DEF LoadRecord
  <2>3. result' \in [Suggestions -> Results] /\ returned' \in [Suggestions -> SUBSET Results]
    <3>1. r.result \in Results
      BY <2>1 DEF Record, Results
    <3> QED
      BY <1>1, <1>2, <3>1, ReturnTyped DEF LoadRecord, Keep
  <2>4. \E to \in Places : to # "submit" /\ pc' = [pc EXCEPT ![s] = to]
    BY <1>2 DEF LoadRecord, At, Resumes, Places
  <2> QED
    BY <1>1, <1>2, <2>2, <2>3, <2>4, WorkTyped DEF LoadRecord, aws, Ours, campaign, At
<1>3. CASE UploadInput(s)
  <2>1. pc' = [pc EXCEPT ![s] = "submit"] /\ "submit" \in Places /\ s \in used
    BY <1>1, <1>3 DEF UploadInput, At, Places
  <2> QED
    BY <1>1, <1>3, <2>1, WorkTyped DEF UploadInput, Keep, Ours, campaign
<1>4. CASE SubmitJob(s)
  <2>1. pc' = [pc EXCEPT ![s] = "save"] /\ "save" \in Places /\ pc[s] = "submit"
    BY <1>4 DEF SubmitJob, At, Places
  <2> QED
    BY <1>1, <1>4, <2>1, SubmissionTyped DEF SubmitJob, Keep, Ours
<1>5. CASE SaveRecord(s)
  <2> DEFINE r == [mine[s] EXCEPT !.status = "submitted"]
  <2>1. r \in Record
    BY <1>1 DEF Record
  <2>2. record' \in [Ids -> Record] /\ mine' \in [Suggestions -> Record]
    BY <1>5, <2>1, SaveTyped DEF SaveRecord
  <2>3. pc' = [pc EXCEPT ![s] = "poll"] /\ "poll" \in Places /\ pc[s] = "save"
    BY <1>5 DEF SaveRecord, At, Places
  <2>4. waited' \in Seq(0..MaxWait + 1) /\ Len(waited') = Len(waited)
    <3>1. waited' = [waited EXCEPT ![mine[s].job] = 0] /\ 0 \in 0..MaxWait + 1
      BY <1>5, BatchAssumption DEF SaveRecord
    <3>2. waited \in [1..Len(waited) -> 0..MaxWait + 1] /\ Len(waited) \in Nat
      BY <1>1, LenProperties
    <3>3. waited' \in [1..Len(waited) -> 0..MaxWait + 1]
      BY <3>1, <3>2
    <3> QED
      BY <3>2, <3>3, FunctionIsSeq
  <2> QED
    BY <1>1, <1>5, <2>2, <2>3, <2>4, WorkTyped DEF SaveRecord, Keep, Ours, aws
<1>6. CASE PollTimesOut(s)
  <2>1. [status |-> "timeout", of |-> "none"] \in Failures
    BY DEF Failures
  <2>2. pc' = [pc EXCEPT ![s] = "report"] /\ "report" \in Places /\ pc[s] = "poll"
    BY <1>6 DEF PollTimesOut, At, Places
  <2>3. PICK x \in Failures \cup Values : Finalize(s, x)
    BY <1>6, <2>1 DEF PollTimesOut
  <2> QED
    BY <1>1, <1>6, <2>2, <2>3, FinalizeTyped, WorkTyped DEF PollTimesOut, Ours, aws
<1>7. CASE PollFindsEnd(s)
  <2>1. CASE /\ At(s, "poll", "download")
             /\ Save(s, [mine[s] EXCEPT !.status = "succeeded"]) /\ Keep
    <3>1. [mine[s] EXCEPT !.status = "succeeded"] \in Record
      BY <1>1 DEF Record
    <3>2. record' \in [Ids -> Record] /\ mine' \in [Suggestions -> Record]
      BY <2>1, <3>1, SaveTyped
    <3>3. pc' = [pc EXCEPT ![s] = "download"] /\ "download" \in Places /\ pc[s] = "poll"
      BY <2>1 DEF At, Places
    <3> QED
      BY <1>1, <1>7, <2>1, <3>2, <3>3, WorkTyped DEF PollFindsEnd, Keep, Ours, aws
  <2>2. CASE /\ At(s, "poll", "report")
             /\ \E st \in {"failed", "killed"} : Finalize(s, [status |-> st, of |-> "none"])
    <3>1. \A st \in {"failed", "killed"} : [status |-> st, of |-> "none"] \in Failures
      BY DEF Failures
    <3>2. PICK x \in Failures \cup Values : Finalize(s, x)
      BY <2>2, <3>1
    <3>3. pc' = [pc EXCEPT ![s] = "report"] /\ "report" \in Places /\ pc[s] = "poll"
      BY <2>2 DEF At, Places
    <3> QED
      BY <1>1, <1>7, <3>2, <3>3, FinalizeTyped, WorkTyped DEF PollFindsEnd, Ours, aws
  <2> QED
    BY <1>7, <2>1, <2>2 DEF PollFindsEnd
<1>8. CASE PollAgain(s)
  <2>1. [mine[s] EXCEPT !.status = "running"] \in Record
    BY <1>1 DEF Record
  <2>2. record' \in [Ids -> Record] /\ mine' \in [Suggestions -> Record]
    BY <1>8, <2>1, SaveTyped DEF PollAgain
  <2>3. pc' = [pc EXCEPT ![s] = "poll"] /\ "poll" \in Places /\ pc[s] = "poll"
    BY <1>8 DEF PollAgain, Places, BatchTyped, BatchTypeOK
  <2> QED
    BY <1>1, <1>8, <2>2, <2>3, WorkTyped DEF PollAgain, Keep, Ours, aws
<1>9. CASE Download(s)
  <2>1. output[IdOf[s]] # NoResult => output[IdOf[s]] \in Values
    BY <1>1 DEF BatchTyped, BatchTypeOK
  <2>2. [status |-> "failed", of |-> "none"] \in Failures
    BY DEF Failures
  <2>3. PICK x \in Failures \cup Values : Finalize(s, x)
    BY <1>9, <2>1, <2>2 DEF Download
  <2>4. pc' = [pc EXCEPT ![s] = "report"] /\ "report" \in Places /\ pc[s] = "download"
    BY <1>9 DEF Download, At, Places
  <2> QED
    BY <1>1, <1>9, <2>3, <2>4, FinalizeTyped, WorkTyped DEF Download, aws
<1>10. CASE AwsFails(s)
  <2>1. pc' = [pc EXCEPT ![s] = "report"] /\ "report" \in Places /\ pc[s] # "idle"
    BY <1>10 DEF AwsFails, At, Places
  <2>2. result' \in [Suggestions -> Results]
    BY <1>1, <1>10 DEF AwsFails, Results
  <2>3. CASE UNCHANGED <<jobs, waited, lost>>
    BY <1>1, <1>10, <2>1, <2>2, <2>3, WorkTyped DEF AwsFails
  <2>4. CASE /\ pc[s] = "submit" /\ Submitted(s)
             /\ lost' = [lost EXCEPT ![s] = @ + 1]
    <3>1. lost' \in [Suggestions -> Nat]
      BY <1>1, <2>4
    <3> QED
      BY <1>1, <1>10, <2>1, <2>2, <2>4, <3>1, SubmissionTyped DEF AwsFails
  <2> QED
    BY <1>10, <2>3, <2>4 DEF AwsFails
<1>11. CASE WorkerDies(s)
  <2>1. pc' = [pc EXCEPT ![s] = "dead"] /\ "dead" \in Places /\ pc[s] # "idle"
    BY <1>11 DEF WorkerDies, Places
  <2>2. result' \in [Suggestions -> Results] /\ lost' \in [Suggestions -> Nat]
    BY <1>1, <1>11 DEF WorkerDies, Results
  <2>3. mine' \in [Suggestions -> Record]
    BY <1>1, <1>11, NoRecordType DEF WorkerDies, BatchTyped
  <2> QED
    BY <1>1, <1>11, <2>1, <2>2, <2>3, WorkTyped DEF WorkerDies, aws
<1> QED
  BY <1>2, <1>3, <1>4, <1>5, <1>6, <1>7, <1>8, <1>9, <1>10, <1>11, IngestTyped DEF Evaluate

\* Batch starts and ends jobs: one job changes, and only its state and input.
LEMMA JobTyped ==
  ASSUME BatchTyped, NEW n \in DOMAIN jobs, JobStarts(n) \/ JobEnds(n)
  PROVE  /\ BatchTyped'
         /\ Len(jobs') = Len(jobs) /\ DOMAIN jobs' = DOMAIN jobs
         /\ \A k \in DOMAIN jobs : jobs'[k].of = jobs[k].of
<1>1. /\ jobs \in [1..Len(jobs) -> Job] /\ Len(jobs) \in Nat /\ DOMAIN jobs = 1..Len(jobs)
      /\ jobs[n] \in Job
  BY LenProperties DEF BatchTyped
<1>2. UNCHANGED <<campaign, input, record, pc, mine, result, history, counters>>
  BY DEF JobStarts, JobEnds
<1>3. PICK job \in Job : /\ jobs' = [jobs EXCEPT ![n] = job] /\ job.of = jobs[n].of
                         /\ job.state # "queued" => job.reads \in Suggestions
  <2>1. CASE JobStarts(n)
    <3> DEFINE fed == input[IdOf[jobs[n].of]]
               job == [jobs[n] EXCEPT !.state = "running", !.reads = fed]
    <3>1. fed \in Suggestions
      BY DEF BatchTyped, Fed
    <3>2. jobs' = [jobs EXCEPT ![n] = job]
      BY <2>1 DEF JobStarts
    <3> HIDE DEF fed
    <3>3. job \in Job /\ job.of = jobs[n].of /\ job.reads = fed
      BY <1>1, <3>1 DEF Job
    <3> HIDE DEF job
    <3> QED
      BY <3>1, <3>2, <3>3
  <2>2. CASE JobEnds(n)
    <3>1. PICK how \in {"succeeded", "failed"} : jobs' = [jobs EXCEPT ![n].state = how]
      BY <2>2 DEF JobEnds
    <3> DEFINE job == [of |-> jobs[n].of, reads |-> jobs[n].reads, state |-> how]
    <3>2. jobs[n].reads \in Suggestions
      BY <2>2 DEF JobEnds, BatchTyped, Fed
    <3>3. job \in Job
      BY <1>1, <3>2 DEF Job
    <3>4. [jobs[n] EXCEPT !.state = how] = job
      BY <1>1 DEF Job
    <3> QED
      BY <3>1, <3>2, <3>3, <3>4
  <2> QED
    BY <2>1, <2>2
<1>4. /\ jobs' \in [1..Len(jobs) -> Job]
      /\ \A k \in DOMAIN jobs : jobs'[k].of = jobs[k].of
      /\ \A k \in DOMAIN jobs : k = n \/ jobs'[k] = jobs[k]
      /\ jobs'[n] = job
  BY <1>1, <1>3
<1>5. jobs' \in Seq(Job) /\ Len(jobs') = Len(jobs) /\ DOMAIN jobs' = DOMAIN jobs
  BY <1>1, <1>4, FunctionIsSeq
<1>6. Record' = Record
  BY <1>5 DEF Record
<1>7. output' \in [Ids -> {NoResult} \cup Values]
  <2>1. CASE output' = output
    BY <2>1 DEF BatchTyped, BatchTypeOK
  <2>2. CASE /\ JobEnds(n)
             /\ output' = [output EXCEPT ![IdOf[jobs[n].of]] =
                             [status |-> "ok", of |-> jobs[n].reads]]
    <3>1. jobs[n].reads \in Suggestions
      BY <2>2 DEF JobEnds, BatchTyped, Fed
    <3>2. [status |-> "ok", of |-> jobs[n].reads] \in Values
      BY <3>1 DEF Values
    <3> QED
      BY <2>2, <3>2 DEF BatchTyped, BatchTypeOK
  <2> QED
    BY <2>1, <2>2 DEF JobStarts, JobEnds
<1>8. Fed'
  BY <1>2, <1>3, <1>4, <1>5 DEF BatchTyped, Fed
<1>9. waited' \in [DOMAIN jobs' -> 0..MaxWait + 1] /\ UNCHANGED waited
  BY <1>2, <1>5 DEF BatchTyped, BatchTypeOK, counters
<1>10. \A k \in DOMAIN jobs' : jobs'[k] \in Job
  BY <1>1, <1>4, <1>5
<1>11. BatchTypeOK'
  BY <1>2, <1>6, <1>7, <1>9, <1>10 DEF BatchTyped, BatchTypeOK, campaign
<1> QED
  BY <1>2, <1>4, <1>5, <1>8, <1>9, <1>11 DEF BatchTyped, campaign, history

LEMMA TickTyped ==
  ASSUME BatchTyped, Tick
  PROVE  BatchTyped'
<1>1. UNCHANGED <<campaign, aws, record, pc, mine, result, history, faults, deaths>>
  BY DEF Tick
<1>2. waited \in [1..Len(waited) -> 0..MaxWait + 1] /\ Len(waited) \in Nat /\ MaxWait \in Nat
  BY LenProperties, BatchAssumption DEF BatchTyped
<1>3. waited' \in [1..Len(waited) -> 0..MaxWait + 1]
  BY <1>2 DEF Tick
<1>4. waited' \in Seq(0..MaxWait + 1) /\ Len(waited') = Len(waited)
  BY <1>2, <1>3, FunctionIsSeq
<1>5. DOMAIN jobs = 1..Len(jobs)
  BY LenProperties DEF BatchTyped
<1>6. Record' = Record /\ Fed'
  BY <1>1 DEF Record, aws, BatchTyped, Fed
<1>7. waited' \in [DOMAIN jobs' -> 0..MaxWait + 1]
  BY <1>1, <1>3, <1>5 DEF aws, BatchTyped
<1>8. BatchTypeOK'
  BY <1>1, <1>6, <1>7 DEF BatchTyped, BatchTypeOK, campaign, aws
<1> QED
  BY <1>1, <1>4, <1>6, <1>8 DEF BatchTyped, campaign, aws, history

LEMMA BatchTypedStep == BatchTyped /\ [BatchNext]_batchVars => BatchTyped'
<1> SUFFICES ASSUME BatchTyped, [BatchNext]_batchVars PROVE BatchTyped'
  OBVIOUS
<1>1. CASE UNCHANGED batchVars
  <2>1. Record' = Record
    BY <1>1 DEF batchVars, Record
  <2> QED
    BY <1>1, <2>1 DEF batchVars, BatchTyped, BatchTypeOK, Fed
<1>2. CASE Reset
  BY <1>2, CampaignTyped
<1>3. CASE \E s \in Suggestions : Suggest(s) \/ StartWorker(s)
  BY <1>3, CampaignTyped
<1>4. CASE \E s \in Suggestions : Evaluate(s) \/ PollAgain(s) \/ AwsFails(s) \/ WorkerDies(s)
  BY <1>4, EvaluateTyped
<1>5. CASE \E n \in DOMAIN jobs : JobStarts(n) \/ JobEnds(n)
  BY <1>5, JobTyped
<1>6. CASE Tick
  BY <1>6, TickTyped
<1> QED
  BY <1>1, <1>2, <1>3, <1>4, <1>5, <1>6 DEF BatchNext

-----------------------------------------------------------------------------
(* Jobs.  That a suggestion has at most one job more than it lost is not    *)
(* inductive: the record has to say so, or the worker to be about to save   *)
(* it, and a worker that is about to submit has found no record.            *)

JobsOf(s) == {n \in DOMAIN jobs : jobs[n].of = s}

Known(s) == pc[s] = "save" \/ record[IdOf[s]].status # "none"

Counted == \A s \in Suggestions :
  /\ IsFiniteSet(JobsOf(s)) /\ Cardinality(JobsOf(s)) <= 1 + lost[s]
  /\ Cardinality(JobsOf(s)) <= lost[s] \/ Known(s)
  /\ pc[s] \in {"upload", "submit"} => Cardinality(JobsOf(s)) <= lost[s]

LEMMA CountedInit == BatchInit => Counted
<1> SUFFICES ASSUME BatchInit, NEW s \in Suggestions
             PROVE  /\ IsFiniteSet(JobsOf(s)) /\ Cardinality(JobsOf(s)) <= 1 + lost[s]
                    /\ Cardinality(JobsOf(s)) <= lost[s]
  BY DEF Counted
<1>1. JobsOf(s) = {} /\ lost[s] = 0
  BY DEF BatchInit, JobsOf
<1> QED
  BY <1>1, FS_EmptySet

\* Records never lose the status they have been given.
LEMMA StatusStays ==
  ASSUME BatchTyped, [BatchNext]_batchVars, NEW i \in Ids, record[i].status # "none"
  PROVE  record'[i].status # "none"
<1>1. record \in [Ids -> Record] /\ mine \in [Suggestions -> Record]
  BY DEF BatchTyped, BatchTypeOK
<1>2. ASSUME NEW s \in Suggestions, NEW r, Save(s, r), r.status # "none"
      PROVE  record'[i].status # "none"
  BY <1>1, <1>2 DEF Save
<1>3. ASSUME NEW s \in Suggestions, NEW st, st # "none",
             Save(s, [mine[s] EXCEPT !.status = st])
      PROVE  record'[i].status # "none"
  BY <1>1, <1>2, <1>3 DEF Record
<1>4. ASSUME NEW s \in Suggestions, NEW x \in Failures \cup Values, Finalize(s, x)
      PROVE  record'[i].status # "none"
  <2> DEFINE st == IF x.status = "ok" THEN "succeeded" ELSE x.status
  <2>1. st # "none"
    BY DEF Failures, Values
  <2> HIDE DEF st
  <2>2. [mine[s] EXCEPT !.status = st, !.result = x].status = st
    BY <1>1 DEF Record
  <2>3. Save(s, [mine[s] EXCEPT !.status = st, !.result = x])
    BY <1>4 DEF Finalize, st
  <2> QED
    BY <1>2, <2>1, <2>2, <2>3
<1>5. ASSUME NEW s \in Suggestions, PollTimesOut(s) \/ PollFindsEnd(s) \/ Download(s)
      PROVE  record'[i].status # "none"
  <2>1. /\ \A st \in {"timeout", "failed", "killed"} : [status |-> st, of |-> "none"] \in Failures
        /\ output[IdOf[s]] # NoResult => output[IdOf[s]] \in Values
    BY IdOfType DEF Failures, BatchTyped, BatchTypeOK
  <2>2. \/ \E x \in Failures \cup Values : Finalize(s, x)
        \/ Save(s, [mine[s] EXCEPT !.status = "succeeded"])
    BY <1>5, <2>1 DEF PollTimesOut, PollFindsEnd, Download
  <2> QED
    BY <1>3, <1>4, <2>2
<1>6. ASSUME NEW s \in Suggestions, SaveRecord(s) \/ PollAgain(s)
      PROVE  record'[i].status # "none"
  <2>1. \E st \in {"submitted", "running"} : Save(s, [mine[s] EXCEPT !.status = st])
    BY <1>6 DEF SaveRecord, PollAgain
  <2> QED
    BY <1>3, <2>1
<1>7. ASSUME UNCHANGED record PROVE record'[i].status # "none"
  BY <1>7
<1>8. ASSUME NEW s \in Suggestions,
             \/ Suggest(s) \/ StartWorker(s) \/ LoadRecord(s) \/ UploadInput(s)
             \/ SubmitJob(s) \/ Ingest(s) \/ AwsFails(s) \/ WorkerDies(s)
      PROVE  UNCHANGED record
  BY <1>8 DEF Suggest, StartWorker, LoadRecord, UploadInput, SubmitJob, Ingest, AwsFails,
              WorkerDies
<1>9. ASSUME \/ Reset \/ Tick \/ UNCHANGED batchVars
             \/ \E n \in DOMAIN jobs : JobStarts(n) \/ JobEnds(n)
      PROVE  UNCHANGED record
  BY <1>9 DEF Reset, Tick, batchVars, JobStarts, JobEnds
<1> QED
  BY <1>5, <1>6, <1>7, <1>8, <1>9 DEF BatchNext, Evaluate

\* Steps that submit nothing.
LEMMA CountedKept ==
  ASSUME BatchTyped, Counted, NEW s \in Suggestions,
         JobsOf(s)' = JobsOf(s), lost'[s] = lost[s],
         record[IdOf[s]].status # "none" => record'[IdOf[s]].status # "none",
         \/ pc'[s] = pc[s]
         \/ pc[s] # "save" /\ pc'[s] \notin {"upload", "submit"}
         \/ pc[s] = "upload" /\ pc'[s] = "submit"
         \/ pc[s] = "start" /\ record[IdOf[s]].status = "none"
         \/ pc[s] = "save" /\ record'[IdOf[s]].status # "none"
              /\ pc'[s] \notin {"upload", "submit"}
  PROVE  /\ IsFiniteSet(JobsOf(s))' /\ Cardinality(JobsOf(s)') <= 1 + lost'[s]
         /\ Cardinality(JobsOf(s)') <= lost'[s] \/ Known(s)'
         /\ pc'[s] \in {"upload", "submit"} => Cardinality(JobsOf(s)') <= lost'[s]
<1> DEFINE N == JobsOf(s)
<1>1. /\ IsFiniteSet(N) /\ Cardinality(N) <= 1 + lost[s]
      /\ Cardinality(N) <= lost[s] \/ Known(s)
      /\ pc[s] \in {"upload", "submit"} => Cardinality(N) <= lost[s]
  BY DEF Counted
<1>2. N' = N
  OBVIOUS
<1> HIDE DEF N
<1> QED
  BY <1>1, <1>2 DEF Known, N

LEMMA SubmittedJobs ==
  ASSUME BatchTyped, NEW q \in Suggestions, Submitted(q)
  PROVE  /\ JobsOf(q)' = JobsOf(q) \cup {Len(jobs) + 1} /\ Len(jobs) + 1 \notin JobsOf(q)
         /\ \A s \in Suggestions \ {q} : JobsOf(s)' = JobsOf(s)
<1> DEFINE job == [of |-> q, reads |-> "none", state |-> "queued"]
<1>1. jobs \in Seq(Job) /\ job \in Job /\ job.of = q
  BY DEF BatchTyped, Job
<1>2. jobs' = Append(jobs, job)
  BY DEF Submitted
<1> HIDE DEF job
<1>3. /\ Len(jobs') = Len(jobs) + 1 /\ Len(jobs) \in Nat
      /\ DOMAIN jobs = 1..Len(jobs) /\ DOMAIN jobs' = 1..Len(jobs')
      /\ \A n \in 1..Len(jobs) : jobs'[n] = jobs[n]
      /\ jobs'[Len(jobs) + 1] = job
  BY <1>1, <1>2, AppendProperties, LenProperties
<1>4. DOMAIN jobs' = DOMAIN jobs \cup {Len(jobs) + 1} /\ Len(jobs) + 1 \notin DOMAIN jobs
  BY <1>3
<1> QED
  BY <1>1, <1>3, <1>4 DEF JobsOf

\* What a worker's step does to its own jobs and to those of the others.
LEMMA OthersJobs ==
  ASSUME BatchTyped, NEW q \in Suggestions,
         \/ Suggest(q) \/ StartWorker(q) \/ Evaluate(q) \/ PollAgain(q)
         \/ AwsFails(q) \/ WorkerDies(q)
  PROVE  /\ \A s \in Suggestions \ {q} :
              JobsOf(s)' = JobsOf(s) /\ lost'[s] = lost[s] /\ pc'[s] = pc[s]
         /\ \/ JobsOf(q)' = JobsOf(q)
            \/ pc[q] = "submit" /\ Submitted(q)
<1>1. pc \in [Suggestions -> Places] /\ lost \in [Suggestions -> Nat]
  BY DEF BatchTyped, BatchTypeOK, Places
<1>2. \E to : pc' = [pc EXCEPT ![q] = to]
  BY <1>1 DEF Suggest, StartWorker, Evaluate, LoadRecord, UploadInput, SubmitJob, SaveRecord,
              PollTimesOut, PollFindsEnd, Download, Ingest, PollAgain, AwsFails, WorkerDies, At
<1>3. lost' = lost \/ lost' = [lost EXCEPT ![q] = @ + 1]
  BY DEF Suggest, StartWorker, Evaluate, LoadRecord, UploadInput, SubmitJob, SaveRecord,
         PollTimesOut, PollFindsEnd, Download, Ingest, PollAgain, AwsFails, WorkerDies,
         Ours, history
<1>4. UNCHANGED jobs \/ (pc[q] = "submit" /\ Submitted(q))
  BY DEF Suggest, StartWorker, Evaluate, LoadRecord, UploadInput, SubmitJob, SaveRecord,
         PollTimesOut, PollFindsEnd, Download, Ingest, PollAgain, AwsFails, WorkerDies,
         aws, At
<1>5. UNCHANGED jobs => \A s \in Suggestions : JobsOf(s)' = JobsOf(s)
  BY DEF JobsOf
<1> QED
  BY <1>1, <1>2, <1>3, <1>4, <1>5, SubmittedJobs

LEMMA CountedStep == BatchTyped /\ Counted /\ [BatchNext]_batchVars => Counted'
<1> SUFFICES ASSUME BatchTyped, Counted, [BatchNext]_batchVars, NEW s \in Suggestions
             PROVE  /\ IsFiniteSet(JobsOf(s))' /\ Cardinality(JobsOf(s)') <= 1 + lost'[s]
                    /\ Cardinality(JobsOf(s)') <= lost'[s] \/ Known(s)'
                    /\ pc'[s] \in {"upload", "submit"} => Cardinality(JobsOf(s)') <= lost'[s]
  BY DEF Counted
<1> DEFINE N == JobsOf(s)
<1>1. /\ record[IdOf[s]].status # "none" => record'[IdOf[s]].status # "none"
      /\ record \in [Ids -> Record] /\ mine \in [Suggestions -> Record] /\ IdOf[s] \in Ids
      /\ pc \in [Suggestions -> Places] /\ lost \in [Suggestions -> Nat]
  BY IdOfType, StatusStays DEF BatchTyped, BatchTypeOK, Places
<1>2. /\ IsFiniteSet(N) /\ Cardinality(N) \in Nat /\ Cardinality(N) <= 1 + lost[s]
      /\ Cardinality(N) <= lost[s] \/ Known(s)
      /\ pc[s] \in {"upload", "submit"} => Cardinality(N) <= lost[s]
  BY FS_CardinalityType DEF Counted
<1>3. ASSUME JobsOf(s)' = JobsOf(s), lost'[s] = lost[s], pc'[s] = pc[s]
      PROVE  /\ IsFiniteSet(N)' /\ Cardinality(N') <= 1 + lost'[s]
             /\ Cardinality(N') <= lost'[s] \/ Known(s)'
             /\ pc'[s] \in {"upload", "submit"} => Cardinality(N') <= lost'[s]
  BY <1>1, <1>3, CountedKept
<1>4. CASE UNCHANGED batchVars \/ Reset \/ Tick
  BY <1>3, <1>4 DEF batchVars, Reset, Tick, aws, history, JobsOf
<1>5. CASE \E n \in DOMAIN jobs : JobStarts(n) \/ JobEnds(n)
  <2>1. lost' = lost /\ pc' = pc
    BY <1>5 DEF JobStarts, JobEnds, history
  <2>2. JobsOf(s)' = JobsOf(s)
    BY <1>5, JobTyped DEF JobsOf
  <2> QED
    BY <1>3, <2>1, <2>2
<1>6. ASSUME NEW q \in Suggestions, q # s,
             \/ Suggest(q) \/ StartWorker(q) \/ Evaluate(q) \/ PollAgain(q)
             \/ AwsFails(q) \/ WorkerDies(q)
      PROVE  JobsOf(s)' = JobsOf(s) /\ lost'[s] = lost[s] /\ pc'[s] = pc[s]
  BY <1>6, OthersJobs
<1>7. CASE Suggest(s) \/ PollAgain(s)
  BY <1>3, <1>7 DEF Suggest, PollAgain, aws, history, Ours, JobsOf
<1>8. ASSUME JobsOf(s)' = JobsOf(s), lost'[s] = lost[s], pc[s] # "save",
             pc'[s] \notin {"upload", "submit"}
      PROVE  /\ IsFiniteSet(N)' /\ Cardinality(N') <= 1 + lost'[s]
             /\ Cardinality(N') <= lost'[s] \/ Known(s)'
             /\ pc'[s] \in {"upload", "submit"} => Cardinality(N') <= lost'[s]
  BY <1>1, <1>8, CountedKept
<1>9. CASE StartWorker(s) \/ PollTimesOut(s) \/ PollFindsEnd(s) \/ Download(s) \/ Ingest(s)
  <2>1. pc[s] # "save" /\ pc'[s] \notin {"upload", "submit"}
    BY <1>1, <1>9 DEF StartWorker, PollTimesOut, PollFindsEnd, Download, Ingest, At
  <2>2. UNCHANGED <<jobs, lost>>
    BY <1>9 DEF StartWorker, PollTimesOut, PollFindsEnd, Download, Ingest, aws, history, Ours
  <2> QED
    BY <1>8, <2>1, <2>2 DEF JobsOf
<1>10. CASE LoadRecord(s)
  <2>1. UNCHANGED <<jobs, lost>> /\ pc[s] = "start"
    BY <1>10 DEF LoadRecord, aws, Ours, At
  <2>2. pc'[s] \in {"upload", "submit"} => record[IdOf[s]].status = "none"
    BY <1>1, <1>10 DEF LoadRecord, Resumes, At
  <2>3. pc'[s] \in Places
    BY <1>1, <1>10 DEF LoadRecord, Resumes, At, Places
  <2> QED
    BY <1>1, <2>1, <2>2, CountedKept DEF JobsOf
<1>11. CASE UploadInput(s)
  <2>1. UNCHANGED <<jobs, lost>> /\ pc[s] = "upload" /\ pc'[s] = "submit"
    BY <1>1, <1>11 DEF UploadInput, Ours, At
  <2> QED
    BY <1>1, <2>1, CountedKept DEF JobsOf
<1>12. ASSUME Submitted(s), pc[s] = "submit"
       PROVE  IsFiniteSet(N') /\ Cardinality(N') \in Nat /\ Cardinality(N') <= 1 + lost[s]
  <2>1. N' = N \cup {Len(jobs) + 1} /\ Len(jobs) + 1 \notin N
    BY <1>12, SubmittedJobs
  <2>2. IsFiniteSet(N') /\ Cardinality(N') = Cardinality(N) + 1
    BY <1>2, <2>1, FS_AddElement
  <2> QED
    BY <1>1, <1>2, <1>12, <2>2
<1>13. CASE SubmitJob(s)
  <2>1. pc[s] = "submit" /\ pc'[s] = "save" /\ Submitted(s) /\ lost' = lost
    BY <1>1, <1>13 DEF SubmitJob, Ours, At
  <2> QED
    BY <1>12, <2>1 DEF Known
<1>14. CASE SaveRecord(s)
  <2>1. UNCHANGED <<jobs, lost>> /\ pc[s] = "save" /\ pc'[s] = "poll"
    BY <1>1, <1>14 DEF SaveRecord, aws, Ours, At
  <2>2. record'[IdOf[s]].status # "none"
    <3>1. [mine[s] EXCEPT !.status = "submitted"].status = "submitted"
      BY <1>1 DEF Record
    <3> QED
      BY <1>1, <1>14, <3>1 DEF SaveRecord, Save
  <2> QED
    BY <1>1, <2>1, <2>2, CountedKept DEF JobsOf
<1>15. CASE AwsFails(s)
  <2>1. pc[s] # "save" /\ pc'[s] = "report"
    BY <1>1, <1>15 DEF AwsFails, At
  <2>2. CASE UNCHANGED <<jobs, lost>>
    BY <1>8, <2>1, <2>2 DEF JobsOf
  <2>3. CASE /\ pc[s] = "submit" /\ Submitted(s)
             /\ lost' = [lost EXCEPT ![s] = @ + 1]
    <3>1. lost'[s] = lost[s] + 1 /\ lost[s] \in Nat
      BY <1>1, <2>3
    <3> QED
      BY <1>12, <2>1, <2>3, <3>1
  <2> QED
    BY <1>15, <2>2, <2>3 DEF AwsFails
<1>16. CASE WorkerDies(s)
  <2>1. UNCHANGED <<jobs, record>> /\ pc'[s] = "dead"
    BY <1>1, <1>16 DEF WorkerDies, aws
  <2>2. N' = N
    BY <2>1 DEF JobsOf
  <2>3. CASE pc[s] = "save"
    <3>1. lost'[s] = lost[s] + 1 /\ lost[s] \in Nat
      BY <1>1, <1>16, <2>3 DEF WorkerDies
    <3> QED
      BY <1>2, <2>1, <2>2, <3>1
  <2>4. CASE pc[s] # "save"
    <3>1. lost' = lost
      BY <1>16, <2>4 DEF WorkerDies
    <3> QED
      BY <1>8, <2>1, <2>2, <2>4, <3>1
  <2> QED
    BY <2>3, <2>4
<1>17. CASE \E q \in Suggestions : q # s /\
              (\/ Suggest(q) \/ StartWorker(q) \/ Evaluate(q) \/ PollAgain(q)
               \/ AwsFails(q) \/ WorkerDies(q))
  BY <1>3, <1>6, <1>17
<1> QED
  BY <1>4, <1>5, <1>7, <1>9, <1>10, <1>11, <1>13, <1>14, <1>15, <1>16, <1>17
     DEF BatchNext, Evaluate

-----------------------------------------------------------------------------
(* Results.  Stands says of one suggestion, as long as nobody shares its    *)
(* id, where its result may be: in the record, in the worker's hands, in S3 *)
(* and with the campaign, and that a record with a result is left alone.    *)

Mine(s) ==
  /\ pc[s] = "submit" => input[IdOf[s]] = s
  /\ \A n \in DOMAIN jobs : jobs[n].of = s =>
       /\ input[IdOf[s]] = s
       /\ jobs[n].state # "queued" => jobs[n].reads = s
  /\ output[IdOf[s]] # NoResult => output[IdOf[s]].of = s

Stands(s) ==
  LET kept == record[IdOf[s]].result IN
  /\ returned[s] \subseteq {kept} /\ NoResult \notin returned[s]
  /\ kept \in Values => kept.of = s
  /\ told[s] \in {NoResult, Raised, kept}
  /\ kept # NoResult => pc[s] \in {"idle", "start", "report", "done", "dead"}
  /\ pc[s] = "report" => result[s] \in {Raised, kept}
  /\ pc[s] \in {"save", "poll", "download"} => mine[s].result = NoResult
  /\ Mine(s)

Standing == \A s \in Suggestions : ~Shared(s) => Stands(s)

LEMMA StandingInit == BatchInit => Standing
<1> SUFFICES ASSUME BatchInit, NEW s \in Suggestions PROVE Stands(s)
  BY DEF Standing
<1>1. IdOf[s] \in Ids
  BY IdOfType
<1>2. NoResult \notin Values
  BY DEF NoResult, Values
<1>3. DOMAIN jobs = {}
  BY DEF BatchInit
<1>4. Mine(s)
  BY <1>1, <1>3 DEF BatchInit, Mine
<1> QED
  BY <1>1, <1>2, <1>4 DEF BatchInit, Stands, NoRecord

\* All that Stands looks at, the jobs apart.
Sight(s) == <<returned[s], record[IdOf[s]], told[s], pc[s], result[s], mine[s],
              input[IdOf[s]], output[IdOf[s]]>>

LEMMA StandsUnseen ==
  ASSUME NEW s \in Suggestions, Stands(s), UNCHANGED Sight(s),
         \A n \in DOMAIN jobs' : jobs'[n].of = s => n \in DOMAIN jobs /\ jobs'[n] = jobs[n]
  PROVE  Stands(s)'
BY DEF Sight, Stands, Mine

\* One suggestion's steps are out of sight of another that has its own id.
LEMMA OthersUnseen ==
  ASSUME BatchTyped, NEW q \in Suggestions, NEW s \in Suggestions, s # q,
         \/ Suggest(q) \/ StartWorker(q)
         \/ /\ Evaluate(q) \/ PollAgain(q) \/ AwsFails(q) \/ WorkerDies(q)
            /\ IdOf[q] # IdOf[s]
  PROVE  /\ UNCHANGED Sight(s)
         /\ \A n \in DOMAIN jobs' : jobs'[n].of = s => n \in DOMAIN jobs /\ jobs'[n] = jobs[n]
<1>1. /\ pc \in [Suggestions -> Places] /\ record \in [Ids -> Record]
      /\ mine \in [Suggestions -> Record] /\ result \in [Suggestions -> Results]
      /\ returned \in [Suggestions -> SUBSET Results]
      /\ told \in [Suggestions -> {NoResult, Raised} \cup Failures \cup Values]
      /\ input \in [Ids -> Suggestions \cup {"none"}]
      /\ IdOf[s] \in Ids /\ IdOf[q] \in Ids
  BY IdOfType DEF BatchTyped, BatchTypeOK, Places
<1>2. CASE Suggest(q) \/ StartWorker(q)
  BY <1>1, <1>2 DEF Suggest, StartWorker, campaign, aws, history, Sight
<1>3. CASE /\ Evaluate(q) \/ PollAgain(q) \/ AwsFails(q) \/ WorkerDies(q)
           /\ IdOf[q] # IdOf[s]
  <2>1. \A r : Save(q, r) => record'[IdOf[s]] = record[IdOf[s]] /\ mine'[s] = mine[s]
    BY <1>1, <1>3 DEF Save
  <2>2. \A x : Return(q, x) => result'[s] = result[s] /\ returned'[s] = returned[s]
    BY <1>1 DEF Return
  <2>3. \A x : Finalize(q, x) => /\ record'[IdOf[s]] = record[IdOf[s]] /\ mine'[s] = mine[s]
                                 /\ result'[s] = result[s] /\ returned'[s] = returned[s]
    BY <2>1, <2>2 DEF Finalize
  <2>4. record'[IdOf[s]] = record[IdOf[s]] /\ mine'[s] = mine[s]
    BY <1>1, <1>3, <2>1, <2>3 DEF Evaluate, LoadRecord, UploadInput, SubmitJob, SaveRecord,
       PollTimesOut, PollFindsEnd, Download, Ingest, PollAgain, AwsFails, WorkerDies
  <2>5. result'[s] = result[s] /\ returned'[s] = returned[s]
    BY <1>1, <1>3, <2>2, <2>3 DEF Evaluate, LoadRecord, UploadInput, SubmitJob, SaveRecord,
       PollTimesOut, PollFindsEnd, Download, Ingest, PollAgain, AwsFails, WorkerDies,
       Keep, history
  <2>6. told'[s] = told[s] /\ pc'[s] = pc[s]
    BY <1>1, <1>3, OthersJobs DEF Evaluate, LoadRecord, UploadInput, SubmitJob, SaveRecord,
       PollTimesOut, PollFindsEnd, Download, Ingest, PollAgain, AwsFails, WorkerDies,
       campaign, Ours
  <2>7. input'[IdOf[s]] = input[IdOf[s]] /\ output' = output
    BY <1>1, <1>3 DEF Evaluate, LoadRecord, UploadInput, SubmitJob, SaveRecord,
       PollTimesOut, PollFindsEnd, Download, Ingest, PollAgain, AwsFails, WorkerDies, aws
  <2>8. ASSUME Submitted(q), NEW n \in DOMAIN jobs', jobs'[n].of = s
        PROVE  n \in DOMAIN jobs /\ jobs'[n] = jobs[n]
    <3> DEFINE job == [of |-> q, reads |-> "none", state |-> "queued"]
    <3>1. jobs \in Seq(Job) /\ job \in Job /\ job.of = q /\ jobs' = Append(jobs, job)
      BY <2>8 DEF BatchTyped, Job, Submitted
    <3> HIDE DEF job
    <3>2. /\ DOMAIN jobs = 1..Len(jobs) /\ DOMAIN jobs' = 1..Len(jobs) + 1
          /\ \A k \in 1..Len(jobs) : jobs'[k] = jobs[k]
          /\ jobs'[Len(jobs) + 1] = job /\ Len(jobs) \in Nat
      BY <3>1, AppendProperties, LenProperties
    <3>3. n # Len(jobs) + 1
      BY <2>8, <3>1, <3>2
    <3> QED
      BY <3>2, <3>3
  <2>9. UNCHANGED jobs \/ Submitted(q)
    BY <1>3 DEF Evaluate, LoadRecord, UploadInput, SubmitJob, SaveRecord,
       PollTimesOut, PollFindsEnd, Download, Ingest, PollAgain, AwsFails, WorkerDies, aws
  <2> QED
    BY <2>4, <2>5, <2>6, <2>7, <2>8, <2>9 DEF Sight
<1> QED
  BY <1>2, <1>3

LEMMA StandsJobs ==
  ASSUME BatchTyped, NEW s \in Suggestions, ~Shared(s), Stands(s),
         NEW n \in DOMAIN jobs, JobStarts(n) \/ JobEnds(n)
  PROVE  Stands(s)'
<1>1. UNCHANGED <<campaign, input, record, pc, mine, result, history, counters>>
  BY DEF JobStarts, JobEnds
<1>2. /\ Len(jobs') = Len(jobs) /\ DOMAIN jobs' = DOMAIN jobs
      /\ \A k \in DOMAIN jobs : jobs'[k].of = jobs[k].of
      /\ jobs \in [1..Len(jobs) -> Job] /\ DOMAIN jobs = 1..Len(jobs)
  BY JobTyped, LenProperties DEF BatchTyped
<1>3. \A k \in DOMAIN jobs : k # n => jobs'[k] = jobs[k]
  BY <1>2 DEF JobStarts, JobEnds
<1>4. jobs[n].of \in used /\ jobs[n] \in Job /\ IdOf[jobs[n].of] \in Ids
  BY <1>2, IdOfType DEF BatchTyped
<1>5. jobs[n].of # s => IdOf[jobs[n].of] # IdOf[s]
  BY <1>4 DEF Shared
<1>6. jobs[n].of = s => (jobs'[n].state # "queued" => jobs'[n].reads = s)
  <2> SUFFICES ASSUME jobs[n].of = s PROVE jobs'[n].reads = s
    OBVIOUS
  <2>1. CASE JobStarts(n)
    <3>1. input[IdOf[jobs[n].of]] = s
      BY DEF Stands, Mine
    <3> QED
      BY <1>2, <1>4, <2>1, <3>1 DEF JobStarts, Job
  <2>2. CASE JobEnds(n)
    <3>1. jobs[n].reads = s
      BY <2>2 DEF JobEnds, Stands, Mine
    <3> QED
      BY <1>2, <1>4, <2>2, <3>1 DEF JobEnds, Job
  <2> QED
    BY <2>1, <2>2
<1>7. output'[IdOf[s]] # NoResult => output'[IdOf[s]].of = s
  <2>1. CASE output'[IdOf[s]] = output[IdOf[s]]
    BY <2>1 DEF Stands, Mine
  <2>2. CASE output'[IdOf[s]] # output[IdOf[s]]
    <3>0. /\ JobEnds(n)
          /\ output' = [output EXCEPT ![IdOf[jobs[n].of]] =
                         [status |-> "ok", of |-> jobs[n].reads]]
      BY <2>2 DEF JobStarts, JobEnds
    <3>3. output \in [Ids -> {NoResult} \cup Values] /\ IdOf[s] \in Ids
      BY IdOfType DEF BatchTyped, BatchTypeOK
    <3>4. IdOf[jobs[n].of] = IdOf[s]
      BY <2>2, <3>0, <3>3
    <3>1. /\ JobEnds(n) /\ jobs[n].of = s
          /\ output' = [output EXCEPT ![IdOf[s]] = [status |-> "ok", of |-> jobs[n].reads]]
      BY <1>5, <3>0, <3>4
    <3>2. jobs[n].reads = s
      BY <3>1 DEF JobEnds, Stands, Mine
    <3> QED
      BY <3>1, <3>2, <3>3
  <2> QED
    BY <2>1, <2>2
<1>8. Mine(s)'
  BY <1>1, <1>2, <1>3, <1>6, <1>7 DEF Stands, Mine
<1> QED
  BY <1>1, <1>8 DEF Stands, campaign, history

\* What Save, Return and Finalize leave of the suggestion's own data.
LEMMA SaveKeeps ==
  ASSUME BatchTyped, NEW s \in Suggestions, NEW st, Save(s, [mine[s] EXCEPT !.status = st])
  PROVE  /\ record'[IdOf[s]].result = mine[s].result
         /\ mine'[s].result = mine[s].result
<1>1. record \in [Ids -> Record] /\ mine \in [Suggestions -> Record] /\ IdOf[s] \in Ids
  BY IdOfType DEF BatchTyped, BatchTypeOK
<1>2. [mine[s] EXCEPT !.status = st].result = mine[s].result
  BY <1>1 DEF Record
<1> HIDE DEF Record
<1> QED
  BY <1>1, <1>2 DEF Save

LEMMA FinalizeKeeps ==
  ASSUME BatchTyped, NEW s \in Suggestions, NEW x, Finalize(s, x)
  PROVE  /\ record'[IdOf[s]].result = x /\ result'[s] = x
         /\ returned'[s] = returned[s] \cup {x}
<1> DEFINE st == IF x.status = "ok" THEN "succeeded" ELSE x.status
<1>1. /\ record \in [Ids -> Record] /\ mine \in [Suggestions -> Record] /\ IdOf[s] \in Ids
      /\ result \in [Suggestions -> Results] /\ returned \in [Suggestions -> SUBSET Results]
  BY IdOfType DEF BatchTyped, BatchTypeOK
<1>2. Save(s, [mine[s] EXCEPT !.status = st, !.result = x]) /\ Return(s, x)
  BY DEF Finalize
<1> HIDE DEF st
<1>3. [mine[s] EXCEPT !.status = st, !.result = x].result = x
  BY <1>1 DEF Record
<1> QED
  BY <1>1, <1>2, <1>3 DEF Save, Return

\* A result goes into the record once.
LEMMA StandsFinal ==
  ASSUME BatchTyped, NEW s \in Suggestions, Stands(s), NEW x \in Failures \cup Values,
         Finalize(s, x), x \in Values => x.of = s,
         pc[s] \in {"poll", "download"}, pc' = [pc EXCEPT ![s] = "report"],
         UNCHANGED <<told, aws>>
  PROVE  Stands(s)'
<1>1. /\ record'[IdOf[s]].result = x /\ result'[s] = x
      /\ returned'[s] = returned[s] \cup {x}
  BY FinalizeKeeps
<1>2. record[IdOf[s]].result = NoResult /\ returned[s] = {}
  BY DEF Stands
<1>3. x # NoResult /\ pc'[s] = "report"
  BY DEF Failures, Values, NoResult, BatchTyped, BatchTypeOK
<1>4. Mine(s)'
  BY <1>3 DEF aws, Stands, Mine
<1> QED
  BY <1>1, <1>2, <1>3, <1>4 DEF Stands

LEMMA StandsOwn ==
  ASSUME BatchTyped, NEW s \in Suggestions, Stands(s),
         \/ Suggest(s) \/ StartWorker(s) \/ Evaluate(s) \/ PollAgain(s)
         \/ AwsFails(s) \/ WorkerDies(s)
  PROVE  Stands(s)'
<1>1. /\ pc \in [Suggestions -> Places] /\ record \in [Ids -> Record]
      /\ mine \in [Suggestions -> Record] /\ result \in [Suggestions -> Results]
      /\ returned \in [Suggestions -> SUBSET Results]
      /\ told \in [Suggestions -> {NoResult, Raised} \cup Failures \cup Values]
      /\ input \in [Ids -> Suggestions \cup {"none"}]
      /\ output \in [Ids -> {NoResult} \cup Values]
      /\ IdOf[s] \in Ids
  BY IdOfType DEF BatchTyped, BatchTypeOK, Places
<1>2. CASE Suggest(s) \/ StartWorker(s)
  <2>1. /\ UNCHANGED <<aws, told, record, mine, result, returned>>
        /\ pc'[s] = pc[s] \/ pc'[s] = "start"
    BY <1>1, <1>2 DEF Suggest, StartWorker, campaign, history
  <2>2. pc'[s] # pc[s] => pc[s] \in {"idle", "dead"}
    BY <1>2 DEF Suggest, StartWorker
  <2>3. Mine(s)'
    BY <2>1 DEF aws, Stands, Mine
  <2> QED
    BY <2>1, <2>2, <2>3 DEF Stands
<1>3. CASE LoadRecord(s)
  <2> DEFINE r == record[IdOf[s]]
  <2>1. /\ UNCHANGED <<aws, told, record>> /\ pc[s] = "start" /\ pc'[s] = Resumes(r)
        /\ mine'[s] = r
    BY <1>1, <1>3 DEF LoadRecord, Ours, campaign, At
  <2>2. Mine(s)'
    BY <2>1 DEF aws, Stands, Mine, Resumes
  <2>3. CASE r.result # NoResult
    <3>1. pc'[s] = "report" /\ result'[s] = r.result
          /\ returned'[s] = returned[s] \cup {r.result}
      BY <1>1, <1>3, <2>1, <2>3 DEF LoadRecord, Return, Resumes
    <3> QED
      BY <2>1, <2>2, <2>3, <3>1 DEF Stands
  <2>4. CASE r.result = NoResult
    <3>1. pc'[s] \in {"upload", "download", "poll"} /\ UNCHANGED <<result, returned>>
      BY <1>3, <2>1, <2>4 DEF LoadRecord, Resumes, Keep
    <3> QED
      BY <2>1, <2>2, <2>4, <3>1 DEF Stands
  <2> QED
    BY <2>3, <2>4
<1>4. CASE UploadInput(s)
  <2>1. /\ UNCHANGED <<output, jobs, told, record, mine, result, returned>>
        /\ pc[s] = "upload" /\ pc'[s] = "submit" /\ input'[IdOf[s]] = s
    BY <1>1, <1>4 DEF UploadInput, Ours, campaign, At, Keep
  <2>2. Mine(s)'
    BY <2>1 DEF Stands, Mine
  <2> QED
    BY <2>1, <2>2 DEF Stands
<1>5. ASSUME pc[s] = "submit", Submitted(s), UNCHANGED <<input, output>>, pc'[s] # "submit"
      PROVE  Mine(s)'
  <2> DEFINE job == [of |-> s, reads |-> "none", state |-> "queued"]
  <2>1. jobs \in Seq(Job) /\ job \in Job /\ job.state = "queued" /\ jobs' = Append(jobs, job)
    BY <1>5 DEF BatchTyped, Job, Submitted
  <2> HIDE DEF job
  <2>2. /\ DOMAIN jobs = 1..Len(jobs) /\ DOMAIN jobs' = 1..Len(jobs) + 1
        /\ \A k \in 1..Len(jobs) : jobs'[k] = jobs[k]
        /\ jobs'[Len(jobs) + 1] = job /\ Len(jobs) \in Nat
    BY <2>1, AppendProperties, LenProperties
  <2>3. \A n \in DOMAIN jobs' : (n \in DOMAIN jobs /\ jobs'[n] = jobs[n]) \/ jobs'[n] = job
    BY <2>2
  <2> QED
    BY <1>5, <2>1, <2>3 DEF Stands, Mine
<1>6. CASE SubmitJob(s)
  <2>1. /\ UNCHANGED <<told, record, result, returned>> /\ pc[s] = "submit" /\ pc'[s] = "save"
        /\ mine'[s] = [NoRecord EXCEPT !.job = Len(jobs) + 1]
    BY <1>1, <1>6 DEF SubmitJob, Ours, campaign, At, Keep
  <2>2. mine'[s].result = NoResult
    BY <2>1 DEF NoRecord
  <2>3. Mine(s)'
    BY <1>5, <1>6, <2>1 DEF SubmitJob
  <2> QED
    BY <2>1, <2>2, <2>3 DEF Stands
<1>7. ASSUME NEW st, Save(s, [mine[s] EXCEPT !.status = st]), Keep, UNCHANGED <<told, aws>>,
             pc[s] \in {"save", "poll"}, pc'[s] \in {"poll", "download"}
      PROVE  Stands(s)'
  <2>1. mine[s].result = NoResult /\ record[IdOf[s]].result = NoResult
    BY <1>7 DEF Stands
  <2>2. record'[IdOf[s]].result = NoResult /\ mine'[s].result = NoResult
    BY <1>7, <2>1, SaveKeeps
  <2>3. Mine(s)'
    BY <1>7 DEF aws, Stands, Mine
  <2> QED
    BY <1>7, <2>1, <2>2, <2>3 DEF Stands, Keep
<1>8. CASE SaveRecord(s)
  BY <1>1, <1>7, <1>8 DEF SaveRecord, At, Ours, campaign
<1>9. CASE PollAgain(s)
  BY <1>7, <1>9 DEF PollAgain, Ours, campaign
<1>10. CASE PollTimesOut(s)
  <2> DEFINE x == [status |-> "timeout", of |-> "none"]
  <2>1. x \in Failures /\ x \notin Values /\ Finalize(s, x)
    BY <1>10 DEF PollTimesOut, Failures, Values
  <2>2. pc[s] = "poll" /\ pc' = [pc EXCEPT ![s] = "report"] /\ UNCHANGED <<told, aws>>
    BY <1>10 DEF PollTimesOut, At, Ours, campaign
  <2> HIDE DEF x
  <2> QED
    BY <2>1, <2>2, StandsFinal
<1>11. CASE PollFindsEnd(s)
  <2>1. CASE /\ At(s, "poll", "download")
             /\ Save(s, [mine[s] EXCEPT !.status = "succeeded"]) /\ Keep
    BY <1>1, <1>7, <1>11, <2>1 DEF PollFindsEnd, At, Ours, campaign
  <2>2. CASE /\ At(s, "poll", "report")
             /\ \E st \in {"failed", "killed"} : Finalize(s, [status |-> st, of |-> "none"])
    <3>1. PICK x \in Failures : x \notin Values /\ Finalize(s, x)
      BY <2>2 DEF Failures, Values
    <3>2. pc[s] = "poll" /\ pc' = [pc EXCEPT ![s] = "report"] /\ UNCHANGED <<told, aws>>
      BY <1>11, <2>2 DEF PollFindsEnd, At, Ours, campaign
    <3> QED
      BY <3>1, <3>2, StandsFinal
  <2> QED
    BY <1>11, <2>1, <2>2 DEF PollFindsEnd
<1>12. CASE Download(s)
  <2>1. \/ output[IdOf[s]] # NoResult /\ Finalize(s, output[IdOf[s]])
        \/ Finalize(s, [status |-> "failed", of |-> "none"])
    BY <1>12 DEF Download
  <2>2. PICK x \in Failures \cup Values : Finalize(s, x) /\ (x \in Values => x.of = s)
    <3>1. output[IdOf[s]] # NoResult => /\ output[IdOf[s]] \in Values
                                        /\ output[IdOf[s]].of = s
      BY <1>1 DEF Stands, Mine
    <3>2. [status |-> "failed", of |-> "none"] \in Failures \ Values
      BY DEF Failures, Values
    <3> QED
      BY <2>1, <3>1, <3>2
  <2>3. pc[s] = "download" /\ pc' = [pc EXCEPT ![s] = "report"] /\ UNCHANGED <<told, aws>>
    BY <1>12 DEF Download, At, campaign
  <2> QED
    BY <2>2, <2>3, StandsFinal
<1>13. CASE Ingest(s)
  <2>1. /\ UNCHANGED <<aws, record, returned>> /\ pc[s] = "report"
        /\ pc'[s] \in {"done", "dead"} /\ told'[s] \in {told[s], result[s]}
    BY <1>1, <1>13 DEF Ingest, At, history
  <2>2. Mine(s)'
    BY <2>1 DEF aws, Stands, Mine
  <2> QED
    BY <2>1, <2>2 DEF Stands
<1>14. CASE AwsFails(s)
  <2>1. /\ UNCHANGED <<told, input, output, record, mine, returned>>
        /\ pc[s] \in {"upload", "submit", "poll"} /\ pc'[s] = "report" /\ result'[s] = Raised
    BY <1>1, <1>14 DEF AwsFails, At, campaign
  <2>2. Mine(s)'
    <3>1. CASE UNCHANGED jobs
      BY <2>1, <3>1 DEF Stands, Mine
    <3>2. CASE pc[s] = "submit" /\ Submitted(s)
      BY <1>5, <2>1, <3>2
    <3> QED
      BY <1>14, <3>1, <3>2 DEF AwsFails
  <2> QED
    BY <2>1, <2>2 DEF Stands
<1>15. CASE WorkerDies(s)
  <2>1. /\ UNCHANGED <<aws, told, record, returned>> /\ pc'[s] = "dead"
    BY <1>1, <1>15 DEF WorkerDies, campaign
  <2>2. Mine(s)'
    BY <2>1 DEF aws, Stands, Mine
  <2> QED
    BY <2>1, <2>2 DEF Stands
<1> QED
  BY <1>2, <1>3, <1>4, <1>6, <1>8, <1>9, <1>10, <1>11, <1>12, <1>13, <1>14, <1>15 DEF Evaluate

LEMMA StandingStep == BatchTyped /\ Standing /\ [BatchNext]_batchVars => Standing'
<1> SUFFICES ASSUME BatchTyped, Standing, [BatchNext]_batchVars,
                    NEW s \in Suggestions, ~Shared(s)'
             PROVE  Stands(s)'
  BY DEF Standing
<1>1. used \subseteq used'
  BY DEF BatchNext, batchVars, Suggest, Reset, StartWorker, Evaluate, LoadRecord, UploadInput,
         SubmitJob, SaveRecord, PollTimesOut, PollFindsEnd, Download, Ingest, PollAgain,
         AwsFails, WorkerDies, JobStarts, JobEnds, Tick, Ours, campaign
<1>2. ~Shared(s) /\ Stands(s)
  BY <1>1 DEF Shared, Standing
<1>3. CASE Reset \/ Tick \/ UNCHANGED batchVars
  <2>1. UNCHANGED <<aws, told, record, mine, result, returned, pc>>
    BY <1>3 DEF Reset, Tick, batchVars, campaign, history, aws
  <2> QED
    BY <1>2, <2>1, StandsUnseen DEF Sight, aws
<1>4. CASE \E n \in DOMAIN jobs : JobStarts(n) \/ JobEnds(n)
  BY <1>2, <1>4, StandsJobs
<1>5. ASSUME NEW q \in Suggestions, q # s,
             \/ Suggest(q) \/ StartWorker(q) \/ Evaluate(q) \/ PollAgain(q)
             \/ AwsFails(q) \/ WorkerDies(q)
      PROVE  Stands(s)'
  <2>1. pc[q] # "idle" => q \in used
    BY DEF BatchTyped
  <2>2. Evaluate(q) \/ PollAgain(q) \/ AwsFails(q) \/ WorkerDies(q) => pc[q] # "idle"
    BY DEF Evaluate, LoadRecord, UploadInput, SubmitJob, SaveRecord, PollTimesOut,
           PollFindsEnd, Download, Ingest, PollAgain, AwsFails, WorkerDies, At
  <2>3. q \in used => IdOf[q] # IdOf[s]
    BY <1>2, <1>5 DEF Shared
  <2> QED
    BY <1>2, <1>5, <2>1, <2>2, <2>3, OthersUnseen, StandsUnseen
<1>6. CASE \/ Suggest(s) \/ StartWorker(s) \/ Evaluate(s) \/ PollAgain(s)
           \/ AwsFails(s) \/ WorkerDies(s)
  BY <1>2, <1>6, StandsOwn
<1> QED
  BY <1>3, <1>4, <1>5, <1>6 DEF BatchNext

-----------------------------------------------------------------------------
(* A behaviour of the harness is one of the two parts. *)

HarnessInv ==
  /\ part \in {"batch", "feed"}
  /\ BatchTyped /\ Counted /\ Standing
  /\ FeedInv

LEMMA HarnessInvInit == Init => HarnessInv
BY BatchTypedInit, CountedInit, StandingInit, FeedInvInit DEF Init, HarnessInv

LEMMA HarnessInvStep ==
  HarnessInv /\ [Next]_<<part, batchVars, feedVars>> => HarnessInv'
<1> SUFFICES ASSUME HarnessInv, [Next]_<<part, batchVars, feedVars>> PROVE HarnessInv'
  OBVIOUS
<1>1. [BatchNext]_batchVars /\ [FeedNext]_feedVars /\ UNCHANGED part
  BY DEF Next, BatchStep, FeedStep
<1>2. BatchTyped' /\ Counted' /\ Standing'
  BY <1>1, BatchTypedStep, CountedStep, StandingStep DEF HarnessInv
<1>3. FeedInv'
  BY <1>1, FeedInvStep DEF HarnessInv
<1> QED
  BY <1>1, <1>2, <1>3 DEF HarnessInv

\* The invariant from which the harness's promises follow.
THEOREM HarnessInvariant == Spec => []HarnessInv
<1>1. Init => HarnessInv
  BY HarnessInvInit
<1>2. HarnessInv /\ [Next]_<<part, batchVars, feedVars>> => HarnessInv'
  BY HarnessInvStep
<1> QED
  BY <1>1, <1>2, PTL DEF Spec

\* Every variable of the workers, of AWS and of the feed keeps its type.
THEOREM TypeCorrect == Spec => []TypeOK
<1>1. HarnessInv => TypeOK
  BY DEF HarnessInv, TypeOK, BatchTyped, FeedInv, FeedTyped
<1> QED
  BY <1>1, HarnessInvariant, PTL

\* However many workers run and however often each is started again, a second
\* Batch job for one suggestion means that an earlier submission was cut off
\* before its record was saved.
THEOREM RecordsResumeJobs == Spec => []JobsAreResumed
<1>1. HarnessInv => JobsAreResumed
  BY DEF HarnessInv, Counted, JobsOf, JobsAreResumed
<1> QED
  BY <1>1, HarnessInvariant, PTL

\* For any suggestions, ids and resets: a suggestion whose trial id no other
\* suggestion was given has one result, from its own parameters.
THEOREM ResultsStand == Spec => []ResultStands
<1>1. HarnessInv => ResultStands
  <2> SUFFICES ASSUME HarnessInv, NEW s \in Suggestions, ~Shared(s)
               PROVE  /\ returned[s] \subseteq {record[IdOf[s]].result}
                      /\ \A x \in returned[s] \cap Values : x.of = s
                      /\ told[s] \in {NoResult, Raised, record[IdOf[s]].result}
    BY DEF ResultStands
  <2> QED
    BY DEF HarnessInv, Standing, Stands
<1> QED
  BY <1>1, HarnessInvariant, PTL

\* A log of any length, with any number of torn lines, resets and restarts: a
\* saved cursor has nothing undelivered before it, and a repeat has the id the
\* event had before.
THEOREM FeedDelivers == Spec => []DeliveryHolds
<1>1. HarnessInv => DeliveryHolds
  BY FeedPromise DEF HarnessInv
<1> QED
  BY <1>1, HarnessInvariant, PTL
=============================================================================
