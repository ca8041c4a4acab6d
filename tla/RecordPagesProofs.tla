------------------------- MODULE RecordPagesProofs -------------------------
(***************************************************************************)
(* Proofs about RecordPages, for any sets of photos, records, dates, notes *)
(* and keywords, any answers of KTO and any bounds.  The order of a list is*)
(* an order of its members (Lists), from which the days and the rows of a  *)
(* record are built; the pages' invariants follow, handler by handler.     *)
(***************************************************************************)
EXTENDS RecordPages, FiniteSetTheorems, SequenceTheorems, TLAPS

(***************************************************************************)
(* Lists in an order.                                                      *)
(***************************************************************************)
\* B[x] is what precedes x in a strict order of finite set S.
IsOrder(S, B) ==
    /\ IsFiniteSet(S) /\ B \in [S -> SUBSET S]
    /\ \A x \in S : x \notin B[x]
    /\ \A x, y \in S : x # y => x \in B[y] \/ y \in B[x]
    /\ \A x, y, z \in S : x \in B[y] /\ y \in B[z] => x \in B[z]

\* The n-th member of s is the one that n - 1 members precede, if there is one.
ByRank(S, B, s) ==
    \A n \in 1..Cardinality(S) :
        (\E x \in S : Cardinality(B[x]) = n - 1) => s[n] \in S /\ Cardinality(B[s[n]]) = n - 1

InOrderOf(S, B, s) ==
    /\ Cardinality(S) \in Nat
    /\ \A n \in 1..Cardinality(S) : s[n] \in S
    /\ \A m, n \in 1..Cardinality(S) : m < n <=> s[m] \in B[s[n]]
    /\ \A x \in S : \E n \in 1..Cardinality(S) : s[n] = x

LEMMA Ranks ==
  ASSUME NEW S, NEW B, IsOrder(S, B)
  PROVE  /\ \A x \in S : IsFiniteSet(B[x]) /\ Cardinality(B[x]) \in 0..(Cardinality(S) - 1)
         /\ \A x, y \in S : x \in B[y] <=> Cardinality(B[x]) < Cardinality(B[y])
         /\ \A n \in 1..Cardinality(S) : \E x \in S : Cardinality(B[x]) = n - 1
  <1> DEFINE rank == [x \in S |-> Cardinality(B[x])]
             N == 0..(Cardinality(S) - 1)
  <1> USE DEF IsOrder
  <1>1. Cardinality(S) \in Nat
    BY FS_CardinalityType
  <1>2. ASSUME NEW x \in S
        PROVE  IsFiniteSet(B[x]) /\ Cardinality(B[x]) \in N
    <2>1. B[x] \in SUBSET S /\ B[x] # S
      OBVIOUS
    <2>2. IsFiniteSet(B[x]) /\ Cardinality(B[x]) <= Cardinality(S) /\ Cardinality(B[x]) # Cardinality(S)
      BY <2>1, FS_Subset
    <2>3. Cardinality(B[x]) \in Nat
      BY <2>2, FS_CardinalityType
    <2>4. QED
      BY <1>1, <2>2, <2>3
  <1>3. ASSUME NEW x \in S, NEW y \in S, x \in B[y]
        PROVE  Cardinality(B[x]) < Cardinality(B[y])
    <2>1. B[x] \in SUBSET B[y] /\ B[x] # B[y]
      BY <1>3
    <2>2. Cardinality(B[x]) <= Cardinality(B[y]) /\ Cardinality(B[x]) # Cardinality(B[y])
      BY <2>1, <1>2, FS_Subset
    <2>3. QED
      BY <2>2, <1>2, <1>1
  <1>4. \A x, y \in S : x \in B[y] <=> Cardinality(B[x]) < Cardinality(B[y])
    <2> SUFFICES ASSUME NEW x \in S, NEW y \in S, Cardinality(B[x]) < Cardinality(B[y])
                 PROVE  x \in B[y]
      BY <1>3
    <2>1. x # y /\ ~(Cardinality(B[y]) < Cardinality(B[x]))
      BY <1>1, <1>2
    <2>2. QED
      BY <2>1, <1>3
  <1>5. rank \in Injection(S, N)
    <2>1. rank \in [S -> N]
      BY <1>2
    <2>2. ASSUME NEW x \in S, NEW y \in S, rank[x] = rank[y]
          PROVE  x = y
      <3>1. ~(Cardinality(B[x]) < Cardinality(B[y])) /\ ~(Cardinality(B[y]) < Cardinality(B[x]))
        BY <1>1, <1>2, <2>2
      <3>2. QED
        BY <3>1, <1>4
    <2>3. QED
      BY <2>1, <2>2 DEF Injection, IsInjective
  <1>6. IsFiniteSet(N) /\ Cardinality(N) = Cardinality(S)
    BY <1>1, FS_Interval
  <1>7. rank \in Surjection(S, N)
    BY <1>5, <1>6, FS_Injection
  <1>8. ASSUME NEW n \in 1..Cardinality(S)
        PROVE  \E x \in S : Cardinality(B[x]) = n - 1
    <2>1. n - 1 \in N
      BY <1>1
    <2>2. \E x \in S : rank[x] = n - 1
      BY <2>1, <1>7 DEF Surjection
    <2>3. QED
      BY <2>2
  <1>9. QED
    BY <1>2, <1>4, <1>8

LEMMA RankedList ==
  ASSUME NEW S, NEW B, NEW s, IsOrder(S, B), ByRank(S, B, s)
  PROVE  InOrderOf(S, B, s)
  <1>1. /\ \A x \in S : IsFiniteSet(B[x]) /\ Cardinality(B[x]) \in 0..(Cardinality(S) - 1)
        /\ \A x, y \in S : x \in B[y] <=> Cardinality(B[x]) < Cardinality(B[y])
        /\ \A n \in 1..Cardinality(S) : \E x \in S : Cardinality(B[x]) = n - 1
    BY Ranks
  <1>2. Cardinality(S) \in Nat
    BY FS_CardinalityType DEF IsOrder
  <1>3. \A n \in 1..Cardinality(S) : s[n] \in S /\ Cardinality(B[s[n]]) = n - 1
    BY <1>1 DEF ByRank
  <1>4. ASSUME NEW m \in 1..Cardinality(S), NEW n \in 1..Cardinality(S)
        PROVE  m < n <=> s[m] \in B[s[n]]
    <2>1. s[m] \in B[s[n]] <=> Cardinality(B[s[m]]) < Cardinality(B[s[n]])
      BY <1>1, <1>3
    <2>2. QED
      BY <2>1, <1>2, <1>3
  <1>5. ASSUME NEW x \in S
        PROVE  \E n \in 1..Cardinality(S) : s[n] = x
    <2> DEFINE n == Cardinality(B[x]) + 1
    <2>1. n \in 1..Cardinality(S) /\ n - 1 = Cardinality(B[x])
      BY <1>1, <1>2
    <2> HIDE DEF n
    <2>2. s[n] \in S /\ Cardinality(B[s[n]]) = Cardinality(B[x])
      BY <2>1, <1>3
    <2>3. s[n] \notin B[x] /\ x \notin B[s[n]]
      BY <1>1, <2>1, <2>2, <1>2
    <2>4. s[n] = x
      BY <2>2, <2>3 DEF IsOrder
    <2>5. QED
      BY <2>1, <2>4
  <1>6. QED
    BY <1>2, <1>3, <1>4, <1>5 DEF InOrderOf

LEMMA AscendingList ==
  ASSUME NEW K \in SUBSET Nat, IsFiniteSet(K)
  PROVE  LET s == Ascending(K)
         IN  /\ Cardinality(K) \in Nat
             /\ s \in [1..Cardinality(K) -> K]
             /\ \A m, n \in 1..Cardinality(K) : m < n <=> s[m] < s[n]
             /\ \A k \in K : \E n \in 1..Cardinality(K) : s[n] = k
  <1> DEFINE B == [x \in K |-> {y \in K : y < x}]
             s == Ascending(K)
  <1>1. s = [n \in 1..Cardinality(K) |-> CHOOSE x \in K : Cardinality({y \in K : y < x}) = n - 1]
    BY DEF Ascending, Ordered
  <1>2. \A x \in K : B[x] = {y \in K : y < x}
    OBVIOUS
  <1>3. ByRank(K, B, s)
    <2> SUFFICES ASSUME NEW n \in 1..Cardinality(K), \E x \in K : Cardinality(B[x]) = n - 1
                 PROVE  s[n] \in K /\ Cardinality(B[s[n]]) = n - 1
      BY DEF ByRank
    <2> DEFINE P(x) == Cardinality({y \in K : y < x}) = n - 1
    <2>1. \E x \in K : P(x)
      BY <1>2
    <2>2. s[n] = CHOOSE x \in K : P(x)
      BY <1>1
    <2>3. s[n] \in K /\ P(s[n])
      BY <2>1, <2>2
    <2>4. QED
      BY <1>2, <2>3
  <1>4. IsOrder(K, B)
    BY DEF IsOrder
  <1>5. InOrderOf(K, B, s)
    <2> HIDE DEF B, s
    <2>1. QED
      BY <1>3, <1>4, RankedList
  <1>6. \A m, n \in 1..Cardinality(K) : m < n <=> s[m] < s[n]
    BY <1>5 DEF InOrderOf
  <1>7. s \in [1..Cardinality(K) -> K]
    BY <1>1, <1>5 DEF InOrderOf
  <1>8. QED
    BY <1>5, <1>6, <1>7 DEF InOrderOf

LEMMA UpTo ==
  ASSUME NEW n \in Nat
  PROVE  IsFiniteSet(1..n) /\ Cardinality(1..n) = n
  <1>1. IsFiniteSet(1..n) /\ Cardinality(1..n) = IF 1 > n THEN 0 ELSE n - 1 + 1
    BY FS_Interval
  <1>2. QED
    BY <1>1

LEMMA KeptList ==
  ASSUME NEW T, NEW s \in Seq(T), NEW K \in SUBSET DOMAIN s
  PROVE  LET at == Ascending(K)
         IN  /\ IsFiniteSet(K) /\ Cardinality(K) \in Nat /\ Cardinality(K) <= Len(s)
             /\ at \in [1..Cardinality(K) -> K]
             /\ \A m, n \in 1..Cardinality(K) : m < n <=> at[m] < at[n]
             /\ \A k \in K : \E n \in 1..Cardinality(K) : at[n] = k
             /\ Kept(s, K) \in Seq(T) /\ Len(Kept(s, K)) = Cardinality(K)
             /\ \A n \in 1..Cardinality(K) : Kept(s, K)[n] = s[at[n]]
             /\ Range(Kept(s, K)) = {s[k] : k \in K}
  <1> DEFINE at == Ascending(K)
  <1>1. DOMAIN s = 1..Len(s) /\ Len(s) \in Nat
    OBVIOUS
  <1>2. IsFiniteSet(K) /\ Cardinality(K) <= Len(s)
    <2>1. IsFiniteSet(1..Len(s)) /\ Cardinality(1..Len(s)) = Len(s)
      BY <1>1, UpTo
    <2>2. K \in SUBSET (1..Len(s))
      BY <1>1
    <2>3. QED
      BY <2>1, <2>2, FS_Subset
  <1>3. /\ Cardinality(K) \in Nat
        /\ at \in [1..Cardinality(K) -> K]
        /\ \A m, n \in 1..Cardinality(K) : m < n <=> at[m] < at[n]
        /\ \A k \in K : \E n \in 1..Cardinality(K) : at[n] = k
    BY <1>1, <1>2, AscendingList
  <1>4. Kept(s, K) = [n \in 1..Cardinality(K) |-> s[at[n]]]
    BY <1>3 DEF Kept
  <1> HIDE DEF at
  <1>5. \A n \in 1..Cardinality(K) : s[at[n]] \in T
    BY <1>1, <1>3
  <1>6. Kept(s, K) \in Seq(T) /\ Len(Kept(s, K)) = Cardinality(K)
    BY <1>3, <1>4, <1>5
  <1>7. Range(Kept(s, K)) = {s[k] : k \in K}
    BY <1>3, <1>4 DEF Range
  <1>8. QED
    BY <1>2, <1>3, <1>4, <1>6, <1>7 DEF at

LEMMA FirstList ==
  ASSUME NEW T, NEW s \in Seq(T), NEW n \in Nat
  PROVE  /\ First(n, s) \in Seq(T) /\ Len(First(n, s)) = SmallerOf(n, Len(s))
         /\ \A k \in 1..SmallerOf(n, Len(s)) : First(n, s)[k] = s[k]
         /\ Range(First(n, s)) \subseteq Range(s)
  <1> DEFINE m == SmallerOf(n, Len(s))
  <1>1. Len(s) \in Nat /\ m \in 0..Len(s) /\ DOMAIN s = 1..Len(s)
    BY DEF SmallerOf
  <1>2. First(n, s) = [k \in 1..m |-> s[k]]
    <2>1. First(n, s) = SubSeq(s, 1, m)
      BY DEF First
    <2>2. SubSeq(s, 1, m) = [k \in 1..m |-> s[k]]
      BY <1>1 
    <2>3. QED
      BY <2>1, <2>2
  <1>3. First(n, s) \in Seq(T) /\ Len(First(n, s)) = m
    BY <1>1, <1>2
  <1>4. Range(First(n, s)) \subseteq Range(s)
    BY <1>1, <1>2 DEF Range
  <1>5. QED
    BY <1>2, <1>3, <1>4

LEMMA BeforeOrder ==
  /\ \A d \in DateTexts : ~Before(d, d)
  /\ \A d, e \in DateTexts : d # e => Before(d, e) \/ Before(e, d)
  /\ \A d, e, f \in DateTexts : Before(d, e) /\ Before(e, f) => Before(d, f)
  <1>1. \A d \in DateTexts : d = <<d[1], d[2], d[3]>> /\ d[1] \in Nat /\ d[2] \in Nat /\ d[3] \in Nat
    BY DEF DateTexts
  <1>2. ASSUME NEW d \in DateTexts, NEW e \in DateTexts, d # e
        PROVE  Before(d, e) \/ Before(e, d)
    <2>1. d[1] # e[1] \/ d[2] # e[2] \/ d[3] # e[3]
      BY <1>1, <1>2
    <2>2. QED
      BY <1>1, <2>1 DEF Before
  <1>3. QED
    BY <1>1, <1>2 DEF Before

LEMMA DateList ==
  ASSUME NEW S \in SUBSET DateTexts, IsFiniteSet(S)
  PROVE  LET s == Ordered(S, Before)
         IN  /\ Cardinality(S) \in Nat
             /\ s \in [1..Cardinality(S) -> S]
             /\ \A m, n \in 1..Cardinality(S) : m < n <=> Before(s[m], s[n])
             /\ \A x \in S : \E n \in 1..Cardinality(S) : s[n] = x
  <1> DEFINE B == [x \in S |-> {y \in S : Before(y, x)}]
             s == Ordered(S, Before)
  <1>1. s = [n \in 1..Cardinality(S) |-> CHOOSE x \in S : Cardinality({y \in S : Before(y, x)}) = n - 1]
    BY DEF Ordered
  <1>2. \A x \in S : B[x] = {y \in S : Before(y, x)}
    OBVIOUS
  <1>3. ByRank(S, B, s)
    <2> SUFFICES ASSUME NEW n \in 1..Cardinality(S), \E x \in S : Cardinality(B[x]) = n - 1
                 PROVE  s[n] \in S /\ Cardinality(B[s[n]]) = n - 1
      BY DEF ByRank
    <2> DEFINE P(x) == Cardinality({y \in S : Before(y, x)}) = n - 1
    <2>1. \E x \in S : P(x)
      BY <1>2
    <2>2. s[n] = CHOOSE x \in S : P(x)
      BY <1>1
    <2>3. s[n] \in S /\ P(s[n])
      BY <2>1, <2>2
    <2>4. QED
      BY <1>2, <2>3
  <1>4. IsOrder(S, B)
    BY BeforeOrder DEF IsOrder
  <1>5. InOrderOf(S, B, s)
    <2> HIDE DEF B, s
    <2>1. QED
      BY <1>3, <1>4, RankedList
  <1>6. \A m, n \in 1..Cardinality(S) : m < n <=> Before(s[m], s[n])
    BY <1>2, <1>5 DEF InOrderOf
  <1>7. s \in [1..Cardinality(S) -> S]
    BY <1>1, <1>5 DEF InOrderOf
  <1>8. QED
    BY <1>5, <1>6, <1>7 DEF InOrderOf

LEMMA DayList ==
  ASSUME NEW S, IsFiniteSet(S), \A d \in S : d.date \in DateTexts,
         \A d, e \in S : d.date = e.date => d = e
  PROVE  LET s == ByDate(S)
         IN  /\ Cardinality(S) \in Nat
             /\ s \in [1..Cardinality(S) -> S]
             /\ \A m, n \in 1..Cardinality(S) : m < n <=> Before(s[m].date, s[n].date)
             /\ \A x \in S : \E n \in 1..Cardinality(S) : s[n] = x
  <1> DEFINE B == [x \in S |-> {y \in S : Before(y.date, x.date)}]
             s == ByDate(S)
  <1>1. s = [n \in 1..Cardinality(S) |-> CHOOSE x \in S : Cardinality({y \in S : Before(y.date, x.date)}) = n - 1]
    BY DEF ByDate, Ordered
  <1>2. \A x \in S : B[x] = {y \in S : Before(y.date, x.date)}
    OBVIOUS
  <1>3. ByRank(S, B, s)
    <2> SUFFICES ASSUME NEW n \in 1..Cardinality(S), \E x \in S : Cardinality(B[x]) = n - 1
                 PROVE  s[n] \in S /\ Cardinality(B[s[n]]) = n - 1
      BY DEF ByRank
    <2> DEFINE P(x) == Cardinality({y \in S : Before(y.date, x.date)}) = n - 1
    <2>1. \E x \in S : P(x)
      BY <1>2
    <2>2. s[n] = CHOOSE x \in S : P(x)
      BY <1>1
    <2>3. s[n] \in S /\ P(s[n])
      BY <2>1, <2>2
    <2>4. QED
      BY <1>2, <2>3
  <1>4. IsOrder(S, B)
    BY BeforeOrder DEF IsOrder
  <1>5. InOrderOf(S, B, s)
    <2> HIDE DEF B, s
    <2>1. QED
      BY <1>3, <1>4, RankedList
  <1>6. \A m, n \in 1..Cardinality(S) : m < n <=> Before(s[m].date, s[n].date)
    BY <1>2, <1>5 DEF InOrderOf
  <1>7. s \in [1..Cardinality(S) -> S]
    BY <1>1, <1>5 DEF InOrderOf
  <1>8. QED
    BY <1>5, <1>6, <1>7 DEF InOrderOf

LEMMA DistanceList ==
  ASSUME NEW S \in SUBSET Nat, IsFiniteSet(S), \A c \in S : Distance[c] \in Nat
  PROVE  LET s == ByDistance(S)
         IN  /\ Cardinality(S) \in Nat
             /\ s \in [1..Cardinality(S) -> S]
             /\ \A m, n \in 1..Cardinality(S) : m < n <=> (Distance[s[m]] < Distance[s[n]] \/ (Distance[s[m]] = Distance[s[n]] /\ s[m] < s[n]))
             /\ \A x \in S : \E n \in 1..Cardinality(S) : s[n] = x
  <1> DEFINE B == [x \in S |-> {y \in S : (Distance[y] < Distance[x] \/ (Distance[y] = Distance[x] /\ y < x))}]
             s == ByDistance(S)
  <1>1. s = [n \in 1..Cardinality(S) |-> CHOOSE x \in S : Cardinality({y \in S : (Distance[y] < Distance[x] \/ (Distance[y] = Distance[x] /\ y < x))}) = n - 1]
    BY DEF ByDistance, Ordered
  <1>2. \A x \in S : B[x] = {y \in S : (Distance[y] < Distance[x] \/ (Distance[y] = Distance[x] /\ y < x))}
    OBVIOUS
  <1>3. ByRank(S, B, s)
    <2> SUFFICES ASSUME NEW n \in 1..Cardinality(S), \E x \in S : Cardinality(B[x]) = n - 1
                 PROVE  s[n] \in S /\ Cardinality(B[s[n]]) = n - 1
      BY DEF ByRank
    <2> DEFINE P(x) == Cardinality({y \in S : (Distance[y] < Distance[x] \/ (Distance[y] = Distance[x] /\ y < x))}) = n - 1
    <2>1. \E x \in S : P(x)
      BY <1>2
    <2>2. s[n] = CHOOSE x \in S : P(x)
      BY <1>1
    <2>3. s[n] \in S /\ P(s[n])
      BY <2>1, <2>2
    <2>4. QED
      BY <1>2, <2>3
  <1>4. IsOrder(S, B)
    BY DEF IsOrder
  <1>5. InOrderOf(S, B, s)
    <2> HIDE DEF B, s
    <2>1. QED
      BY <1>3, <1>4, RankedList
  <1>6. \A m, n \in 1..Cardinality(S) : m < n <=> (Distance[s[m]] < Distance[s[n]] \/ (Distance[s[m]] = Distance[s[n]] /\ s[m] < s[n]))
    BY <1>2, <1>5 DEF InOrderOf
  <1>7. s \in [1..Cardinality(S) -> S]
    BY <1>1, <1>5 DEF InOrderOf
  <1>8. QED
    BY <1>5, <1>6, <1>7 DEF InOrderOf


(***************************************************************************)
(* The places that are offered.                                            *)
(***************************************************************************)
LEMMA Contents ==
  /\ DOMAIN KtoItems \in SUBSET Nat /\ IsFiniteSet(DOMAIN KtoItems)
  <1>1. Len(KtoItems) \in Nat /\ DOMAIN KtoItems = 1..Len(KtoItems)
    BY KtoAssumption
  <1>2. QED
    BY <1>1, UpTo

LEMMA ConfigType ==
  ASSUME NEW c \in Configs
  PROVE  c.defaultRadiusM \in Nat /\ c.maxRadiusM \in Nat /\ c.maxCandidates \in Nat \ {0}
  <1>1. PICK raw \in ServerConfigs : c = normalizeAppConfig(raw)
    BY DEF Configs
  <1>2. /\ raw.defaultRadiusM \in Int \cup {None} /\ raw.maxRadiusM \in Int \cup {None}
        /\ raw.maxCandidates \in Int \cup {None} /\ MaxRows \in Nat \ {0}
    BY PagesAssumption, KtoAssumption
  <1>4. /\ radiusMetersOr(raw.maxRadiusM, 1000) \in Nat \ {0}
        /\ radiusMetersOr(raw.defaultRadiusM, 300) \in Nat \ {0}
        /\ candidateCountOr(raw.maxCandidates, 5) \in Nat \ {0}
    <2>1. /\ positiveIntegerOr(raw.maxRadiusM, 1000) \in Nat \ {0}
          /\ positiveIntegerOr(raw.defaultRadiusM, 300) \in Nat \ {0}
          /\ positiveIntegerOr(raw.maxCandidates, 5) \in Nat \ {0}
      BY <1>2 DEF positiveIntegerOr
    <2>2. QED
      BY <1>2, <2>1 DEF radiusMetersOr, candidateCountOr, SmallerOf, MaxRadius
  <1>5. QED
    BY <1>1, <1>4 DEF normalizeAppConfig, SmallerOf

LEMMA ParsedList ==
  ASSUME NEW limit \in Nat, NEW rows \in Seq(DOMAIN KtoItems)
  PROVE  Parsed(limit, rows) \in Seq(DOMAIN KtoItems)
  <1> DEFINE C == DOMAIN KtoItems
             first == First(limit, rows)
             K == {k \in DOMAIN first : parseListItem(first[k])}
  <1>1. first \in Seq(C)
    BY FirstList
  <1>2. Kept(first, K) \in Seq(C)
    <2> HIDE DEF first
    <2>1. QED
      BY <1>1, KeptList
  <1>3. Parsed(limit, rows) = First(limit, Kept(first, K))
    BY DEF Parsed, Selected
  <1>4. QED
    BY <1>2, <1>3, FirstList

LEMMA TitleList ==
  ASSUME NEW S \in SUBSET DOMAIN KtoItems
  PROVE  ByTitle(S) \in Seq(DOMAIN KtoItems) /\ Range(ByTitle(S)) = S
  <1> DEFINE s == ByTitle(S)
  <1>1. IsFiniteSet(S) /\ S \in SUBSET Nat
    BY Contents, FS_Subset
  <1>2. /\ Cardinality(S) \in Nat
        /\ s \in [1..Cardinality(S) -> S]
        /\ \A k \in S : \E n \in 1..Cardinality(S) : s[n] = k
    BY <1>1, AscendingList DEF ByTitle
  <1> HIDE DEF s
  <1>3. s \in Seq(DOMAIN KtoItems)
    BY <1>2
  <1>4. Range(s) = S
    BY <1>2 DEF Range
  <1>5. QED
    BY <1>3, <1>4 DEF s

LEMMA NearbyList ==
  ASSUME NEW radius \in Nat, NEW c \in Configs
  PROVE  fetchNearbyKtoPlaces(radius, c.maxCandidates) \in Seq(DOMAIN KtoItems)
  <1> DEFINE S == {k \in DOMAIN KtoItems : Distance[k] <= nearbyRadiusMeters(radius)}
             s == ByDistance(S)
  <1>1. S \in SUBSET Nat /\ IsFiniteSet(S) /\ \A k \in S : Distance[k] \in Nat
    BY Contents, FS_Subset, DistanceAssumption
  <1>2. Cardinality(S) \in Nat /\ s \in [1..Cardinality(S) -> S]
    <2> HIDE DEF S
    <2>1. QED
      BY <1>1, DistanceList
  <1>3. s \in Seq(DOMAIN KtoItems)
    <2>1. S \subseteq DOMAIN KtoItems
      OBVIOUS
    <2> HIDE DEF S, s
    <2>2. QED
      BY <1>2, <2>1
  <1>4. candidateLimit(c.maxCandidates) \in Nat
    BY ConfigType, KtoAssumption DEF candidateLimit, SmallerOf
  <1>5. QED
    BY <1>3, <1>4, ParsedList DEF fetchNearbyKtoPlaces

LEMMA CandidateList ==
  ASSUME NEW places \in Seq(DOMAIN KtoItems),
         NEW method \in {"GPS_CANDIDATE", "MANUAL_SEARCH", "MANUAL_REGION_SELECT"}
  PROVE  LET s == toCandidates(places, method)
         IN  /\ s \in Seq(OfferedPlaces)
             /\ method = "GPS_CANDIDATE" =>
                   \A k \in DOMAIN s : s[k].confidence = "HIGH" => Len(s) = 1
  <1> DEFINE all == [k \in DOMAIN places |-> Candidate(places[k], method, Len(places))]
             K == {k \in DOMAIN all : all[k].area # None}
             T == {Candidate(places[k], method, Len(places)) : k \in DOMAIN places}
             s == toCandidates(places, method)
             at == Ascending(K)
  <1>1. Len(places) \in Nat /\ DOMAIN places = 1..Len(places) /\ \A k \in DOMAIN places : places[k] \in DOMAIN KtoItems
    OBVIOUS
  <1>2. /\ all \in Seq(T) /\ Len(all) = Len(places) /\ DOMAIN all = DOMAIN places
        /\ \A k \in DOMAIN places : all[k] = Candidate(places[k], method, Len(places))
    BY <1>1
  <1>3. s = Kept(all, K)
    BY DEF toCandidates, Selected
  <1>4. /\ IsFiniteSet(K) /\ Cardinality(K) \in Nat /\ Cardinality(K) <= Len(places)
        /\ at \in [1..Cardinality(K) -> K]
        /\ s \in Seq(T) /\ Len(s) = Cardinality(K)
        /\ \A n \in 1..Cardinality(K) : s[n] = all[at[n]]
    <2>1. K \in SUBSET DOMAIN all
      OBVIOUS
    <2> HIDE DEF all, K, T, s, at
    <2>2. QED
      BY <1>2, <1>3, <2>1, KeptList DEF at
  <1>5. ASSUME NEW n \in DOMAIN s
        PROVE  /\ s[n] = Candidate(places[at[n]], method, Len(places)) /\ s[n].area # None
               /\ at[n] \in DOMAIN places
    <2>1. n \in 1..Cardinality(K)
      BY <1>4
    <2>2. at[n] \in K /\ s[n] = all[at[n]]
      BY <1>4, <2>1
    <2>3. at[n] \in DOMAIN places /\ all[at[n]].area # None
      BY <1>2, <2>2
    <2> HIDE DEF all, K, T, s, at
    <2>4. QED
      BY <1>2, <2>2, <2>3
  <1>6. ASSUME NEW n \in DOMAIN s
        PROVE  s[n] \in OfferedPlaces
    <2>1. s[n].area # None /\ s[n] = Candidate(places[at[n]], method, Len(places))
      BY <1>5
    <2>2. places[at[n]] \in DOMAIN KtoItems
      BY <1>1, <1>5
    <2> DEFINE c == places[at[n]]
    <2> HIDE DEF c, s, at, T, K, all
    <2>3. Candidate(c, method, Len(places)).confidence \in {"HIGH", "MEDIUM", "LOW", "MANUAL"}
      BY DEF Candidate, confidenceForCandidate
    <2>4. QED
      BY <2>1, <2>2, <2>3 DEF Candidate, OfferedPlaces, c
  <1> HIDE DEF all, K, T, s, at
  <1>7. s \in Seq(OfferedPlaces)
    BY <1>4, <1>6
  <1>8. ASSUME method = "GPS_CANDIDATE", NEW k \in DOMAIN s, s[k].confidence = "HIGH"
        PROVE  Len(s) = 1
    <2>1. confidenceForCandidate(places[at[k]], Len(places)) = "HIGH"
      BY <1>5, <1>8 DEF Candidate
    <2>2. Len(places) = 1
      BY <2>1 DEF confidenceForCandidate
    <2>3. Len(s) >= 1
      BY <1>4, <1>8
    <2>4. QED
      BY <1>4, <2>2, <2>3
  <1>9. QED
    BY <1>7, <1>8 DEF s

LEMMA SearchedPlaces ==
  ASSUME NEW mode \in {"keyword", "area"}, config \in Configs \cup {None}
  PROVE  Searched(mode) \subseteq OfferedPlaces
  <1> SUFFICES ASSUME NEW c \in Configs
               PROVE  Offered[c][mode] \subseteq OfferedPlaces
    BY DEF Searched
  <1> DEFINE limit == candidateLimit(c.maxCandidates)
  <1>1. limit \in Nat /\ c.maxCandidates \in Nat /\ MaxRows \in Nat
    BY ConfigType, KtoAssumption DEF candidateLimit, SmallerOf
  <1>2. ASSUME NEW T, NEW s \in Seq(T)
        PROVE  Range(s) \subseteq T
    BY DEF Range
  <1>3. ASSUME NEW k \in Keywords
        PROVE  Range(searchTouristPlaces(k, c)) \subseteq OfferedPlaces
    <2>1. ByTitle(k) \in Seq(DOMAIN KtoItems)
      BY TitleList, PagesAssumption
    <2>2. searchKtoPlaces(k, c.maxCandidates) \in Seq(DOMAIN KtoItems)
      BY <1>1, <2>1, ParsedList DEF searchKtoPlaces
    <2>3. searchTouristPlaces(k, c) \in Seq(OfferedPlaces)
      BY <2>2, CandidateList DEF searchTouristPlaces
    <2>4. QED
      BY <1>2, <2>3
  <1>4. ASSUME NEW a \in AreaCodes \cup {None}
        PROVE  Range(browseTouristPlacesByArea(a, c)) \subseteq OfferedPlaces
    <2> DEFINE asked == IF isSharedLegalAreaBrowse(a) THEN MaxRows ELSE limit
               rows == IF a = None THEN {First(asked, ByTitle(DOMAIN KtoItems))}
                       ELSE {First(asked, ByTitle(Lists(f))) : f \in areaSearchFilters(a, None)}
               fits(o) == parseListItem(o) /\ a \in {None, CodesOf[o].area}
               S == {o \in UNION {Range(s) : s \in rows} : fits(o)}
    <2>1. asked \in Nat
      BY <1>1
    <2>2. ASSUME NEW s \in rows
          PROVE  Range(s) \subseteq DOMAIN KtoItems
      <3>1. PICK L \in SUBSET DOMAIN KtoItems : s = First(asked, ByTitle(L))
        BY DEF Lists
      <3> HIDE DEF asked
      <3>2. ByTitle(L) \in Seq(DOMAIN KtoItems)
        BY TitleList
      <3>3. s \in Seq(DOMAIN KtoItems)
        BY <2>1, <3>1, <3>2, FirstList
      <3>4. QED
        BY <1>2, <3>3
    <2>3. S \subseteq DOMAIN KtoItems
      BY <2>2
    <2>4. fetchKtoPlacesByArea(a, c.maxCandidates) = First(limit, ByTitle(S))
      BY DEF fetchKtoPlacesByArea
    <2> HIDE DEF S
    <2>5. fetchKtoPlacesByArea(a, c.maxCandidates) \in Seq(DOMAIN KtoItems)
      BY <1>1, <2>3, <2>4, TitleList, FirstList
    <2>6. browseTouristPlacesByArea(a, c) \in Seq(OfferedPlaces)
      BY <1>1, <2>5, CandidateList, FirstList DEF browseTouristPlacesByArea
    <2>7. QED
      BY <1>2, <2>6
  <1>5. QED
    BY <1>3, <1>4 DEF Offered

(***************************************************************************)
(* The coordinates of a draft.                                             *)
(***************************************************************************)
LEMMA EmptyDraftOK ==
  EmptyDraft \in Drafts /\ EmptyDraft.photos = <<>> /\ EmptyDraft.gps = {} /\ EmptyDraft.decision = "undecided"
  BY DEF EmptyDraft, Drafts, Decisions

LEMMA HomeOK ==
  ASSUME NEW at \in Pages, NEW r, NEW v
  PROVE  LET p == NewPage(at, r, v)
         IN  IsPage(p) /\ p.at = at /\ p.mode = "nearby" /\ p.record = r /\ p.visit = v /\ ~p.saving
  BY DEF NewPage, IsPage, Modes

LEMMA BelowOK ==
  ASSUME NEW p, p.at \in Pages \ {"home"}
  PROVE  IsPage(Below(p)) /\ Below(p).at \in {"home", "photos", "places", "detail"}
         /\ (p.at \in DraftPages => Below(p).record = None)
  <1>1. \A at \in Pages : \A r, v :
            IsPage(NewPage(at, r, v)) /\ NewPage(at, r, v).at = at /\ NewPage(at, r, v).record = r
    BY HomeOK
  <1>2. {"home", "photos", "places", "detail"} \subseteq Pages
    BY DEF Pages
  <1>3. QED
    BY <1>1, <1>2 DEF Below, Home, Pages, DraftPages

\* What the coordinates of draft d need for CoordinatesAreTransient.
Sparing(d) ==
    /\ d \in Drafts /\ Len(d.photos) <= MaxPhotos
    /\ d.gps \subseteq Range(d.photos) \cap Located
    /\ d.gps \cap closed = {}
    /\ d.decision = "manual" => d.gps \subseteq late

SearchFits(s, d, p, c) ==
    /\ s \in [photo : Photos, wide : BOOLEAN] \cup {None}
    /\ s # None =>
          /\ p.at = "info" /\ p.mode = "nearby" /\ d.decision = "nearby" /\ c # None
          /\ s.photo = selectedPhoto(d) /\ s.photo \in d.gps

LEMMA StartedFits ==
  ASSUME NEW d \in Drafts, NEW p, NEW c
  PROVE  SearchFits(Started(d, p, c), d, p, c)
  <1>1. CASE canStartNearbySearch(d, p, c)
    <2>1. selectedPhoto(d) \in Photos
      BY <1>1 DEF canStartNearbySearch, Drafts
    <2>2. QED
      BY <1>1, <2>1 DEF Started, SearchFits, canStartNearbySearch
  <1>2. CASE ~canStartNearbySearch(d, p, c)
    BY <1>2 DEF Started, SearchFits
  <1>3. QED
    BY <1>1, <1>2

LEMMA SelectedPhotoType ==
  ASSUME NEW d \in Drafts, d.photos # <<>>
  PROVE  selectedPhoto(d) \in Range(d.photos) /\ Range(d.photos) \subseteq Photos
  <1>1. d.photos \in Seq(Photos)
    BY DEF Drafts
  <1>2. 1 \in DOMAIN d.photos
    BY <1>1
  <1>3. QED
    BY <1>1, <1>2 DEF selectedPhoto, Range

LEMMA InfoShowsAPhoto ==
  ASSUME CoordinatesIInv, page.at = "info"
  PROVE  selectedPhoto(draft) \in Photos /\ selectedPhoto(draft) \in Range(draft.photos)
  <1>1. draft \in Drafts /\ draft.selected \in Range(draft.photos)
    BY DEF CoordinatesIInv, DraftTypeOK
  <1>2. draft.photos # <<>>
    BY <1>1 DEF Range
  <1>3. QED
    BY <1>1, <1>2, SelectedPhotoType

\* The candidates of a search are shown as such.
FoundFits(s) ==
    s \in Seq(OfferedPlaces) /\ \A k \in DOMAIN s : s[k].confidence = "HIGH" => Len(s) = 1

LEMMA Parts ==
  CoordinatesIInv <=>
      /\ IsPage(page) /\ picker \in Decisions \cup {None} /\ config \in Configs \cup {None}
      /\ closed \subseteq Photos /\ late \subseteq Photos
      /\ page.at = "info" => draft.selected \in Range(draft.photos)
      /\ Sparing(draft) /\ SearchFits(search, draft, page, config) /\ FoundFits(found)
  BY DEF CoordinatesIInv, DraftTypeOK, CoordinatesAreTransient, Sparing, SearchFits, FoundFits

LEMMA PartsPrime ==
  ASSUME IsPage(page'), picker' \in Decisions \cup {None}, config' \in Configs \cup {None},
         closed' \subseteq Photos, late' \subseteq Photos,
         page'.at = "info" => draft'.selected \in Range(draft'.photos),
         Sparing(draft)', SearchFits(search', draft', page', config'), FoundFits(found')
  PROVE  CoordinatesIInv'
  BY DEF CoordinatesIInv, DraftTypeOK, CoordinatesAreTransient, Sparing, SearchFits, FoundFits

LEMMA Discarded ==
  ASSUME NEW d \in Drafts, NEW S
  PROVE  LET e == discardTransientGps(d, S)
         IN  /\ e \in Drafts /\ e.gps = d.gps \ S /\ e.photos = d.photos
             /\ e.decision = d.decision /\ e.selected = d.selected /\ e.details = d.details
             /\ selectedPhoto(e) = selectedPhoto(d)
  BY DEF discardTransientGps, Drafts, selectedPhoto

\* A step to another page, with the draft as it is or with one that fits.
LEMMA ArriveOK ==
  ASSUME CoordinatesIInv, NEW new, IsPage(new), NEW d, Sparing(d), ArriveAt(new, d),
         new.at = "info" => d.selected \in Range(d.photos),
         page.at = "info" => d = draft \/ new.at \notin DraftPages,
         UNCHANGED <<picker, config>>, FoundFits(found')
  PROVE  CoordinatesIInv'
  <1> DEFINE resets == page.at \in DraftPages /\ new.at \notin DraftPages
             left == LeftBehind(d, page)
  <1>1. /\ IsPage(page) /\ picker \in Decisions \cup {None} /\ config \in Configs \cup {None}
        /\ closed \subseteq Photos /\ late \subseteq Photos /\ Sparing(draft)
    BY Parts
  <1>2. /\ page' = new
        /\ draft' = IF resets THEN EmptyDraft ELSE discardTransientGps(d, left)
        /\ closed' = IF resets THEN {} ELSE closed \cup left
        /\ late' = late \cap Range(draft'.photos)
        /\ search' = IF new.at = "info" THEN Started(draft', new, config) ELSE None
    BY DEF ArriveAt
  <1>3. left \in SUBSET Photos \/ resets
    BY InfoShowsAPhoto DEF LeftBehind, DraftPages
  <1>4. Sparing(draft)' /\ draft' \in Drafts
    <2>1. CASE resets
      <3>1. draft' = EmptyDraft
        BY <1>2, <2>1
      <3>2. Range(<<>>) = {} /\ Len(<<>>) = 0
        BY DEF Range
      <3>3. QED
        BY <3>1, <3>2, EmptyDraftOK, PagesAssumption DEF Sparing
    <2>2. CASE ~resets
      <3>1. d \in Drafts
        BY DEF Sparing
      <3>2. /\ draft' \in Drafts /\ draft'.gps = d.gps \ left /\ draft'.photos = d.photos
            /\ draft'.decision = d.decision
        BY <1>2, <2>2, <3>1, Discarded
      <3>3. closed' = closed \cup left /\ late' = late \cap Range(d.photos)
        BY <1>2, <2>2, <3>2
      <3>4. QED
        BY <3>2, <3>3 DEF Sparing
    <2>3. QED
      BY <2>1, <2>2
  <1>5. SearchFits(search', draft', page', config')
    <2>1. CASE new.at = "info"
      BY <1>2, <1>4, <2>1, StartedFits
    <2>2. CASE new.at # "info"
      BY <1>2, <2>2 DEF SearchFits
    <2>3. QED
      BY <2>1, <2>2
  <1>6. new.at = "info" => draft'.selected \in Range(draft'.photos)
    <2>1. new.at = "info" => ~resets
      BY DEF DraftPages
    <2>2. d \in Drafts
      BY DEF Sparing
    <2>3. QED
      BY <1>2, <2>1, <2>2, Discarded
  <1>7. closed' \subseteq Photos /\ late' \subseteq Photos
    BY <1>1, <1>2, <1>3
  <1>8. QED
    BY <1>1, <1>2, <1>4, <1>5, <1>6, <1>7, PartsPrime

LEMMA DraftFits ==
  ASSUME CoordinatesIInv
  PROVE  Sparing(draft) /\ draft \in Drafts /\ IsPage(page) /\ FoundFits(found) /\ FoundFits(<<>>)
  BY Parts DEF Sparing, FoundFits

\* Nothing that concerns the coordinates changes.
LEMMA DraftStays ==
  ASSUME CoordinatesIInv, UNCHANGED <<drafting, config>>,
         UNCHANGED page \/ (page' = [page EXCEPT !.saving = page'.saving] /\ page'.saving \in BOOLEAN)
  PROVE  CoordinatesIInv'
  <1>1. IsPage(page)' /\ page'.at = page.at /\ page'.mode = page.mode
    BY Parts DEF IsPage
  <1>2. Sparing(draft)' /\ FoundFits(found') /\ SearchFits(search', draft', page', config')
    BY <1>1, Parts DEF drafting, Sparing, FoundFits, SearchFits
  <1>3. QED
    BY <1>1, <1>2, Parts, PartsPrime DEF drafting

LEMMA Added ==
  ASSUME NEW d, Sparing(d), NEW assets \in Seq(Photos), NEW decision
  PROVE  LET e == addPhotosFromLibrary(d, assets, decision)
         IN  /\ e \in Drafts /\ Len(e.photos) <= MaxPhotos
             /\ Range(d.photos) \subseteq Range(e.photos)
             /\ e.gps \subseteq Range(e.photos) \cap Located
             /\ e.gps \subseteq IF decision = "manual" THEN d.gps
                                ELSE d.gps \cup (Range(assets) \ Range(d.photos))
             /\ e.decision = d.decision /\ e.selected = d.selected
             /\ \A k \in DOMAIN d.photos : k \in DOMAIN e.photos /\ e.photos[k] = d.photos[k]
  <1> DEFINE K == {k \in DOMAIN assets : assets[k] \notin Range(d.photos)}
             new == Kept(assets, K)
             both == d.photos \o new
             kept == First(MaxPhotos, both)
             e == addPhotosFromLibrary(d, assets, decision)
  <1>1. d \in Drafts /\ d.photos \in Seq(Photos) /\ Len(d.photos) <= MaxPhotos /\ MaxPhotos \in Nat
        /\ d.gps \subseteq Range(d.photos) \cap Located
    BY PagesAssumption DEF Sparing, Drafts
  <1>2. new \in Seq(Photos) /\ Range(new) = {assets[k] : k \in K}
    <2>1. K \in SUBSET DOMAIN assets
      OBVIOUS
    <2> HIDE DEF K
    <2>2. QED
      BY <2>1, KeptList
  <1>3. Selected(assets, LAMBDA p : p \notin Range(d.photos)) = new
    BY DEF Selected
  <1>4. e = [d EXCEPT !.photos = kept,
                      !.gps = @ \cup (IF decision = "manual" THEN {}
                                      ELSE Located \cap (Range(kept) \ Range(d.photos))),
                      !.details = [p \in Photos |->
                          IF p \in Range(assets) THEN getPhotoDetails(d, p) ELSE @[p]]]
    BY <1>3 DEF addPhotosFromLibrary
  <1> HIDE DEF K, new, e
  <1>5. /\ both \in Seq(Photos) /\ Len(both) = Len(d.photos) + Len(new) /\ Len(new) \in Nat
        /\ \A k \in 1..Len(d.photos) : both[k] = d.photos[k]
        /\ Range(both) = Range(d.photos) \cup Range(new)
    <2>1. both \in Seq(Photos) /\ Len(both) = Len(d.photos) + Len(new) /\ Len(new) \in Nat /\ Len(d.photos) \in Nat
      BY <1>1, <1>2
    <2>2. \A k \in 1..Len(both) : both[k] = IF k <= Len(d.photos) THEN d.photos[k] ELSE new[k - Len(d.photos)]
      BY <1>1, <1>2
    <2>3. \A k \in 1..Len(d.photos) : k \in 1..Len(both) /\ both[k] = d.photos[k]
      BY <2>1, <2>2
    <2>4. \A k \in 1..Len(new) :
            k + Len(d.photos) \in 1..Len(both) /\ both[k + Len(d.photos)] = new[k]
      BY <2>1, <2>2
    <2>5. \A k \in 1..Len(both) : both[k] \in Range(d.photos) \cup Range(new)
      <3> SUFFICES ASSUME NEW k \in 1..Len(both) PROVE both[k] \in Range(d.photos) \cup Range(new)
        OBVIOUS
      <3>1. CASE k <= Len(d.photos)
        BY <2>1, <2>2, <3>1, <1>1 DEF Range
      <3>2. CASE ~(k <= Len(d.photos))
        <4>1. k - Len(d.photos) \in 1..Len(new)
          BY <2>1, <3>2
        <4>2. QED
          BY <2>2, <3>2, <4>1, <1>2 DEF Range
      <3>3. QED
        BY <3>1, <3>2
    <2>6. Range(both) = Range(d.photos) \cup Range(new)
      <3>1. Range(both) = {both[k] : k \in 1..Len(both)}
        BY <2>1 DEF Range
      <3>2. Range(new) = {new[k] : k \in 1..Len(new)} /\ Range(d.photos) = {d.photos[k] : k \in 1..Len(d.photos)}
        BY <1>1, <1>2 DEF Range
      <3> HIDE DEF both
      <3>3. QED
        BY <2>3, <2>4, <2>5, <3>1, <3>2
    <2>7. QED
      BY <2>1, <2>3, <2>6
  <1> HIDE DEF both
  <1>6. /\ kept \in Seq(Photos) /\ Len(kept) <= MaxPhotos /\ Len(d.photos) <= Len(kept)
        /\ \A k \in 1..Len(d.photos) : kept[k] = d.photos[k]
        /\ Range(kept) \subseteq Range(both)
    <2> DEFINE m == SmallerOf(MaxPhotos, Len(both))
    <2>1. m \in Nat /\ Len(d.photos) <= m /\ m <= MaxPhotos /\ Len(d.photos) \in Nat
      BY <1>1, <1>5 DEF SmallerOf
    <2>2. /\ kept \in Seq(Photos) /\ Len(kept) = m
          /\ \A k \in 1..m : kept[k] = both[k]
          /\ Range(kept) \subseteq Range(both)
      BY <1>1, <1>5, FirstList
    <2> HIDE DEF m, kept
    <2>3. \A k \in 1..Len(d.photos) : k \in 1..m
      BY <2>1
    <2>4. \A k \in 1..Len(d.photos) : kept[k] = d.photos[k]
      BY <1>5, <2>2, <2>3
    <2>5. Len(kept) <= MaxPhotos /\ Len(d.photos) <= Len(kept)
      BY <2>1, <2>2
    <2>6. QED
      BY <2>2, <2>4, <2>5
  <1> HIDE DEF kept
  <1>7. Range(d.photos) \subseteq Range(kept)
    BY <1>1, <1>6 DEF Range
  <1>8. \A p \in Photos : getPhotoDetails(d, p) \in PhotoDetails
    BY <1>1, PagesAssumption DEF Drafts, getPhotoDetails, initialPhotoDetails, PhotoDetails
  <1>9. /\ e.photos = kept /\ e.decision = d.decision /\ e.selected = d.selected
        /\ e.gps = d.gps \cup (IF decision = "manual" THEN {} ELSE Located \cap (Range(kept) \ Range(d.photos)))
        /\ e.details = [p \in Photos |-> IF p \in Range(assets) THEN getPhotoDetails(d, p) ELSE d.details[p]]
        /\ DOMAIN e = DOMAIN d
    BY <1>1, <1>4 DEF Drafts
  <1>10. e \in Drafts
    <2>1. e.details \in [Photos -> PhotoDetails \cup {None}]
      BY <1>1, <1>8, <1>9 DEF Drafts
    <2>2. e.gps \in SUBSET Photos
      BY <1>1, <1>9, PagesAssumption DEF Drafts
    <2>3. QED
      BY <1>1, <1>4, <1>6, <1>9, <2>1, <2>2 DEF Drafts
  <1>11. e.gps \subseteq IF decision = "manual" THEN d.gps ELSE d.gps \cup (Range(assets) \ Range(d.photos))
    <2>1. Range(kept) \ Range(d.photos) \subseteq Range(new) /\ Range(new) \subseteq Range(assets)
      BY <1>2, <1>5, <1>6 DEF Range, K
    <2>2. QED
      BY <1>9, <2>1
  <1>12. \A k \in DOMAIN d.photos : k \in DOMAIN kept /\ kept[k] = d.photos[k]
    BY <1>1, <1>6
  <1>13. QED
    BY <1>1, <1>6, <1>7, <1>9, <1>10, <1>11, <1>12 DEF e

LEMMA PicksAreLists == Picks \subseteq Seq(Photos)
  BY DEF Picks, SeqOf

LEMMA Removed ==
  ASSUME NEW d, Sparing(d), NEW p \in Photos
  PROVE  LET e == removePhoto(d, p)
         IN  /\ e \in Drafts /\ Len(e.photos) <= MaxPhotos
             /\ Range(e.photos) = Range(d.photos) \ {p} /\ e.gps = d.gps \ {p}
             /\ e.decision = d.decision
             /\ e.gps \subseteq Range(e.photos) \cap Located
  <1> DEFINE K == {k \in DOMAIN d.photos : d.photos[k] # p}
             kept == Kept(d.photos, K)
             e == removePhoto(d, p)
  <1>1. d \in Drafts /\ d.photos \in Seq(Photos) /\ Len(d.photos) <= MaxPhotos /\ MaxPhotos \in Nat
        /\ d.gps \subseteq Range(d.photos) \cap Located
    BY PagesAssumption DEF Sparing, Drafts
  <1>2. /\ kept \in Seq(Photos) /\ Len(kept) <= Len(d.photos) /\ Range(kept) = {d.photos[k] : k \in K}
    <2>1. K \in SUBSET DOMAIN d.photos
      OBVIOUS
    <2> HIDE DEF K
    <2>2. QED
      BY <1>1, <2>1, KeptList
  <1>3. e = [d EXCEPT !.photos = kept, !.gps = @ \ {p}, !.details[p] = None,
                      !.selected = IF @ = p THEN None ELSE @]
    BY DEF removePhoto, Selected
  <1>4. Range(kept) = Range(d.photos) \ {p}
    BY <1>2 DEF Range
  <1> HIDE DEF K, kept, e
  <1>5. /\ e \in Drafts /\ e.photos = kept /\ e.gps = d.gps \ {p} /\ e.decision = d.decision
    BY <1>1, <1>2, <1>3 DEF Drafts
  <1>6. Len(kept) <= MaxPhotos
    BY <1>1, <1>2
  <1>7. QED
    BY <1>1, <1>4, <1>5, <1>6 DEF e

LEMMA CoordinatesDrafting ==
  ASSUME CoordinatesIInv, Drafting
  PROVE  CoordinatesIInv'
  <1> USE DraftFits
  <1>1. CASE StartRecord
    <2>1. Sparing(EmptyDraft)
      BY EmptyDraftOK, PagesAssumption DEF Sparing, Range
    <2>2. IsPage(NewPage("photos", None, None)) /\ NewPage("photos", None, None).at = "photos"
      BY HomeOK DEF Pages
    <2>3. QED
      BY <1>1, <2>1, <2>2, ArriveOK DEF StartRecord
  <1>2. CASE PickerOpened
    <2>1. picker' \in Decisions \cup {None}
      BY <1>2 DEF PickerOpened, Drafts
    <2>2. UNCHANGED <<draft, page, config, search, found, closed, late>>
      BY <1>2 DEF PickerOpened
    <2>3. QED
      BY <2>1, <2>2, Parts, PartsPrime DEF Sparing
  <1>3. CASE OpenCompose
    <2>1. IsPage(NewPage("compose", None, None)) /\ NewPage("compose", None, None).at = "compose"
      BY HomeOK DEF Pages
    <2>2. QED
      BY <1>3, <2>1, ArriveOK DEF OpenCompose
  <1>4. CASE ConfirmationAsked
    <2>1. IsPage(NewPage("places", None, None)) /\ NewPage("places", None, None).at = "places"
      BY HomeOK DEF Pages
    <2>2. QED
      BY <1>4, <2>1, ArriveOK DEF ConfirmationAsked
  <1>5. ASSUME NEW p \in Photos, PhotoRemoved(p)
        PROVE  CoordinatesIInv'
    <2>1. /\ page.at = "photos" /\ draft' = removePhoto(draft, p)
          /\ closed' = closed \ {p} /\ late' = late \ {p}
          /\ UNCHANGED <<page, picker, config, search, found>>
      BY <1>5 DEF PhotoRemoved
    <2>2. Sparing(draft)'
      BY <2>1, Removed DEF Sparing
    <2>3. SearchFits(search', draft', page', config')
      BY <2>1, Parts DEF SearchFits
    <2>4. QED
      BY <2>1, <2>2, <2>3, Parts, PartsPrime
  <1>6. ASSUME NEW p \in Photos, OpenInfo(p)
        PROVE  CoordinatesIInv'
    <2> DEFINE d == [draft EXCEPT !.selected = p,
                                  !.gps = IF draft.decision = "nearby" THEN @ ELSE @ \ {p}]
    <2>1. /\ page.at = "places" /\ p \in Range(draft.photos) /\ ArriveAt(NewPage("info", None, None), d)
          /\ found' = <<>> /\ UNCHANGED <<picker, config>>
      BY <1>6 DEF OpenInfo
    <2>2. Sparing(d) /\ d.selected \in Range(d.photos)
      BY <2>1 DEF Sparing, Drafts
    <2>3. IsPage(NewPage("info", None, None)) /\ NewPage("info", None, None).at = "info"
      BY HomeOK DEF Pages
    <2>4. QED
      BY <2>1, <2>2, <2>3, ArriveOK
  <1>7. ASSUME NEW decision \in {"manual", "nearby"}, GoToPlaces(decision)
        PROVE  CoordinatesIInv'
    <2> DEFINE d == IF draft.gps # {} /\ draft.decision # "undecided" THEN draft
                    ELSE decideLocationSearch(draft, decision)
    <2>1. /\ page.at = "photos" /\ ArriveAt(NewPage("places", None, None), d)
          /\ UNCHANGED <<picker, config, found>>
      BY <1>7 DEF GoToPlaces
    <2>2. Sparing(d)
      BY DEF Sparing, Drafts, Decisions, decideLocationSearch
    <2>3. IsPage(NewPage("places", None, None)) /\ NewPage("places", None, None).at = "places"
      BY HomeOK DEF Pages
    <2>4. QED
      BY <2>1, <2>2, <2>3, ArriveOK
  <1>8. ASSUME NEW date \in Dates, DateChosen(date)
        PROVE  CoordinatesIInv'
    <2>1. page.at = "info" /\ draft' = setPhotoDate(draft, date)
          /\ UNCHANGED <<page, picker, config, search, found, closed, late>>
      BY <1>8 DEF DateChosen
    <2>2. selectedPhoto(draft) \in Photos
      BY <2>1, InfoShowsAPhoto
    <2>3. getPhotoDetails(draft, selectedPhoto(draft)) \in PhotoDetails /\ date \in CalendarDates
      BY <2>2, PagesAssumption DEF Drafts, getPhotoDetails, initialPhotoDetails, PhotoDetails
    <2>4. [getPhotoDetails(draft, selectedPhoto(draft)) EXCEPT !.date = date] \in PhotoDetails
      BY <2>3 DEF PhotoDetails
    <2>5. /\ draft' \in Drafts /\ draft'.photos = draft.photos /\ draft'.gps = draft.gps
          /\ draft'.decision = draft.decision /\ draft'.selected = draft.selected
      BY <2>1, <2>2, <2>4 DEF setPhotoDate, Drafts
    <2>6. Sparing(draft)' /\ SearchFits(search', draft', page', config')
      BY <2>1, <2>5, Parts DEF Sparing, SearchFits, selectedPhoto
    <2>7. QED
      BY <2>1, <2>5, <2>6, Parts, PartsPrime
  <1>9. ASSUME NEW mode \in {"nearby", "keyword", "area"}, ModeChosen(mode)
        PROVE  CoordinatesIInv'
    <2> DEFINE S == IF mode = "nearby" THEN {} ELSE {selectedPhoto(draft)}
    <2>1. /\ page.at = "info" /\ page' = [page EXCEPT !.mode = mode]
          /\ draft' = IF mode = "nearby" THEN draft ELSE discardTransientGps(draft, {selectedPhoto(draft)})
          /\ closed' = closed \cup S
          /\ search' = Started(draft', page', config)
          /\ UNCHANGED <<picker, config, found, late>>
      BY <1>9 DEF ModeChosen
    <2>2. selectedPhoto(draft) \in Photos
      BY <2>1, InfoShowsAPhoto
    <2>3. /\ draft' \in Drafts /\ draft'.photos = draft.photos /\ draft'.gps = draft.gps \ S
          /\ draft'.decision = draft.decision /\ draft'.selected = draft.selected
      BY <2>1, Discarded
    <2>4. Sparing(draft)' /\ closed' \subseteq Photos
      BY <2>1, <2>2, <2>3, Parts DEF Sparing
    <2>5. SearchFits(search', draft', page', config')
      BY <2>1, <2>3, StartedFits
    <2>6. IsPage(page)' /\ page'.at = "info"
      BY <2>1 DEF IsPage, Modes
    <2>7. QED
      BY <2>1, <2>3, <2>4, <2>5, <2>6, Parts, PartsPrime
  <1>10. ASSUME NEW place \in Range(found) \cup Searched("keyword") \cup Searched("area"),
                page.at = "info", PlaceChosen(place)
         PROVE  CoordinatesIInv'
    <2> DEFINE p == selectedPhoto(draft)
               e == setPhotoPlace(draft, place)
    <2>1. /\ draft' = discardTransientGps(e, {p}) /\ closed' = closed \cup {p} /\ search' = None
          /\ UNCHANGED <<page, picker, config, found, late>>
      BY <1>10 DEF PlaceChosen
    <2>2. p \in Photos
      BY <1>10, InfoShowsAPhoto
    <2>3. place \in OfferedPlaces
      BY SearchedPlaces, Parts DEF FoundFits, Range
    <2>4. getPhotoDetails(draft, p) \in PhotoDetails
      BY <2>2, PagesAssumption DEF Drafts, getPhotoDetails, initialPhotoDetails, PhotoDetails
    <2>5. [getPhotoDetails(draft, p) EXCEPT !.place = place] \in PhotoDetails
      BY <2>3, <2>4 DEF PhotoDetails
    <2>6. /\ e \in Drafts /\ e.photos = draft.photos /\ e.gps = draft.gps
          /\ e.decision = draft.decision /\ e.selected = draft.selected
      <3> DEFINE x == [getPhotoDetails(draft, p) EXCEPT !.place = place]
      <3>1. e = [draft EXCEPT !.details[p] = x]
        BY DEF setPhotoPlace
      <3> HIDE DEF x, p, e
      <3>2. QED
        BY <2>2, <2>5, <3>1 DEF Drafts, x
    <2>7. /\ draft' \in Drafts /\ draft'.photos = draft.photos /\ draft'.gps = draft.gps \ {p}
          /\ draft'.decision = draft.decision /\ draft'.selected = draft.selected
      <3> HIDE DEF e, p
      <3>1. QED
        BY <2>1, <2>6, Discarded
    <2> HIDE DEF p, e
    <2>8. Sparing(draft)' /\ closed' \subseteq Photos
      BY <2>1, <2>2, <2>7, Parts DEF Sparing
    <2>9. SearchFits(search', draft', page', config')
      BY <2>1 DEF SearchFits
    <2>10. QED
      BY <2>1, <2>7, <2>8, <2>9, Parts, PartsPrime
  <1>11. ASSUME NEW r \in Records, NEW notes, SaveSubmitted(r, notes)
         PROVE  CoordinatesIInv'
    <2>1. /\ page.at = "compose" /\ draft' = discardTransientGps(draft, Photos)
          /\ closed' = Range(draft.photos) /\ UNCHANGED <<page, picker, config, search, found, late>>
      BY <1>11 DEF SaveSubmitted
    <2>2. /\ draft' \in Drafts /\ draft'.photos = draft.photos /\ draft'.gps = draft.gps \ Photos
          /\ draft'.decision = draft.decision /\ draft'.selected = draft.selected
      BY <2>1, Discarded
    <2>3. draft'.gps = {} /\ closed' \subseteq Photos
      BY <2>1, <2>2 DEF Drafts, Range
    <2>4. Sparing(draft)' /\ SearchFits(search', draft', page', config')
      BY <2>1, <2>2, <2>3, Parts DEF Sparing, SearchFits
    <2>5. QED
      BY <2>1, <2>2, <2>3, <2>4, Parts, PartsPrime
  <1>12. QED
    BY <1>1, <1>2, <1>3, <1>4, <1>5, <1>6, <1>7, <1>8, <1>9, <1>10, <1>11 DEF Drafting

LEMMA CoordinatesEditing ==
  ASSUME CoordinatesIInv, Editing
  PROVE  CoordinatesIInv'
  <1> USE DraftFits
  <1> DEFINE Saves == page' = [page EXCEPT !.saving = TRUE] /\ UNCHANGED <<drafting, config>>
  <1>1. ASSUME NEW r \in Records, OpenRecord(r)
        PROVE  CoordinatesIInv'
    <2>1. IsPage(NewPage("detail", r, None)) /\ NewPage("detail", r, None).at = "detail"
      BY HomeOK DEF Pages
    <2>2. page.at = "home"
      BY <1>1 DEF OpenRecord
    <2>3. QED
      BY <1>1, <2>1, <2>2, ArriveOK DEF OpenRecord
  <1>2. CASE OpenEdit
    <2>1. LET new == NewPage("edit", page.record, None) IN IsPage(new) /\ new.at = "edit"
      BY HomeOK DEF Pages
    <2>2. page.at = "detail"
      BY <1>2 DEF OpenEdit
    <2>3. QED
      BY <1>2, <2>1, <2>2, ArriveOK DEF OpenEdit
  <1>3. ASSUME NEW visit, OpenPlaceEdit(visit)
        PROVE  CoordinatesIInv'
    <2>1. LET new == NewPage("placeEdit", page.record, visit.id) IN IsPage(new) /\ new.at = "placeEdit"
      BY HomeOK DEF Pages
    <2>2. page.at = "detail"
      BY <1>3 DEF OpenPlaceEdit
    <2>3. QED
      BY <1>3, <2>1, <2>2, ArriveOK DEF OpenPlaceEdit
  <1>4. ASSUME Saves
        PROVE  CoordinatesIInv'
    <2>1. page'.saving \in BOOLEAN /\ page' = [page EXCEPT !.saving = page'.saving]
      BY <1>4, Parts DEF IsPage
    <2>2. QED
      BY <1>4, <2>1, DraftStays
  <1>5. CASE RecordDeleteSubmitted
    BY <1>4, <1>5 DEF RecordDeleteSubmitted, Submitted
  <1>6. ASSUME NEW notes, EditSubmitted(notes)
        PROVE  CoordinatesIInv'
    BY <1>4, <1>6 DEF EditSubmitted, Submitted
  <1>7. ASSUME NEW date, NEW place, PlaceEditSubmitted(date, place)
        PROVE  CoordinatesIInv'
    BY <1>4, <1>7 DEF PlaceEditSubmitted, Submitted
  <1>8. ASSUME NEW day, NEW photo, DeleteAsked(day, photo)
        PROVE  CoordinatesIInv'
    BY <1>8, DraftStays DEF DeleteAsked
  <1>9. QED
    BY <1>1, <1>2, <1>3, <1>5, <1>6, <1>7, <1>8 DEF Editing

LEMMA CoordinatesElsewhere ==
  ASSUME CoordinatesIInv, QueueOK, Elsewhere
  PROVE  CoordinatesIInv'
  <1> USE DraftFits
  <1>1. CASE PickerClosed
    <2>1. picker' = None /\ UNCHANGED <<draft, page, config, search, found, closed, late>>
      BY <1>1 DEF PickerClosed
    <2>2. Sparing(draft)' /\ SearchFits(search', draft', page', config')
      BY <2>1, Parts DEF Sparing, SearchFits
    <2>3. QED
      BY <2>1, <2>2, Parts, PartsPrime
  <1>2. CASE SearchWidens
    <2>1. search # None /\ search' = [search EXCEPT !.wide = TRUE]
          /\ UNCHANGED <<draft, page, picker, config, found, closed, late>>
      BY <1>2 DEF SearchWidens
    <2>2. Sparing(draft)' /\ SearchFits(search', draft', page', config')
      BY <2>1, Parts DEF Sparing, SearchFits
    <2>3. QED
      BY <2>1, <2>2, Parts, PartsPrime
  <1>3. CASE RecordRead \/ \E r \in Records : CopyForgotten(r)
    BY <1>3, DraftStays DEF RecordRead, CopyForgotten
  <1>4. ASSUME NEW assets \in Picks, PhotosPicked(assets)
        PROVE  CoordinatesIInv'
    <2> DEFINE new == Range(assets) \ Range(draft.photos)
    <2>1. /\ draft' = addPhotosFromLibrary(draft, assets, picker) /\ picker' = None
          /\ closed' = closed \ new
          /\ late' = IF draft.decision = "manual" /\ picker # "manual" THEN late \cup new ELSE late \ new
          /\ UNCHANGED <<page, config, search, found>>
      BY <1>4 DEF PhotosPicked
    <2>2. assets \in Seq(Photos) /\ Range(assets) \subseteq Photos
      BY PicksAreLists DEF Range
    <2>3. /\ draft' \in Drafts /\ Len(draft'.photos) <= MaxPhotos
          /\ Range(draft.photos) \subseteq Range(draft'.photos)
          /\ draft'.gps \subseteq Range(draft'.photos) \cap Located
          /\ draft'.gps \subseteq IF picker = "manual" THEN draft.gps ELSE draft.gps \cup new
          /\ draft'.decision = draft.decision /\ draft'.selected = draft.selected
      BY <2>1, <2>2, Added
    <2>4. draft.gps \subseteq draft'.gps
      BY <2>1 DEF addPhotosFromLibrary, Drafts
    <2> HIDE DEF new
    <2>5. draft.gps \cap new = {} /\ draft.gps \cap closed = {} /\ closed' \cap new = {}
          /\ closed' \subseteq closed
      BY <2>1 DEF Sparing, new
    <2>6. Sparing(draft)'
      BY <2>1, <2>3, <2>5 DEF Sparing
    <2>7. SearchFits(search', draft', page', config')
      <3>1. search # None => page.at = "info" /\ draft.selected \in Range(draft.photos)
        BY Parts DEF SearchFits
      <3>2. search # None => selectedPhoto(draft') = selectedPhoto(draft)
        BY <2>3, <3>1 DEF selectedPhoto
      <3>3. QED
        BY <2>1, <2>3, <2>4, <3>2, Parts DEF SearchFits
    <2>8. closed' \subseteq Photos /\ late' \subseteq Photos
      BY <2>1, <2>2, Parts DEF new
    <2>9. QED
      BY <2>1, <2>3, <2>6, <2>7, <2>8, Parts, PartsPrime
  <1>5. ASSUME NEW c \in Configs, ConfigSettles(c)
        PROVE  CoordinatesIInv'
    <2>1. /\ config' = c /\ search' = Started(draft, page, c)
          /\ found' = IF search' # None THEN <<>> ELSE found
          /\ UNCHANGED <<draft, page, picker, closed, late>>
      BY <1>5 DEF ConfigSettles
    <2>2. SearchFits(search', draft', page', config')
      BY <2>1, StartedFits
    <2>3. Sparing(draft)' /\ FoundFits(found')
      BY <2>1 DEF Sparing
    <2>4. QED
      BY <2>1, <2>2, <2>3, Parts, PartsPrime
  <1>6. ASSUME NEW end, SearchEnds(end)
        PROVE  CoordinatesIInv'
    <2>1. /\ search # None /\ search' = None
          /\ found' = IF end = "ok" THEN toCandidates(Nearby, "GPS_CANDIDATE") ELSE <<>>
          /\ draft' = discardTransientGps(draft, {search.photo})
          /\ closed' = closed \cup {search.photo}
          /\ UNCHANGED <<page, picker, config, late>>
      BY <1>6 DEF SearchEnds
    <2>2. search.photo \in Photos /\ config \in Configs
      BY <2>1, Parts DEF SearchFits
    <2>3. Nearby \in Seq(DOMAIN KtoItems)
      <3>1. config.maxRadiusM \in Nat /\ config.defaultRadiusM \in Nat
        BY <2>2, ConfigType
      <3>2. QED
        BY <2>2, <3>1, NearbyList DEF Nearby
    <2>4. FoundFits(found')
      BY <2>1, <2>3, CandidateList DEF FoundFits
    <2>5. /\ draft' \in Drafts /\ draft'.photos = draft.photos /\ draft'.gps = draft.gps \ {search.photo}
          /\ draft'.decision = draft.decision /\ draft'.selected = draft.selected
      BY <2>1, Discarded
    <2>6. Sparing(draft)' /\ SearchFits(search', draft', page', config') /\ closed' \subseteq Photos
      BY <2>1, <2>2, <2>5, Parts DEF Sparing, SearchFits
    <2>7. QED
      BY <2>1, <2>4, <2>5, <2>6, Parts, PartsPrime
  <1>7. ASSUME NEW s \in saves, SaveStored(s)
        PROVE  CoordinatesIInv'
    <2> DEFINE new == NewPage("detail", s.record, None)
    <2>1. ArriveAt(new, EmptyDraft) /\ UNCHANGED <<picker, config, found>>
      BY <1>7 DEF SaveStored
    <2>2. Sparing(EmptyDraft)
      BY EmptyDraftOK, PagesAssumption DEF Sparing, Range
    <2>3. IsPage(new) /\ new.at = "detail" /\ new.at \notin DraftPages
      BY HomeOK DEF Pages, DraftPages
    <2> HIDE DEF new
    <2>4. QED
      BY <2>1, <2>2, <2>3, ArriveOK
  <1>8. ASSUME NEW s \in saves, SaveFails(s)
        PROVE  CoordinatesIInv'
    BY <1>8, DraftStays DEF SaveFails
  <1>9. ASSUME NEW k \in DOMAIN writes, WriteCommits(k)
        PROVE  CoordinatesIInv'
    BY <1>9, DraftStays DEF WriteCommits
  <1>10. ASSUME NEW k \in DOMAIN writes, WriteFails(k)
         PROVE  CoordinatesIInv'
    <2>1. page' = [page EXCEPT !.saving = page.saving /\ writes[k].left] /\ UNCHANGED <<drafting, config>>
      BY <1>10 DEF WriteFails
    <2>2. page'.saving \in BOOLEAN /\ page' = [page EXCEPT !.saving = page'.saving]
      BY <2>1, Parts DEF IsPage
    <2>3. QED
      BY <2>1, <2>2, DraftStays
  <1>11. ASSUME NEW k \in DOMAIN writes, WriteSettles(k)
         PROVE  CoordinatesIInv'
    <2> DEFINE w == writes[k]  new == NextPage(w)
    <2>1. IF w.op = "photo" THEN UNCHANGED <<page, draft, closed, late, search>> ELSE ArriveAt(new, draft)
      BY <1>11 DEF WriteSettles
    <2>2. UNCHANGED <<picker, config, found>>
      BY <1>11 DEF WriteSettles
    <2>3. CASE w.op = "photo"
      BY <2>1, <2>2, <2>3, DraftStays DEF drafting
    <2>4. CASE w.op # "photo" /\ w.op \in {"record", "notes", "place"}
      <3>1. IsPage(Home) /\ Home.at = "home"
        BY HomeOK DEF Home, Pages
      <3>2. LET p == NewPage("detail", w.record, None) IN IsPage(p) /\ p.at = "detail"
        BY HomeOK DEF Pages
      <3>3. page.at # "home" => IsPage(Below(page)) /\ Below(page).at # "info"
        BY BelowOK, Parts DEF IsPage
      <3>4. IsPage(new) /\ new.at # "info"
        BY <2>4, <3>1, <3>2, <3>3 DEF NextPage
      <3> HIDE DEF new, w
      <3>5. QED
        BY <2>1, <2>2, <2>4, <3>4, ArriveOK
    <2>5. w.op \in {"notes", "place", "photo", "record"}
      BY DEF QueueOK, Range, Ops
    <2>6. QED
      BY <2>3, <2>4, <2>5
  <1>12. ASSUME NEW confirmed \in BOOLEAN, DeleteAnswered(confirmed)
         PROVE  CoordinatesIInv'
    BY <1>12, DraftStays DEF DeleteAnswered, Submitted
  <1>13. QED
    BY <1>1, <1>2, <1>3, <1>4, <1>5, <1>6, <1>7, <1>8, <1>9, <1>10, <1>11, <1>12 DEF Elsewhere

LEMMA CoordinatesBack ==
  ASSUME CoordinatesIInv, Back
  PROVE  CoordinatesIInv'
  <1>1. IsPage(Below(page)) /\ Below(page).at \in {"home", "photos", "places", "detail"}
    BY BelowOK, Parts DEF IsPage, Back
  <1>2. Below(page).at # "info" /\ ArriveAt(Below(page), draft) /\ UNCHANGED <<picker, config, found>>
    BY <1>1 DEF Back
  <1>3. QED
    BY <1>1, <1>2, DraftFits, ArriveOK

LEMMA CoordinatesInit == Init => CoordinatesIInv
  <1> SUFFICES ASSUME Init PROVE CoordinatesIInv
    OBVIOUS
  <1>1. Sparing(EmptyDraft)
    BY EmptyDraftOK, PagesAssumption DEF Sparing, Range
  <1>2. IsPage(Home) /\ Home.at = "home"
    BY HomeOK DEF Home, Pages
  <1>3. FoundFits(<<>>)
    BY DEF FoundFits
  <1>4. QED
    BY <1>1, <1>2, <1>3, Parts DEF Init, SearchFits

(***************************************************************************)
(* The queue of changes.                                                   *)
(***************************************************************************)
LEMMA Removal ==
  ASSUME NEW T, NEW s \in Seq(T), NEW k \in DOMAIN s
  PROVE  /\ RemoveAt(s, k) \in Seq(T) /\ Len(RemoveAt(s, k)) = Len(s) - 1
         /\ \A j \in 1..(Len(s) - 1) : RemoveAt(s, k)[j] = s[IF j < k THEN j ELSE j + 1]
         /\ Range(RemoveAt(s, k)) \subseteq Range(s)
  <1> DEFINE a == SubSeq(s, 1, k - 1)
             b == SubSeq(s, k + 1, Len(s))
             n == Len(s)
  <1>1. n \in Nat /\ k \in 1..n /\ DOMAIN s = 1..n
    OBVIOUS
  <1>2. a \in Seq(T) /\ Len(a) = k - 1 /\ \A j \in 1..(k - 1) : a[j] = s[j]
    BY <1>1
  <1>3. b \in Seq(T) /\ Len(b) = n - k /\ \A j \in 1..(n - k) : b[j] = s[j + k]
    BY <1>1
  <1>4. RemoveAt(s, k) = a \o b
    BY DEF RemoveAt
  <1> HIDE DEF a, b, n
  <1>5. /\ a \o b \in Seq(T) /\ Len(a \o b) = n - 1
        /\ \A j \in 1..(n - 1) : (a \o b)[j] = IF j <= k - 1 THEN a[j] ELSE b[j - (k - 1)]
    BY <1>1, <1>2, <1>3
  <1>6. ASSUME NEW j \in 1..(n - 1)
        PROVE  (a \o b)[j] = s[IF j < k THEN j ELSE j + 1]
    <2>1. CASE j < k
      BY <1>1, <1>2, <1>5, <2>1
    <2>2. CASE ~(j < k)
      <3>1. j - (k - 1) \in 1..(n - k) /\ j - (k - 1) + k = j + 1
        BY <1>1, <2>2
      <3>2. QED
        BY <1>1, <1>3, <1>5, <2>2, <3>1
    <2>3. QED
      BY <2>1, <2>2
  <1>7. Range(RemoveAt(s, k)) \subseteq Range(s)
    <2>1. ASSUME NEW j \in 1..(n - 1)
          PROVE  (a \o b)[j] \in Range(s)
      <3>1. (IF j < k THEN j ELSE j + 1) \in 1..n
        BY <1>1
      <3>2. QED
        BY <1>1, <1>6, <3>1 DEF Range
    <2>2. DOMAIN (a \o b) = 1..(n - 1)
      BY <1>1, <1>5
    <2>3. QED
      BY <1>4, <2>1, <2>2 DEF Range
  <1>8. QED
    BY <1>4, <1>5, <1>6, <1>7 DEF n

\* A change as the queue holds it.
IsWrite(w) ==
    /\ w = [record |-> w.record, op |-> w.op, of |-> w.of, days |-> w.days, copy |-> w.copy,
            behind |-> w.behind, done |-> w.done, left |-> w.left]
    /\ w.op \in Ops /\ {w.behind, w.done, w.left} \subseteq BOOLEAN

IsQueue(s) == s \in Seq(Range(s)) /\ \A w \in Range(s) : IsWrite(w)

LEMMA Queue == QueueOK <=> IsQueue(writes)
  BY DEF QueueOK, IsQueue, IsWrite

LEMMA QueueByIndex ==
  ASSUME NEW s, NEW n \in Nat, s = [k \in 1..n |-> s[k]], \A k \in 1..n : IsWrite(s[k])
  PROVE  IsQueue(s) /\ Len(s) = n /\ DOMAIN s = 1..n
  <1>1. DOMAIN s = 1..n /\ Range(s) = {s[k] : k \in 1..n}
    BY DEF Range
  <1>2. s \in [1..n -> Range(s)]
    BY <1>1
  <1>3. s \in Seq(Range(s)) /\ Len(s) = n
    BY <1>2
  <1>4. QED
    BY <1>1, <1>3 DEF IsQueue

LEMMA QueueIndexed ==
  ASSUME NEW s, IsQueue(s)
  PROVE  /\ Len(s) \in Nat /\ DOMAIN s = 1..Len(s) /\ s = [k \in 1..Len(s) |-> s[k]]
         /\ \A k \in 1..Len(s) : IsWrite(s[k])
  BY DEF IsQueue, Range

LEMMA UnattendedQueue ==
  ASSUME NEW s, IsQueue(s)
  PROVE  LET t == UnattendedSeq(s)
         IN  /\ IsQueue(t) /\ Len(t) = Len(s)
             /\ \A k \in 1..Len(s) :
                   /\ t[k].left /\ t[k].record = s[k].record /\ t[k].op = s[k].op /\ t[k].of = s[k].of
                   /\ t[k].days = s[k].days /\ t[k].copy = s[k].copy
                   /\ t[k].behind = s[k].behind /\ t[k].done = s[k].done
             /\ (\A k \in 1..Len(s) : s[k].left) => t = s
  <1> DEFINE t == UnattendedSeq(s)
  <1>1. /\ Len(s) \in Nat /\ DOMAIN s = 1..Len(s) /\ s = [k \in 1..Len(s) |-> s[k]]
        /\ \A k \in 1..Len(s) : IsWrite(s[k])
    BY QueueIndexed
  <1>2. t = [k \in 1..Len(s) |-> [s[k] EXCEPT !.left = TRUE]]
    BY <1>1 DEF UnattendedSeq
  <1>3. ASSUME NEW k \in 1..Len(s)
        PROVE  /\ IsWrite(t[k])
               /\ t[k].left /\ t[k].record = s[k].record /\ t[k].op = s[k].op /\ t[k].of = s[k].of
               /\ t[k].days = s[k].days /\ t[k].copy = s[k].copy
               /\ t[k].behind = s[k].behind /\ t[k].done = s[k].done
               /\ s[k].left => t[k] = s[k]
    <2>1. t[k] = [s[k] EXCEPT !.left = TRUE] /\ IsWrite(s[k])
      BY <1>1, <1>2
    <2> HIDE DEF t
    <2>2. QED
      BY <2>1 DEF IsWrite
  <1>4. t = [k \in 1..Len(s) |-> t[k]]
    BY <1>2
  <1>5. IsQueue(t) /\ Len(t) = Len(s)
    BY <1>1, <1>3, <1>4, QueueByIndex
  <1>6. (\A k \in 1..Len(s) : s[k].left) => t = s
    <2> HIDE DEF t
    <2>1. QED
      BY <1>1, <1>3, <1>4
  <1>7. QED
    BY <1>3, <1>5, <1>6

LEMMA AppendedQueue ==
  ASSUME NEW s, IsQueue(s), NEW w, IsWrite(w)
  PROVE  /\ IsQueue(Append(s, w)) /\ Len(Append(s, w)) = Len(s) + 1
         /\ \A k \in 1..Len(s) : Append(s, w)[k] = s[k]
         /\ Append(s, w)[Len(s) + 1] = w
  <1> DEFINE T == Range(s) \cup {w}
             t == Append(s, w)
             n == Len(s)
  <1>1. n \in Nat /\ \A k \in 1..n : IsWrite(s[k])
    BY QueueIndexed
  <1>2. s \in Seq(T) /\ w \in T
    BY DEF IsQueue
  <1>3. t \in Seq(T) /\ Len(t) = n + 1 /\ t[n + 1] = w /\ \A k \in 1..n : t[k] = s[k]
    <2> HIDE DEF T
    <2>1. QED
      BY <1>2
  <1> HIDE DEF t, T, n
  <1>4. t = [k \in 1..(n + 1) |-> t[k]] /\ \A k \in 1..(n + 1) : k \in 1..n \/ k = n + 1
    BY <1>1, <1>3
  <1>5. \A k \in 1..(n + 1) : IsWrite(t[k])
    BY <1>1, <1>3, <1>4
  <1>6. n + 1 \in Nat
    BY <1>1
  <1>7. IsQueue(t)
    BY <1>4, <1>5, <1>6, QueueByIndex
  <1>8. QED
    BY <1>3, <1>7 DEF t, n

LEMMA ShortenedQueue ==
  ASSUME NEW s, IsQueue(s), NEW k \in DOMAIN s
  PROVE  LET t == RemoveAt(s, k)
         IN  /\ IsQueue(t) /\ Len(t) = Len(s) - 1
             /\ \A j \in 1..Len(t) : t[j] = s[IF j < k THEN j ELSE j + 1]
                                     /\ (IF j < k THEN j ELSE j + 1) \in 1..Len(s)
  <1> DEFINE t == RemoveAt(s, k)
             n == Len(s) - 1
             T == Range(s)
  <1>1. Len(s) \in Nat /\ DOMAIN s = 1..Len(s) /\ \A j \in 1..Len(s) : IsWrite(s[j])
    BY QueueIndexed
  <1>2. s \in Seq(T)
    BY DEF IsQueue
  <1>3. t \in Seq(T) /\ Len(t) = n /\ \A j \in 1..n : t[j] = s[IF j < k THEN j ELSE j + 1]
    BY <1>2, Removal
  <1> HIDE DEF t
  <1>4. n \in Nat /\ \A j \in 1..n : (IF j < k THEN j ELSE j + 1) \in 1..Len(s)
    BY <1>1
  <1>5. t = [j \in 1..n |-> t[j]]
    BY <1>3
  <1>6. \A j \in 1..n : IsWrite(t[j])
    BY <1>1, <1>3, <1>4
  <1> HIDE DEF n
  <1>7. IsQueue(t)
    BY <1>4, <1>5, <1>6, QueueByIndex
  <1>8. QED
    BY <1>3, <1>4, <1>7 DEF t, n

\* Queue t is queue s with change k done.
Commits(t, s, k) ==
    /\ IsQueue(t) /\ Len(t) = Len(s)
    /\ \A j \in 1..Len(s) :
          /\ t[j].left = s[j].left /\ t[j].record = s[j].record /\ t[j].op = s[j].op
          /\ t[j].of = s[j].of /\ t[j].days = s[j].days /\ t[j].copy = s[j].copy
          /\ t[j].behind = s[j].behind /\ (t[j].done <=> s[j].done \/ j = k)

LEMMA CommittedQueue ==
  ASSUME NEW s, IsQueue(s), NEW k \in DOMAIN s
  PROVE  Commits([s EXCEPT ![k].done = TRUE], s, k)
  <1> DEFINE t == [s EXCEPT ![k].done = TRUE]
  <1>1. /\ Len(s) \in Nat /\ DOMAIN s = 1..Len(s) /\ s = [j \in 1..Len(s) |-> s[j]]
        /\ \A j \in 1..Len(s) : IsWrite(s[j])
    BY QueueIndexed
  <1>2. t = [j \in 1..Len(s) |-> IF j = k THEN [s[k] EXCEPT !.done = TRUE] ELSE s[j]]
    BY <1>1
  <1>3. ASSUME NEW j \in 1..Len(s)
        PROVE  /\ IsWrite(t[j])
               /\ t[j].left = s[j].left /\ t[j].record = s[j].record /\ t[j].op = s[j].op
               /\ t[j].of = s[j].of /\ t[j].days = s[j].days /\ t[j].copy = s[j].copy
               /\ t[j].behind = s[j].behind /\ (t[j].done <=> s[j].done \/ j = k)
    <2>1. t[j] = (IF j = k THEN [s[k] EXCEPT !.done = TRUE] ELSE s[j]) /\ IsWrite(s[j])
      BY <1>1, <1>2
    <2> HIDE DEF t
    <2>2. CASE j = k
      BY <2>1, <2>2 DEF IsWrite
    <2>3. CASE j # k
      BY <2>1, <2>3 DEF IsWrite
    <2>4. QED
      BY <2>2, <2>3
  <1>4. t = [j \in 1..Len(s) |-> t[j]]
    BY <1>2
  <1> HIDE DEF t
  <1>5. IsQueue(t) /\ Len(t) = Len(s)
    BY <1>1, <1>3, <1>4, QueueByIndex
  <1>6. Commits(t, s, k)
    BY <1>3, <1>5 DEF Commits
  <1>7. QED
    BY <1>6 DEF t

LEMMA IsWriteWrite ==
  ASSUME NEW r, NEW op \in Ops, NEW of, NEW days, NEW copy, NEW behind \in BOOLEAN, NEW left \in BOOLEAN
  PROVE  LET w == Write(r, op, of, days, copy, behind)
             v == [w EXCEPT !.left = left]
         IN  /\ IsWrite(w) /\ ~w.left /\ ~w.done
             /\ w.record = r /\ w.op = op /\ w.of = of /\ w.days = days /\ w.copy = copy
             /\ w.behind = behind
             /\ IsWrite(v) /\ v.left = left /\ ~v.done
             /\ v.record = r /\ v.op = op /\ v.of = of /\ v.days = days /\ v.copy = copy
             /\ v.behind = behind
  <1> DEFINE w == Write(r, op, of, days, copy, behind)
             v == [w EXCEPT !.left = left]
  <1>1. w = [record |-> r, op |-> op, of |-> of, days |-> days, copy |-> copy,
             behind |-> behind, done |-> FALSE, left |-> FALSE]
    BY DEF Write
  <1> HIDE DEF w
  <1>2. IsWrite(w) /\ ~w.left /\ ~w.done
    BY <1>1 DEF IsWrite
  <1>3. /\ IsWrite(v) /\ v.left = left /\ v.done = w.done
        /\ v.record = w.record /\ v.op = w.op /\ v.of = w.of /\ v.days = w.days
        /\ v.copy = w.copy /\ v.behind = w.behind
    BY <1>2 DEF IsWrite
  <1> HIDE DEF v
  <1>4. /\ w.record = r /\ w.op = op /\ w.of = of /\ w.days = days /\ w.copy = copy
        /\ w.behind = behind
    BY <1>1
  <1>5. QED
    BY <1>2, <1>3, <1>4 DEF w, v

NewWrite(w, r, op, of, days, copy, behind) ==
    /\ IsWrite(w) /\ ~w.left /\ ~w.done
    /\ w.record = r /\ w.op = op /\ w.of = of /\ w.days = days /\ w.copy = copy /\ w.behind = behind

LEMMA IsNewWrite ==
  ASSUME NEW r, NEW op \in Ops, NEW of, NEW days, NEW copy, NEW behind \in BOOLEAN
  PROVE  NewWrite(Write(r, op, of, days, copy, behind), r, op, of, days, copy, behind)
  <1>1. PICK w : w = Write(r, op, of, days, copy, behind)
    OBVIOUS
  <1>2. w = [record |-> r, op |-> op, of |-> of, days |-> days, copy |-> copy,
             behind |-> behind, done |-> FALSE, left |-> FALSE]
    BY <1>1 DEF Write
  <1>3. NewWrite(w, r, op, of, days, copy, behind)
    BY <1>2 DEF NewWrite, IsWrite
  <1>4. QED
    BY <1>1, <1>3

LEMMA QueueDrafting ==
  ASSUME Drafting
  PROVE  writes' = writes
  <1> USE DEF changing
  <1>1. (StartRecord \/ PickerOpened \/ OpenCompose \/ ConfirmationAsked) => writes' = writes
    BY DEF StartRecord, PickerOpened, OpenCompose, ConfirmationAsked
  <1>2. \A p : PhotoRemoved(p) \/ OpenInfo(p) => writes' = writes
    BY DEF PhotoRemoved, OpenInfo
  <1>3. \A d : GoToPlaces(d) \/ DateChosen(d) \/ ModeChosen(d) \/ PlaceChosen(d) => writes' = writes
    BY DEF GoToPlaces, DateChosen, ModeChosen, PlaceChosen
  <1>4. \A r, notes : SaveSubmitted(r, notes) => writes' = writes
    BY DEF SaveSubmitted
  <1>5. QED
    BY <1>1, <1>2, <1>3, <1>4 DEF Drafting

LEMMA QueueStep ==
  ASSUME QueueOK, [Next]_vars
  PROVE  QueueOK'
  <1>0. IsQueue(writes)
    BY Queue
  <1> SUFFICES IsQueue(writes')
    BY DEF QueueOK, IsQueue, IsWrite
  <1>1. CASE UNCHANGED vars
    BY <1>0, <1>1 DEF vars
  <1>2. CASE Drafting
    BY <1>0, <1>2, QueueDrafting
  <1>3. CASE Back
    BY <1>0, <1>3, UnattendedQueue DEF Back
  <1>4. CASE Editing
    <2>1. ASSUME NEW r, OpenRecord(r) PROVE IsQueue(writes')
      BY <1>0, <2>1 DEF OpenRecord, changing
    <2>2. CASE OpenEdit
      BY <1>0, <2>2, UnattendedQueue DEF OpenEdit
    <2>3. ASSUME NEW visit, OpenPlaceEdit(visit) PROVE IsQueue(writes')
      BY <1>0, <2>3, UnattendedQueue DEF OpenPlaceEdit
    <2>4. ASSUME NEW op \in Ops, NEW of, NEW days,
                 Submitted(Write(page.record, op, of, days, localRecord, MayBeBehind(page.record)))
          PROVE  IsQueue(writes')
      <3>1. IsWrite(Write(page.record, op, of, days, localRecord, MayBeBehind(page.record)))
        BY IsWriteWrite DEF MayBeBehind, Overlapping
      <3>2. QED
        BY <1>0, <2>4, <3>1, AppendedQueue DEF Submitted
    <2>5. CASE RecordDeleteSubmitted
      BY <2>4, <2>5 DEF RecordDeleteSubmitted, Ops
    <2>6. ASSUME NEW notes, EditSubmitted(notes) PROVE IsQueue(writes')
      BY <2>4, <2>6 DEF EditSubmitted, Ops
    <2>7. ASSUME NEW date, NEW place, PlaceEditSubmitted(date, place) PROVE IsQueue(writes')
      BY <2>4, <2>7 DEF PlaceEditSubmitted, Ops
    <2>8. ASSUME NEW day, NEW photo, DeleteAsked(day, photo) PROVE IsQueue(writes')
      BY <1>0, <2>8 DEF DeleteAsked
    <2>9. QED
      BY <1>4, <2>1, <2>2, <2>3, <2>5, <2>6, <2>7, <2>8 DEF Editing
  <1>5. CASE Elsewhere
    <2> USE DEF changing
    <2>1. CASE PickerClosed \/ SearchWidens
      BY <1>0, <2>1 DEF PickerClosed, SearchWidens
    <2>2. CASE RecordRead \/ \E r \in Records : CopyForgotten(r)
      BY <1>0, <2>2 DEF RecordRead, CopyForgotten
    <2>3. ASSUME NEW x, PhotosPicked(x) \/ ConfigSettles(x) \/ SearchEnds(x) PROVE IsQueue(writes')
      BY <1>0, <2>3 DEF PhotosPicked, ConfigSettles, SearchEnds
    <2>4. ASSUME NEW s, SaveStored(s) PROVE IsQueue(writes')
      BY <1>0, <2>4, UnattendedQueue DEF SaveStored
    <2>5. ASSUME NEW s, SaveFails(s) PROVE IsQueue(writes')
      BY <1>0, <2>5 DEF SaveFails
    <2>6. ASSUME NEW k \in DOMAIN writes, WriteCommits(k) PROVE IsQueue(writes')
      BY <1>0, <2>6, CommittedQueue DEF WriteCommits, Commits
    <2>7. ASSUME NEW k \in DOMAIN writes, WriteFails(k) PROVE IsQueue(writes')
      BY <1>0, <2>7, ShortenedQueue DEF WriteFails
    <2>8. ASSUME NEW k \in DOMAIN writes, WriteSettles(k) PROVE IsQueue(writes')
      <3>1. IsQueue(RemoveAt(writes, k))
        BY <1>0, ShortenedQueue
      <3>2. QED
        BY <2>8, <3>1, UnattendedQueue DEF WriteSettles
    <2>9. ASSUME NEW confirmed \in BOOLEAN, DeleteAnswered(confirmed) PROVE IsQueue(writes')
      <3> DEFINE days == removeRecordPhoto(alert.copy, alert.day, alert.photo)
                 op == IF days = <<>> THEN "record" ELSE "photo"
                 behind == alert.behind \/ Overlapping(alert.record)
                 left == page.at # "detail" \/ page.record # alert.record
                 w == [Write(alert.record, op, alert.photo, days, alert.copy, behind) EXCEPT !.left = left]
      <3>1. writes' = writes \/ writes' = Append(writes, w)
        BY <2>9 DEF DeleteAnswered, Submitted
      <3>2. op \in Ops /\ behind \in BOOLEAN /\ left \in BOOLEAN
        BY DEF Ops
      <3> HIDE DEF op, behind, left, days
      <3>3. IsWrite(w)
        BY <3>2, IsWriteWrite
      <3> HIDE DEF w
      <3>4. QED
        BY <1>0, <3>1, <3>3, AppendedQueue
    <2>10. QED
      BY <1>5, <2>1, <2>2, <2>3, <2>4, <2>5, <2>6, <2>7, <2>8, <2>9 DEF Elsewhere
  <1>6. QED
    BY <1>1, <1>2, <1>3, <1>4, <1>5 DEF Next

LEMMA CoordinatesStep ==
  ASSUME CoordinatesIInv, QueueOK, [Next]_vars
  PROVE  CoordinatesIInv'
  <1>1. CASE UNCHANGED vars
    BY <1>1, DraftStays DEF vars, drafting
  <1>2. CASE Next
    BY <1>2, CoordinatesDrafting, CoordinatesEditing, CoordinatesElsewhere, CoordinatesBack DEF Next
  <1>3. QED
    BY <1>1, <1>2

LEMMA QueueInit == Init => QueueOK
  BY DEF Init, QueueOK, Range

(***************************************************************************)
(* The coordinates of a photo are used at most once and with consent: a     *)
(* search runs only while its page looks for what is nearby, the user has   *)
(* agreed and the draft still has them, and none is left once it has been   *)
(* used (PhotoInfoPage, CreateRecordSessionProvider).                       *)
(***************************************************************************)
THEOREM CoordinatesTransient == Spec => []CoordinatesAreTransient
  <1>1. Init => CoordinatesIInv /\ QueueOK
    BY CoordinatesInit, QueueInit
  <1>2. CoordinatesIInv /\ QueueOK /\ [Next]_vars => (CoordinatesIInv /\ QueueOK)'
    BY CoordinatesStep, QueueStep
  <1>3. CoordinatesIInv => CoordinatesAreTransient
    BY DEF CoordinatesIInv
  <1>4. QED
    BY <1>1, <1>2, <1>3, PTL DEF Spec

(***************************************************************************)
(* The contents of a record.                                               *)
(***************************************************************************)
LEMMA ValidDates ==
  ASSUME NEW d \in DateTexts
  PROVE  isDateOnlyString(d) <=> isValidDateOnly(d)
  <1>1. d = <<d[1], d[2], d[3]>> /\ d[1] \in Nat /\ d[2] \in Nat /\ d[3] \in Nat
    BY DEF DateTexts
  <1>2. ASSUME d[2] \in 1..12
        PROVE  daysInMonth(d[1], d[2]) \in 28..31
    <2>1. d[2] \in {1, 2, 3, 4, 5, 6, 7, 8, 9, 10, 11, 12}
      BY <1>2
    <2>2. QED
      BY <2>1 DEF daysInMonth
  <1>3. ASSUME isDateOnlyString(d)
        PROVE  isValidDateOnly(d)
    BY <1>1, <1>2, <1>3 DEF isDateOnlyString, isValidDateOnly, DateOf
  <1>4. ASSUME isValidDateOnly(d)
        PROVE  isDateOnlyString(d)
    <2>1. d # NoValue /\ DateOf(d) = d
      BY <1>4 DEF isValidDateOnly
    <2>2. d[2] \in 1..12 /\ d[3] \in 1..31
      BY <2>1 DEF DateOf
    <2>3. CASE d[3] <= daysInMonth(d[1], d[2])
      BY <1>1, <1>2, <2>1, <2>2, <2>3 DEF isDateOnlyString
    <2>4. CASE ~(d[3] <= daysInMonth(d[1], d[2]))
      <3>1. d = <<d[1], d[2] + 1, d[3] - daysInMonth(d[1], d[2])>>
        BY <2>1, <2>2, <2>4 DEF DateOf
      <3>2. d[2] = d[2] + 1
        BY <3>1
      <3>3. QED
        BY <1>1, <3>2
    <2>5. QED
      BY <2>3, <2>4
  <1>5. QED
    BY <1>3, <1>4

LEMMA Counted ==
  ASSUME NEW n \in Nat, NEW S, NEW f \in [1..n -> S],
         \A i, j \in 1..n : f[i] = f[j] => i = j, \A x \in S : \E i \in 1..n : f[i] = x
  PROVE  IsFiniteSet(S) /\ Cardinality(S) = n
  <1>1. f \in Surjection(1..n, S) /\ f \in Injection(1..n, S)
    BY DEF Surjection, Injection, IsInjective
  <1>2. IsFiniteSet(1..n) /\ Cardinality(1..n) = n
    BY UpTo
  <1>3. QED
    BY <1>1, <1>2, FS_Surjection

LEMMA Members ==
  ASSUME NEW T, NEW s \in Seq(T)
  PROVE  /\ Len(s) \in Nat /\ DOMAIN s = 1..Len(s) /\ Range(s) \subseteq T
         /\ \A k \in 1..Len(s) : s[k] \in Range(s)
         /\ \A x \in Range(s) : \E k \in 1..Len(s) : s[k] = x
  BY DEF Range

\* What RecordOK says of each day.
IsDay(r, day) == day \in StoredDays(r)

LEMMA DayFields ==
  ASSUME NEW r, NEW day, IsDay(r, day)
  PROVE  /\ day.id \in {r} \X ({<<>>} \cup DateTexts) \X Nat /\ day.date \in DateTexts
         /\ day.note \in Notes \cup {""}
         /\ day.photos \in Seq(StoredPhotos(r)) /\ day.visits \in Seq(StoredVisits(r))
         /\ PhotosOf(day) \subseteq StoredPhotos(r) /\ VisitsOf(day) \subseteq StoredVisits(r)
         /\ Len(day.photos) \in Nat /\ DOMAIN day.photos = 1..Len(day.photos)
         /\ Len(day.visits) \in Nat /\ DOMAIN day.visits = 1..Len(day.visits)
  <1>1. /\ day.id \in {r} \X ({<<>>} \cup DateTexts) \X Nat /\ day.date \in DateTexts
        /\ day.note \in Notes \cup {""}
        /\ day.photos \in Seq(StoredPhotos(r)) /\ day.visits \in Seq(StoredVisits(r))
    BY DEF IsDay, StoredDays
  <1>2. PhotosOf(day) \subseteq StoredPhotos(r)
    BY <1>1, Members DEF PhotosOf
  <1>3. VisitsOf(day) \subseteq StoredVisits(r)
    BY <1>1, Members DEF VisitsOf
  <1>4. QED
    BY <1>1, <1>2, <1>3, Members

LEMMA RowFields ==
  ASSUME NEW r, NEW day, IsDay(r, day)
  PROVE  /\ \A p \in PhotosOf(day) : p \in StoredPhotos(r) /\ p.id \in {r} \X Nat /\ p.id[1] = r /\ p.asset \in Photos
         /\ \A v \in VisitsOf(day) :
               /\ v \in StoredVisits(r) /\ v.id \in {r} \X Nat \X Nat /\ v.id[1] = r
               /\ v.photo \in {r} \X Nat /\ v.place \in OfferedPlaces /\ v.at \in DateTexts
  <1>1. PhotosOf(day) \subseteq StoredPhotos(r) /\ VisitsOf(day) \subseteq StoredVisits(r)
    BY DayFields
  <1>2. QED
    BY <1>1 DEF StoredPhotos, StoredVisits

LEMMA RecordList ==
  ASSUME NEW r, NEW days, NEW E, RecordOK(r, days, E)
  PROVE  /\ Len(days) \in Nat /\ DOMAIN days = 1..Len(days)
         /\ DaysOf(days) = {days[k] : k \in 1..Len(days)}
         /\ \A k \in 1..Len(days) : IsDay(r, days[k]) /\ days[k] \in DaysOf(days)
         /\ \A day \in DaysOf(days) : IsDay(r, day) /\ DayOK(day, E)
         /\ \A k, l \in 1..Len(days) : days[k] = days[l] => k = l
         /\ IsFiniteSet(DaysOf(days)) /\ Cardinality(DaysOf(days)) = Len(days)
  <1>1. days \in Seq(StoredDays(r)) /\ Len(days) \in Nat /\ DOMAIN days = 1..Len(days)
    BY DEF RecordOK
  <1>2. DaysOf(days) = {days[k] : k \in 1..Len(days)}
    BY <1>1 DEF DaysOf, Range
  <1>3. \A k \in 1..Len(days) : IsDay(r, days[k]) /\ days[k] \in DaysOf(days)
    BY <1>1, <1>2 DEF IsDay
  <1>4. \A day \in DaysOf(days) : IsDay(r, day) /\ DayOK(day, E)
    BY <1>2, <1>3 DEF RecordOK, DaysFit
  <1>5. ASSUME NEW k \in 1..Len(days), NEW l \in 1..Len(days), days[k] = days[l]
        PROVE  k = l
    <2>1. days[k].date \in DateTexts
      BY <1>3, DayFields
    <2>2. ~Before(days[k].date, days[l].date) /\ ~Before(days[l].date, days[k].date)
      BY <1>5, <2>1, BeforeOrder
    <2>3. ~(k < l) /\ ~(l < k)
      BY <1>1, <2>2 DEF RecordOK
    <2>4. QED
      BY <1>1, <2>3
  <1>6. IsFiniteSet(DaysOf(days)) /\ Cardinality(DaysOf(days)) = Len(days)
    <2> DEFINE S == DaysOf(days)
               n == Len(days)
    <2>1. days \in [1..n -> S] /\ \A x \in S : \E k \in 1..n : days[k] = x
      BY <1>1, <1>2
    <2> HIDE DEF S, n
    <2>2. QED
      BY <1>1, <1>5, <2>1, Counted DEF S, n
  <1>7. QED
    BY <1>1, <1>2, <1>3, <1>4, <1>5, <1>6

LEMMA Cleared ==
  ASSUME NEW r, NEW days, NEW E, RecordOK(r, days, E), NEW F, E \subseteq F
  PROVE  RecordOK(r, days, F)
  BY DEF RecordOK, DaysFit, DayOK

\* A set of days that fit, in their order, is a record.
LEMMA ByDateOK ==
  ASSUME NEW r, NEW D, NEW E, IsFiniteSet(D), \A day \in D : IsDay(r, day), DaysFit(D, E)
  PROVE  RecordOK(r, ByDate(D), E) /\ DaysOf(ByDate(D)) = D
         /\ Len(ByDate(D)) = Cardinality(D)
  <1> DEFINE s == ByDate(D)
             n == Cardinality(D)
  <1>1. \A day \in D : day.date \in DateTexts
    BY DayFields
  <1>2. \A d, e \in D : d.date = e.date => d = e
    BY DEF DaysFit
  <1>3. /\ n \in Nat /\ s \in [1..n -> D]
        /\ \A k, l \in 1..n : k < l <=> Before(s[k].date, s[l].date)
        /\ \A x \in D : \E k \in 1..n : s[k] = x
    BY <1>1, <1>2, DayList
  <1> HIDE DEF s, n
  <1>4. s \in Seq(StoredDays(r)) /\ Len(s) = n /\ DOMAIN s = 1..n
    BY <1>3 DEF IsDay
  <1>5. DaysOf(s) = D
    BY <1>3, <1>4 DEF DaysOf, Range
  <1>6. RecordOK(r, s, E)
    BY <1>3, <1>4, <1>5 DEF RecordOK
  <1>7. QED
    BY <1>4, <1>5, <1>6 DEF s, n

\* The photos of a day and its visits are as many.
LEMMA VisitForEachPhoto ==
  ASSUME NEW r, NEW day, NEW E, IsDay(r, day), DayOK(day, E), SameRow(day, day, day.photos, day.photos)
  PROVE  Len(day.photos) = Len(day.visits)
  <1> DEFINE m == Len(day.photos)
             n == Len(day.visits)
             f == [i \in 1..m |-> day.photos[i].id]
             g == [i \in 1..n |-> day.visits[i].photo]
  <1>1. m \in Nat /\ n \in Nat /\ DOMAIN day.photos = 1..m /\ DOMAIN day.visits = 1..n
    BY DayFields
  <1> DEFINE T == {f[i] : i \in 1..m}
             U == {g[i] : i \in 1..n}
  <1>2. T = {p.id : p \in PhotosOf(day)} /\ U = {v.photo : v \in VisitsOf(day)}
    BY <1>1 DEF PhotosOf, VisitsOf, Range
  <1>3. /\ f \in [1..m -> T] /\ \A x \in T : \E i \in 1..m : f[i] = x
        /\ g \in [1..n -> U] /\ \A x \in U : \E i \in 1..n : g[i] = x
    OBVIOUS
  <1>4. \A i, j \in 1..m : f[i] = f[j] => i = j
    BY <1>1 DEF SameRow
  <1>5. \A i, j \in 1..n : g[i] = g[j] => i = j
    BY <1>1 DEF DayOK
  <1>6. T = U
    BY <1>2 DEF DayOK
  <1> HIDE DEF m, n, f, g, T, U
  <1>7. Cardinality(T) = m
    BY <1>1, <1>3, <1>4, Counted
  <1>8. Cardinality(U) = n
    BY <1>1, <1>3, <1>5, Counted
  <1>9. QED
    BY <1>6, <1>7, <1>8 DEF m, n

\* No two rows of a record have one id.
LEMMA DistinctRows ==
  ASSUME NEW r, NEW days, NEW E, RecordOK(r, days, E)
  PROVE  /\ IsInjective(Ids(days)) /\ IsInjective([k \in DOMAIN days |-> days[k].date])
         /\ DistinctAcross(PhotoLists(days)) /\ DistinctAcross(VisitLists(days))
  <1>1. /\ DOMAIN days = 1..Len(days)
        /\ \A k \in 1..Len(days) : days[k] \in DaysOf(days)
        /\ \A k, l \in 1..Len(days) : days[k] = days[l] => k = l
    BY RecordList
  <1>2. /\ \A d, e \in DaysOf(days) : d.id = e.id \/ d.date = e.date => d = e
        /\ \A d, e \in DaysOf(days) : SameRow(d, e, d.photos, e.photos) /\ SameRow(d, e, d.visits, e.visits)
    BY DEF RecordOK, DaysFit
  <1>3. IsInjective(Ids(days)) /\ IsInjective([k \in DOMAIN days |-> days[k].date])
    BY <1>1, <1>2 DEF IsInjective, Ids
  <1>4. DistinctAcross(PhotoLists(days))
    <2> SUFFICES ASSUME NEW k \in DOMAIN days, NEW l \in DOMAIN days,
                        NEW i \in DOMAIN days[k].photos, NEW j \in DOMAIN days[l].photos,
                        days[k].photos[i].id = days[l].photos[j].id
                 PROVE  k = l /\ i = j
      BY DEF DistinctAcross, PhotoLists
    <2>1. SameRow(days[k], days[l], days[k].photos, days[l].photos)
      BY <1>1, <1>2
    <2>2. days[k] = days[l] /\ i = j
      BY <2>1 DEF SameRow
    <2>3. QED
      BY <1>1, <2>2
  <1>5. DistinctAcross(VisitLists(days))
    <2> SUFFICES ASSUME NEW k \in DOMAIN days, NEW l \in DOMAIN days,
                        NEW i \in DOMAIN days[k].visits, NEW j \in DOMAIN days[l].visits,
                        days[k].visits[i].id = days[l].visits[j].id
                 PROVE  k = l /\ i = j
      BY DEF DistinctAcross, VisitLists
    <2>1. SameRow(days[k], days[l], days[k].visits, days[l].visits)
      BY <1>1, <1>2
    <2>2. days[k] = days[l] /\ i = j
      BY <2>1 DEF SameRow
    <2>3. QED
      BY <1>1, <2>2
  <1>6. QED
    BY <1>3, <1>4, <1>5

LEMMA SoundRecord ==
  ASSUME NEW r, NEW days, RecordOK(r, days, emptied)
  PROVE  Sound(days)
  <1>1. /\ DOMAIN days = 1..Len(days) /\ Len(days) \in Nat
        /\ \A day \in DaysOf(days) : IsDay(r, day) /\ DayOK(day, emptied)
    BY RecordList
  <1>2. \A k \in 2..Len(days) : Before(days[k - 1].date, days[k].date)
    BY <1>1 DEF RecordOK
  <1>3. ASSUME NEW day \in DaysOf(days)
        PROVE  /\ isDateOnlyString(day.date) /\ Len(day.photos) = Len(day.visits)
               /\ {p.id : p \in PhotosOf(day)} = {v.photo : v \in VisitsOf(day)}
               /\ \A v \in VisitsOf(day) : v.at = day.date /\ v.place.area # None
               /\ hasDayContent(day) \/ day.id \in emptied
    <2>1. IsDay(r, day) /\ DayOK(day, emptied) /\ SameRow(day, day, day.photos, day.photos)
      BY <1>1 DEF RecordOK, DaysFit
    <2>2. Len(day.photos) = Len(day.visits)
      BY <2>1, VisitForEachPhoto
    <2>3. \A v \in VisitsOf(day) : v.place \in OfferedPlaces
      BY <2>1, RowFields
    <2>4. \A v \in VisitsOf(day) : v.place.area # None
      BY <2>3 DEF OfferedPlaces
    <2>5. QED
      BY <2>1, <2>2, <2>4 DEF DayOK
  <1>4. QED
    BY <1>2, <1>3, DistinctRows DEF Sound

\* The repository takes such a record beside others.
LEMMA AcceptedRecord ==
  ASSUME NEW r, NEW days, NEW E, RecordOK(r, days, E), days # <<>>, NEW others,
         \A o \in others : \E q : q # r /\ \E F : RecordOK(q, o, F)
  PROVE  Accepts(others, days)
  <1>1. \A day \in DaysOf(days) : IsDay(r, day) /\ DayOK(day, E)
    BY RecordList
  <1>2. ASSUME NEW day \in DaysOf(days)
        PROVE  normalizeDateOnly(day.date) /\ \A v \in VisitsOf(day) : normalizeVisit(v, day)
    <2>1. isValidDateOnly(day.date)
      BY <1>1, DayFields, ValidDates DEF DayOK
    <2>2. ASSUME NEW v \in VisitsOf(day)
          PROVE  normalizeVisit(v, day)
      <3>1. v.place \in OfferedPlaces
        BY <1>1, RowFields
      <3>2. v.place.area # NoValue /\ v.place.content # NoValue
        <4>1. v.place.content \in Nat
          BY <3>1, KtoAssumption DEF OfferedPlaces
        <4>2. QED
          BY <3>1, <4>1, PagesAssumption DEF OfferedPlaces
      <3>3. v.photo \in {p.id : p \in PhotosOf(day)} /\ v.at = day.date
        BY <1>1 DEF DayOK
      <3>4. QED
        BY <2>1, <3>2, <3>3 DEF normalizeVisit
    <2>3. QED
      BY <2>1, <2>2 DEF normalizeDateOnly
  <1>3. normalizeRecordInput(days)
    BY <1>2, DistinctRows DEF normalizeRecordInput, Distinct
  <1>4. ASSUME NEW q, NEW o, NEW F, RecordOK(q, o, F)
        PROVE  /\ \A day \in DaysOf(o) : day.id[1] = q
               /\ \A p \in AllPhotos(o) : p.id[1] = q
               /\ \A v \in AllVisits(o) : v.id[1] = q
    <2>1. \A day \in DaysOf(o) : IsDay(q, day)
      BY <1>4, RecordList
    <2>2. \A day \in DaysOf(o) : day.id[1] = q
      BY <2>1, DayFields
    <2>3. \A p \in AllPhotos(o) : p.id[1] = q
      BY <2>1, RowFields DEF AllPhotos
    <2>4. \A v \in AllVisits(o) : v.id[1] = q
      BY <2>1, RowFields DEF AllVisits
    <2>5. QED
      BY <2>2, <2>3, <2>4
  <1>5. KeysAreFree(others, days)
    <2>1. /\ \A o \in others : \A day \in DaysOf(o) : day.id[1] # r
          /\ \A o \in others : \A p \in AllPhotos(o) : p.id[1] # r
          /\ \A o \in others : \A v \in AllVisits(o) : v.id[1] # r
      BY <1>4
    <2>2. /\ \A day \in DaysOf(days) : day.id[1] = r
          /\ \A p \in AllPhotos(days) : p.id[1] = r
          /\ \A v \in AllVisits(days) : v.id[1] = r
      BY <1>4
    <2>3. {day.id : day \in DaysOf(days)} \cap {day.id : day \in UNION {DaysOf(o) : o \in others}} = {}
      BY <2>1, <2>2
    <2>4. {p.id : p \in AllPhotos(days)} \cap {p.id : p \in UNION {AllPhotos(o) : o \in others}} = {}
      BY <2>1, <2>2
    <2>5. {v.id : v \in AllVisits(days)} \cap {v.id : v \in UNION {AllVisits(o) : o \in others}} = {}
      BY <2>1, <2>2
    <2>6. QED
      BY <2>3, <2>4, <2>5 DEF KeysAreFree
  <1>6. QED
    BY <1>3, <1>5 DEF Accepts

(***************************************************************************)
(* A record that is saved.                                                 *)
(***************************************************************************)
PhotoDates(photos) == {photos[k].date : k \in DOMAIN photos}

\* Day d holds the photos of one date.
HoldsDate(d, r, photos, date, n, E) ==
    /\ IsDay(r, d) /\ DayOK(d, E) /\ d.id = <<r, <<>>, n>> /\ d.date = date
    /\ SameRow(d, d, d.photos, d.photos)
    /\ \A i \in DOMAIN d.photos : \E k \in DOMAIN photos :
          d.photos[i].id = <<r, k>> /\ photos[k].date = date
    /\ \A i \in DOMAIN d.visits : d.visits[i].id = <<r, n, i>>
    /\ \A k \in DOMAIN photos : photos[k].date = date =>
          \E p \in PhotosOf(d), v \in VisitsOf(d) :
             p.asset = photos[k].id /\ v.photo = p.id /\ v.place = photos[k].place

LEMMA SavedDayOK ==
  ASSUME NEW r \in Records, NEW photos \in Seq(SavedPhotos), NEW E, NEW n \in Nat,
         NEW date \in PhotoDates(photos), NEW notes \in [PhotoDates(photos) -> Notes]
  PROVE  HoldsDate(SavedDay(r, photos, notes, date, n), r, photos, date, n, E)
  <1> DEFINE K == {k \in DOMAIN photos : photos[k].date = date}
             at == Ascending(K)
             c == Cardinality(K)
             d == SavedDay(r, photos, notes, date, n)
             ps == [k \in 1..c |-> [id |-> <<r, at[k]>>, asset |-> photos[at[k]].id]]
             vs == [k \in 1..c |-> [id |-> <<r, n, k>>, photo |-> <<r, at[k]>>,
                                    place |-> photos[at[k]].place, at |-> date]]
  <1>1. /\ c \in Nat /\ at \in [1..c -> K] /\ \A i, j \in 1..c : i < j <=> at[i] < at[j]
        /\ \A k \in K : \E i \in 1..c : at[i] = k
    <2>1. K \in SUBSET DOMAIN photos
      OBVIOUS
    <2> HIDE DEF K
    <2>2. QED
      BY <2>1, KeptList
  <1>2. /\ \A k \in DOMAIN photos : /\ k \in Nat /\ photos[k] \in SavedPhotos /\ photos[k].id \in Photos
                                    /\ photos[k].date \in CalendarDates /\ photos[k].place \in OfferedPlaces
    <2>1. \A k \in DOMAIN photos : k \in Nat /\ photos[k] \in SavedPhotos
      OBVIOUS
    <2>2. QED
      BY <2>1 DEF SavedPhotos
  <1>3. date \in CalendarDates /\ notes[date] \in Notes
    BY <1>2 DEF PhotoDates
  <1>4. d = [id |-> <<r, <<>>, n>>, date |-> date, note |-> notes[date], photos |-> ps, visits |-> vs]
    <2>1. \A k \in 1..c : Planned(r, photos)[at[k]] = [id |-> <<r, at[k]>>, asset |-> photos[at[k]].id]
      BY <1>1 DEF Planned
    <2>2. DOMAIN at = 1..c
      BY <1>1
    <2>3. d = [id |-> <<r, <<>>, n>>, date |-> date, note |-> notes[date],
               photos |-> [k \in DOMAIN at |-> Planned(r, photos)[at[k]]],
               visits |-> [k \in DOMAIN at |->
                   [id |-> <<r, n, k>>, photo |-> <<r, at[k]>>, place |-> photos[at[k]].place, at |-> date]]]
      BY DEF SavedDay
    <2> HIDE DEF at, c, d
    <2>4. [k \in DOMAIN at |-> Planned(r, photos)[at[k]]] = ps
      BY <2>1, <2>2
    <2>5. QED
      BY <2>2, <2>3, <2>4
  <1>5. at \in [1..c -> DOMAIN photos] /\ \A i \in 1..c : photos[at[i]].date = date
    BY <1>1
  <1>6. \A i, j \in 1..c : at[i] = at[j] => i = j
    <2>1. \A i \in 1..c : at[i] \in Nat
      BY <1>2, <1>5
    <2> HIDE DEF at, c
    <2>2. QED
      BY <1>1, <2>1
  <1>7. \A k \in DOMAIN photos : photos[k].date = date => \E i \in 1..c : at[i] = k
    BY <1>1
  <1>8. c \in Nat
    BY <1>1
  <1> HIDE DEF at, c, K, d
  <1>9. /\ ps \in Seq(StoredPhotos(r)) /\ Len(ps) = c /\ DOMAIN ps = 1..c
        /\ \A i \in 1..c : ps[i].id = <<r, at[i]>> /\ ps[i].asset = photos[at[i]].id
    <2>1. \A i \in 1..c : [id |-> <<r, at[i]>>, asset |-> photos[at[i]].id] \in StoredPhotos(r)
      BY <1>2, <1>5 DEF StoredPhotos
    <2>2. QED
      BY <1>8, <2>1
  <1>10. /\ vs \in Seq(StoredVisits(r)) /\ Len(vs) = c /\ DOMAIN vs = 1..c
         /\ \A i \in 1..c : /\ vs[i].id = <<r, n, i>> /\ vs[i].photo = <<r, at[i]>>
                             /\ vs[i].place = photos[at[i]].place /\ vs[i].at = date
    <2>1. \A i \in 1..c : [id |-> <<r, n, i>>, photo |-> <<r, at[i]>>,
                           place |-> photos[at[i]].place, at |-> date] \in StoredVisits(r)
      BY <1>2, <1>3, <1>5, <1>8 DEF StoredVisits, CalendarDates
    <2>2. QED
      BY <1>8, <2>1
  <1> HIDE DEF ps, vs
  <1>11. /\ d.id = <<r, <<>>, n>> /\ d.date = date /\ d.note = notes[date]
         /\ d.photos = ps /\ d.visits = vs
    BY <1>4
  <1>12. IsDay(r, d)
    BY <1>3, <1>4, <1>9, <1>10 DEF IsDay, StoredDays, CalendarDates
  <1>13. DayOK(d, E)
    <2>1. isDateOnlyString(date)
      BY <1>3 DEF CalendarDates
    <2>2. {p.id : p \in PhotosOf(d)} = {v.photo : v \in VisitsOf(d)}
      <3>1. PhotosOf(d) = {ps[i] : i \in 1..c} /\ VisitsOf(d) = {vs[i] : i \in 1..c}
        BY <1>9, <1>10, <1>11 DEF PhotosOf, VisitsOf, Range
      <3>2. \A i \in 1..c : ps[i].id = vs[i].photo
        BY <1>9, <1>10
      <3>3. QED
        BY <3>1, <3>2
    <2>4. ASSUME NEW i \in 1..c, NEW j \in 1..c, vs[i].photo = vs[j].photo
          PROVE  i = j
      <3>1. <<r, at[i]>> = <<r, at[j]>>
        BY <1>10, <2>4
      <3>2. at[i] = at[j]
        BY <3>1
      <3>3. QED
        BY <1>6, <3>2
    <2>5. \A v \in VisitsOf(d) : v.at = d.date
      BY <1>10, <1>11 DEF VisitsOf, Range
    <2>6. hasDayContent(d)
      <3>1. PICK k \in DOMAIN photos : photos[k].date = date
        BY DEF PhotoDates
      <3>2. c # 0
        BY <1>7, <1>8, <3>1
      <3>3. ps # <<>>
        BY <1>9, <3>2
      <3>4. QED
        BY <1>11, <3>3 DEF hasDayContent
    <2>7. QED
      BY <1>10, <1>11, <2>1, <2>2, <2>4, <2>5, <2>6 DEF DayOK
  <1>14. SameRow(d, d, d.photos, d.photos)
    <2>1. ASSUME NEW i \in 1..c, NEW j \in 1..c, ps[i].id = ps[j].id
          PROVE  i = j
      <3>1. <<r, at[i]>> = <<r, at[j]>>
        BY <1>9, <2>1
      <3>2. at[i] = at[j]
        BY <3>1
      <3>3. QED
        BY <1>6, <3>2
    <2>2. QED
      BY <1>9, <1>11, <2>1 DEF SameRow
  <1>15. \A i \in DOMAIN d.photos : \E k \in DOMAIN photos :
            d.photos[i].id = <<r, k>> /\ photos[k].date = date
    BY <1>5, <1>9, <1>11
  <1>16. \A i \in DOMAIN d.visits : d.visits[i].id = <<r, n, i>>
    BY <1>10, <1>11
  <1>17. ASSUME NEW k \in DOMAIN photos, photos[k].date = date
         PROVE  \E p \in PhotosOf(d), v \in VisitsOf(d) :
                   p.asset = photos[k].id /\ v.photo = p.id /\ v.place = photos[k].place
    <2>1. PICK i \in 1..c : at[i] = k
      BY <1>7, <1>17
    <2>2. ps[i] \in PhotosOf(d) /\ vs[i] \in VisitsOf(d)
      BY <1>9, <1>10, <1>11 DEF PhotosOf, VisitsOf, Range
    <2>3. ps[i].asset = photos[k].id /\ vs[i].photo = ps[i].id /\ vs[i].place = photos[k].place
      BY <1>9, <1>10, <2>1
    <2>4. QED
      BY <2>2, <2>3
  <1>18. HoldsDate(d, r, photos, date, n, E)
    BY <1>11, <1>12, <1>13, <1>14, <1>15, <1>16, <1>17 DEF HoldsDate
  <1>19. QED
    BY <1>18 DEF d

LEMMA SavedRecord ==
  ASSUME NEW r \in Records, NEW photos \in Seq(SavedPhotos), photos # <<>>, NEW E,
         NEW notes \in [{photos[k].date : k \in DOMAIN photos} -> Notes]
  PROVE  LET days == savedDays(r, photos, notes)
         IN  /\ RecordOK(r, days, E) /\ days # <<>>
             /\ \A k \in DOMAIN photos :
                   \E day \in DaysOf(days) :
                      /\ day.date = photos[k].date
                      /\ \E p \in PhotosOf(day), v \in VisitsOf(day) :
                            p.asset = photos[k].id /\ v.photo = p.id /\ v.place = photos[k].place
  <1> DEFINE S == {photos[k].date : k \in DOMAIN photos}
             dates == Ordered(S, Before)
             N == Cardinality(S)
             days == savedDays(r, photos, notes)
             day(n) == SavedDay(r, photos, notes, dates[n], n)
  <1>1. DOMAIN photos = 1..Len(photos) /\ Len(photos) \in Nat /\ Len(photos) # 0
    OBVIOUS
  <1>2. S \in SUBSET DateTexts
    <2>1. \A k \in DOMAIN photos : photos[k] \in SavedPhotos
      OBVIOUS
    <2>2. \A k \in DOMAIN photos : photos[k].date \in DateTexts
      BY <2>1 DEF SavedPhotos, CalendarDates
    <2>3. QED
      BY <2>2
  <1>3. IsFiniteSet(S)
    <2> DEFINE f == [k \in DOMAIN photos |-> photos[k].date]
    <2>1. f \in Surjection(DOMAIN photos, S)
      BY DEF Surjection
    <2>2. IsFiniteSet(DOMAIN photos)
      BY <1>1, UpTo
    <2> HIDE DEF f, S
    <2>3. QED
      BY <2>1, <2>2, FS_Surjection
  <1>4. /\ N \in Nat /\ dates \in [1..N -> S] /\ \A m, n \in 1..N : m < n <=> Before(dates[m], dates[n])
        /\ \A x \in S : \E n \in 1..N : dates[n] = x
    <2> HIDE DEF S
    <2>1. QED
      BY <1>2, <1>3, DateList
  <1>5. days = [n \in 1..N |-> day(n)]
    <2>1. DOMAIN dates = 1..N
      BY <1>4
    <2>2. days = [n \in DOMAIN dates |-> day(n)]
      BY DEF savedDays
    <2>3. QED
      BY <2>1, <2>2
  <1>6. \A m, n \in 1..N : dates[m] = dates[n] => m = n
    <2>1. \A m \in 1..N : dates[m] \in DateTexts
      BY <1>2, <1>4
    <2> HIDE DEF dates, N
    <2>2. \A m \in 1..N : ~Before(dates[m], dates[m])
      BY <2>1, BeforeOrder
    <2>3. QED
      BY <1>4, <2>2
  <1>7. ASSUME NEW n \in 1..N
        PROVE  LET d == day(n)
               IN  /\ IsDay(r, d) /\ DayOK(d, E) /\ d.id = <<r, <<>>, n>> /\ d.date = dates[n]
                   /\ SameRow(d, d, d.photos, d.photos)
                   /\ \A i \in DOMAIN d.photos : \E k \in DOMAIN photos :
                         d.photos[i].id = <<r, k>> /\ photos[k].date = dates[n]
                   /\ \A i \in DOMAIN d.visits : d.visits[i].id = <<r, n, i>>
                   /\ \A k \in DOMAIN photos : photos[k].date = dates[n] =>
                         \E p \in PhotosOf(d), v \in VisitsOf(d) :
                            p.asset = photos[k].id /\ v.photo = p.id /\ v.place = photos[k].place
    <2> HIDE DEF dates, N, S
    <2>1. n \in Nat /\ dates[n] \in S
      BY <1>4
    <2>2. PICK date : date = dates[n]
      OBVIOUS
    <2>3. date \in PhotoDates(photos) /\ notes \in [PhotoDates(photos) -> Notes]
      BY <2>1, <2>2 DEF S, PhotoDates
    <2>4. PICK d : d = SavedDay(r, photos, notes, date, n)
      OBVIOUS
    <2>5. /\ IsDay(r, d) /\ DayOK(d, E) /\ d.id = <<r, <<>>, n>> /\ d.date = date
          /\ SameRow(d, d, d.photos, d.photos)
          /\ \A i \in DOMAIN d.photos : \E k \in DOMAIN photos :
                d.photos[i].id = <<r, k>> /\ photos[k].date = date
          /\ \A i \in DOMAIN d.visits : d.visits[i].id = <<r, n, i>>
          /\ \A k \in DOMAIN photos : photos[k].date = date =>
                \E p \in PhotosOf(d), v \in VisitsOf(d) :
                   p.asset = photos[k].id /\ v.photo = p.id /\ v.place = photos[k].place
      <3>1. HoldsDate(d, r, photos, date, n, E)
        BY <2>1, <2>3, <2>4, SavedDayOK
      <3>2. QED
        BY <3>1 DEF HoldsDate
    <2>6. QED
      BY <2>2, <2>4, <2>5
  <1> HIDE DEF dates, N, S, day, days
  <1>8. days \in Seq(StoredDays(r)) /\ Len(days) = N /\ DOMAIN days = 1..N
    BY <1>4, <1>5, <1>7 DEF IsDay
  <1>9. \A n \in 1..N : days[n] = day(n)
    BY <1>5
  <1>10. DaysOf(days) = {day(n) : n \in 1..N}
    BY <1>5 DEF DaysOf, Range
  <1>11. \A m, n \in 1..N : m < n => Before(days[m].date, days[n].date)
    BY <1>4, <1>7, <1>9
  <1>12. ASSUME NEW m \in 1..N, NEW n \in 1..N
         PROVE  /\ day(m).id = day(n).id \/ day(m).date = day(n).date => day(m) = day(n)
                /\ SameRow(day(m), day(n), day(m).photos, day(n).photos)
                /\ SameRow(day(m), day(n), day(m).visits, day(n).visits)
    <2>1. day(m).id = day(n).id \/ day(m).date = day(n).date => day(m) = day(n)
      <3>1. day(m).id = <<r, <<>>, m>> /\ day(n).id = <<r, <<>>, n>> /\ day(m).date = dates[m] /\ day(n).date = dates[n]
        BY <1>7
      <3>2. day(m).id = day(n).id => m = n
        <4>1. day(m).id = day(n).id => <<r, <<>>, m>> = <<r, <<>>, n>>
          BY <3>1
        <4>2. <<r, <<>>, m>> = <<r, <<>>, n>> => m = n
          OBVIOUS
        <4>3. QED
          BY <4>1, <4>2
      <3>3. QED
        BY <1>6, <3>1, <3>2
    <2>2. SameRow(day(m), day(n), day(m).photos, day(n).photos)
      <3> SUFFICES ASSUME NEW i \in DOMAIN day(m).photos, NEW j \in DOMAIN day(n).photos,
                          day(m).photos[i].id = day(n).photos[j].id
                   PROVE  day(m) = day(n) /\ i = j
        BY DEF SameRow
      <3>1. PICK k \in DOMAIN photos : day(m).photos[i].id = <<r, k>> /\ photos[k].date = dates[m]
        BY <1>7
      <3>2. PICK l \in DOMAIN photos : day(n).photos[j].id = <<r, l>> /\ photos[l].date = dates[n]
        BY <1>7
      <3>3. <<r, k>> = <<r, l>>
        BY <3>1, <3>2
      <3>7. k = l
        BY <3>3
      <3>4. m = n
        BY <1>6, <3>1, <3>2, <3>7
      <3>5. SameRow(day(m), day(m), day(m).photos, day(m).photos)
        BY <1>7
      <3>6. QED
        BY <3>4, <3>5 DEF SameRow
    <2>3. SameRow(day(m), day(n), day(m).visits, day(n).visits)
      <3> SUFFICES ASSUME NEW i \in DOMAIN day(m).visits, NEW j \in DOMAIN day(n).visits,
                          day(m).visits[i].id = day(n).visits[j].id
                   PROVE  day(m) = day(n) /\ i = j
        BY DEF SameRow
      <3>1. day(m).visits[i].id = <<r, m, i>> /\ day(n).visits[j].id = <<r, n, j>>
        BY <1>7
      <3>2. <<r, m, i>> = <<r, n, j>>
        BY <3>1
      <3>3. m = n /\ i = j
        BY <3>2
      <3>4. QED
        BY <3>3
    <2>4. QED
      BY <2>1, <2>2, <2>3
  <1>13. DaysFit(DaysOf(days), E)
    <2>1. \A d \in DaysOf(days) : DayOK(d, E)
      BY <1>7, <1>10
    <2>2. \A d, e \in DaysOf(days) :
             /\ d.id = e.id \/ d.date = e.date => d = e
             /\ SameRow(d, e, d.photos, e.photos) /\ SameRow(d, e, d.visits, e.visits)
      BY <1>10, <1>12
    <2>3. QED
      BY <2>1, <2>2 DEF DaysFit
  <1>14. RecordOK(r, days, E)
    BY <1>8, <1>11, <1>13 DEF RecordOK
  <1>15. ASSUME NEW k \in DOMAIN photos
         PROVE  \E d \in DaysOf(days) :
                   /\ d.date = photos[k].date
                   /\ \E p \in PhotosOf(d), v \in VisitsOf(d) :
                         p.asset = photos[k].id /\ v.photo = p.id /\ v.place = photos[k].place
    <2>1. photos[k].date \in S
      BY DEF S
    <2>2. PICK n \in 1..N : dates[n] = photos[k].date
      BY <1>4, <2>1
    <2>3. day(n) \in DaysOf(days) /\ day(n).date = photos[k].date
      BY <1>7, <1>10, <2>2
    <2>4. QED
      BY <1>7, <2>2, <2>3
  <1>16. days # <<>>
    <2>1. 1 \in DOMAIN photos
      BY <1>1
    <2>2. DaysOf(days) # {}
      BY <1>15, <2>1
    <2>3. QED
      BY <2>2 DEF DaysOf, Range
  <1>17. QED
    BY <1>14, <1>15, <1>16 DEF days

(***************************************************************************)
(* The photos of a draft.                                                  *)
(***************************************************************************)
LEMMA Arrived ==
  ASSUME NEW new, NEW d, ArriveAt(new, d)
  PROVE  /\ page' = new
         /\ page.at \in DraftPages /\ new.at \notin DraftPages => draft'.photos = <<>>
         /\ ~(page.at \in DraftPages /\ new.at \notin DraftPages) /\ d \in Drafts =>
               draft'.photos = d.photos /\ draft'.details = d.details
  <1>1. page' = new
    BY DEF ArriveAt
  <1>2. page.at \in DraftPages /\ new.at \notin DraftPages => draft'.photos = <<>>
    BY EmptyDraftOK DEF ArriveAt
  <1>3. ~(page.at \in DraftPages /\ new.at \notin DraftPages) =>
            draft' = discardTransientGps(d, LeftBehind(d, page))
    BY DEF ArriveAt
  <1>4. QED
    BY <1>1, <1>2, <1>3, Discarded

\* On the page of a save that is open, nothing about the draft has changed.
SameDraft == draft'.photos = draft.photos /\ draft'.details = draft.details

LEMMA SameDraftPhotos ==
  ASSUME NEW d, NEW e, e.photos = d.photos, e.details = d.details
  PROVE  DraftPhotos(e) = DraftPhotos(d)
  <1>1. \A p : getPhotoDetails(e, p) = getPhotoDetails(d, p)
    BY DEF getPhotoDetails
  <1>2. QED
    BY <1>1 DEF DraftPhotos

\* A save, and one that is of the draft as it is.
IsSave(s) ==
    /\ s = [record |-> s.record, photos |-> s.photos, notes |-> s.notes,
            left |-> s.left, picking |-> s.picking]
    /\ s.record \in Records
    /\ s.photos \in Seq(SavedPhotos) /\ s.photos # <<>>
    /\ s.notes \in [{s.photos[k].date : k \in DOMAIN s.photos} -> Notes]
    /\ {s.left, s.picking} \subseteq BOOLEAN

OfTheDraft(s) ==
    ~s.left => /\ page.at = "compose"
               /\ s.picking \/ (picker = None /\ s.photos = DraftPhotos(draft))

SavesDiffer(S) == \A s, t \in S : s.record = t.record => s = t

LEMMA SaveParts ==
  SavesOK <=> (\A s \in saves : IsSave(s) /\ OfTheDraft(s)) /\ SavesDiffer(saves)
  BY DEF SavesOK, IsSave, OfTheDraft, SavesDiffer

LEMMA SavePartsPrime ==
  ASSUME \A s \in saves' : IsSave(s) /\ OfTheDraft(s)', SavesDiffer(saves')
  PROVE  SavesOK'
  BY DEF SavesOK, IsSave, OfTheDraft, SavesDiffer

LEMMA SavesStay ==
  ASSUME SavesOK, saves' \subseteq saves,
         \/ \A s \in saves : s.left
         \/ page.at # "compose"
         \/ /\ page'.at = page.at
            /\ picker # None \/ (picker' \in {picker, None} /\ SameDraft)
  PROVE  SavesOK'
  <1>1. (\A s \in saves : IsSave(s) /\ OfTheDraft(s)) /\ SavesDiffer(saves)
    BY SaveParts
  <1>2. SavesDiffer(saves')
    BY <1>1 DEF SavesDiffer
  <1>3. ASSUME NEW s \in saves'
        PROVE  IsSave(s) /\ OfTheDraft(s)'
    <2>1. s \in saves /\ IsSave(s) /\ OfTheDraft(s)
      BY <1>1
    <2>2. CASE s.left
      BY <2>1, <2>2 DEF OfTheDraft
    <2>3. CASE ~s.left
      <3>1. page.at = "compose" /\ (s.picking \/ (picker = None /\ s.photos = DraftPhotos(draft)))
        BY <2>1, <2>3 DEF OfTheDraft
      <3>2. page'.at = "compose" /\ (picker # None \/ (picker' \in {picker, None} /\ SameDraft))
        BY <2>1, <2>3, <3>1
      <3>3. SameDraft => DraftPhotos(draft') = DraftPhotos(draft)
        BY SameDraftPhotos DEF SameDraft
      <3>4. QED
        BY <2>1, <3>1, <3>2, <3>3 DEF OfTheDraft
    <2>4. QED
      BY <2>2, <2>3
  <1>4. QED
    BY <1>2, <1>3, SavePartsPrime

LEMMA LeftSave ==
  ASSUME NEW s, IsSave(s)
  PROVE  LET t == [s EXCEPT !.left = TRUE]
         IN  IsSave(t) /\ t.left /\ t.record = s.record /\ t.photos = s.photos /\ t.notes = s.notes
             /\ t.picking = s.picking /\ (s.left => t = s)
  <1> DEFINE t == [s EXCEPT !.left = TRUE]
  <1>1. t = [s EXCEPT !.left = TRUE] /\ IsSave(s)
    OBVIOUS
  <1> HIDE DEF t
  <1>2. /\ IsSave(t) /\ t.left /\ t.record = s.record /\ t.photos = s.photos /\ t.notes = s.notes
        /\ t.picking = s.picking /\ (s.left => t = s)
    BY <1>1 DEF IsSave
  <1>3. QED
    BY <1>2 DEF t

LEMMA SavesLeft ==
  ASSUME SavesOK, NEW T \in SUBSET saves, saves' = Unattended(T)
  PROVE  SavesOK'
  <1>1. (\A s \in saves : IsSave(s) /\ OfTheDraft(s)) /\ SavesDiffer(saves)
    BY SaveParts
  <1>2. ASSUME NEW t \in saves'
        PROVE  /\ IsSave(t) /\ OfTheDraft(t)'
               /\ \E s \in saves : t = [s EXCEPT !.left = TRUE] /\ s.record = t.record
    <2>1. PICK s \in saves : t = [s EXCEPT !.left = TRUE]
      BY DEF Unattended
    <2>2. QED
      BY <1>1, <2>1, LeftSave DEF OfTheDraft
  <1>3. ASSUME NEW t \in saves', NEW u \in saves', t.record = u.record
        PROVE  t = u
    <2>1. PICK s \in saves : t = [s EXCEPT !.left = TRUE] /\ s.record = t.record
      BY <1>2
    <2>2. PICK v \in saves : u = [v EXCEPT !.left = TRUE] /\ v.record = u.record
      BY <1>2
    <2>3. s = v
      BY <1>1, <1>3, <2>1, <2>2 DEF SavesDiffer
    <2>4. QED
      BY <2>1, <2>2, <2>3
  <1>4. QED
    BY <1>2, <1>3, SavePartsPrime DEF SavesDiffer

\* A draft that can be saved.
LEMMA SubmittedSave ==
  ASSUME DraftTypeOK, draft.photos # <<>>, ~hasUnconfirmedPhoto(draft), NEW r \in Records,
         NEW notes \in [{getPhotoDetails(draft, p).date : p \in Range(draft.photos)} -> Notes],
         NEW picking \in BOOLEAN
  PROVE  IsSave([record |-> r, photos |-> DraftPhotos(draft), notes |-> notes,
                 left |-> FALSE, picking |-> picking])
  <1> DEFINE ps == DraftPhotos(draft)
             s == [record |-> r, photos |-> ps, notes |-> notes, left |-> FALSE, picking |-> picking]
             n == Len(draft.photos)
  <1>1. draft \in Drafts /\ draft.photos \in Seq(Photos)
    BY DEF DraftTypeOK, Drafts
  <1>2. n \in Nat /\ n # 0 /\ DOMAIN draft.photos = 1..n /\ Range(draft.photos) \subseteq Photos
        /\ (\A k \in 1..n : draft.photos[k] \in Range(draft.photos))
        /\ Range(draft.photos) = {draft.photos[k] : k \in 1..n}
    BY <1>1 DEF Range
  <1>3. ASSUME NEW p \in Range(draft.photos)
        PROVE  getPhotoDetails(draft, p).date \in CalendarDates /\ getPhotoDetails(draft, p).place \in OfferedPlaces
    <2>1. getPhotoDetails(draft, p) \in PhotoDetails
      BY <1>1, <1>2, PagesAssumption DEF Drafts, getPhotoDetails, initialPhotoDetails, PhotoDetails
    <2>2. getPhotoDetails(draft, p).place # None
      BY DEF hasUnconfirmedPhoto
    <2>3. QED
      BY <2>1, <2>2 DEF PhotoDetails
  <1> HIDE DEF n
  <1>4. ps = [k \in 1..n |-> [id |-> draft.photos[k], date |-> getPhotoDetails(draft, draft.photos[k]).date,
                              place |-> getPhotoDetails(draft, draft.photos[k]).place]]
    BY <1>2 DEF DraftPhotos
  <1>5. ASSUME NEW k \in 1..n
        PROVE  ps[k] \in SavedPhotos /\ ps[k].date = getPhotoDetails(draft, draft.photos[k]).date
    BY <1>2, <1>3, <1>4 DEF SavedPhotos
  <1>6. ps \in Seq(SavedPhotos) /\ Len(ps) = n /\ DOMAIN ps = 1..n
    BY <1>2, <1>4, <1>5
  <1>7. {ps[k].date : k \in DOMAIN ps} = {getPhotoDetails(draft, p).date : p \in Range(draft.photos)}
    <2> HIDE DEF ps
    <2>1. \A k \in 1..n : \E p \in Range(draft.photos) : ps[k].date = getPhotoDetails(draft, p).date
      BY <1>2, <1>5
    <2>2. \A p \in Range(draft.photos) : \E k \in 1..n : ps[k].date = getPhotoDetails(draft, p).date
      BY <1>2, <1>5
    <2>3. ASSUME NEW d
          PROVE  d \in {ps[k].date : k \in DOMAIN ps} <=> d \in {getPhotoDetails(draft, p).date : p \in Range(draft.photos)}
      BY <1>6, <2>1, <2>2
    <2> HIDE DEF getPhotoDetails
    <2>4. QED
      BY <2>3
  <1> HIDE DEF ps
  <1>8. ps # <<>>
    BY <1>2, <1>6
  <1>9. QED
    BY <1>6, <1>7, <1>8 DEF IsSave, ps

LEMMA SavesStep ==
  ASSUME DraftIInv, [Next]_vars
  PROVE  SavesOK'
  <1> USE DEF drafting, changing
  <1>1. SavesOK /\ CoordinatesIInv /\ IsPage(page) /\ draft \in Drafts
    BY DraftFits DEF DraftIInv
  <1>2. ASSUME page.at # "compose", saves' = saves
        PROVE  SavesOK'
    BY <1>1, <1>2, SavesStay
  <1>3. ASSUME page' = page, saves' = saves, picker' = picker, draft' = draft
        PROVE  SavesOK'
    BY <1>1, <1>3, SavesStay DEF SameDraft
  <1>4. CASE UNCHANGED vars
    BY <1>3, <1>4 DEF vars
  <1>5. CASE Drafting
    <2>1. CASE StartRecord \/ PickerOpened \/ OpenCompose
      BY <1>2, <2>1 DEF StartRecord, PickerOpened, OpenCompose
    <2>2. CASE ConfirmationAsked
      <3>1. saves' = saves /\ \A s \in saves : s.left
        BY <2>2 DEF ConfirmationAsked, isPending
      <3>2. QED
        BY <1>1, <3>1, SavesStay
    <2>3. ASSUME NEW p, PhotoRemoved(p) \/ OpenInfo(p)
          PROVE  SavesOK'
      BY <1>2, <2>3 DEF PhotoRemoved, OpenInfo
    <2>4. ASSUME NEW x, GoToPlaces(x) \/ DateChosen(x) \/ ModeChosen(x) \/ PlaceChosen(x)
          PROVE  SavesOK'
      BY <1>2, <2>4 DEF GoToPlaces, DateChosen, ModeChosen, PlaceChosen
    <2>5. ASSUME NEW r \in Records,
                 NEW notes \in [{getPhotoDetails(draft, p).date : p \in Range(draft.photos)} -> Notes],
                 SaveSubmitted(r, notes)
          PROVE  SavesOK'
      <3>0. PICK new : new = [record |-> r, photos |-> DraftPhotos(draft), notes |-> notes,
                              left |-> FALSE, picking |-> picker # None]
        OBVIOUS
      <3>1. /\ page.at = "compose" /\ page' = page /\ picker' = picker
            /\ ~hasUnconfirmedPhoto(draft) /\ \A s \in saves : s.left /\ s.record # r
            /\ draft' = discardTransientGps(draft, Photos) /\ saves' = saves \cup {new}
        BY <2>5, <3>0 DEF SaveSubmitted, isPending
      <3>2. draft.photos # <<>> /\ DraftTypeOK
        BY <3>1 DEF DraftIInv, CoordinatesIInv
      <3>3. IsSave(new)
        BY <3>0, <3>1, <3>2, SubmittedSave
      <3>4. /\ new.record = r /\ new.photos = DraftPhotos(draft) /\ ~new.left
            /\ (new.picking <=> picker # None)
        BY <3>0
      <3>5. DraftPhotos(draft') = DraftPhotos(draft)
        BY <1>1, <3>1, Discarded, SameDraftPhotos
      <3>6. OfTheDraft(new)'
        BY <3>1, <3>4, <3>5 DEF OfTheDraft
      <3>7. \A s \in saves : IsSave(s) /\ OfTheDraft(s)'
        BY <1>1, <3>1, SaveParts DEF OfTheDraft
      <3>8. SavesDiffer(saves')
        <4>1. SavesDiffer(saves)
          BY <1>1, SaveParts
        <4>2. QED
          BY <3>1, <3>4, <4>1 DEF SavesDiffer
      <3>9. QED
        BY <3>1, <3>3, <3>6, <3>7, <3>8, SavePartsPrime
    <2>6. QED
      BY <1>5, <2>1, <2>2, <2>3, <2>4, <2>5 DEF Drafting
  <1>6. CASE Editing
    <2>1. ASSUME NEW r, OpenRecord(r)
          PROVE  SavesOK'
      BY <1>2, <2>1 DEF OpenRecord
    <2>2. CASE OpenEdit
      BY <1>2, <2>2 DEF OpenEdit
    <2>3. ASSUME NEW visit, OpenPlaceEdit(visit)
          PROVE  SavesOK'
      BY <1>2, <2>3 DEF OpenPlaceEdit
    <2>4. CASE RecordDeleteSubmitted
      BY <1>2, <2>4 DEF RecordDeleteSubmitted, Submitted
    <2>5. ASSUME NEW notes, EditSubmitted(notes)
          PROVE  SavesOK'
      BY <1>2, <2>5 DEF EditSubmitted, Submitted
    <2>6. ASSUME NEW date, NEW place, PlaceEditSubmitted(date, place)
          PROVE  SavesOK'
      BY <1>2, <2>6 DEF PlaceEditSubmitted, Submitted
    <2>7. ASSUME NEW day, NEW photo, DeleteAsked(day, photo)
          PROVE  SavesOK'
      BY <1>2, <2>7 DEF DeleteAsked
    <2>8. QED
      BY <1>6, <2>1, <2>2, <2>3, <2>4, <2>5, <2>6, <2>7 DEF Editing
  <1>7. CASE Back
    <2>1. saves' = Unattended(saves) \/ (page.at # "compose" /\ saves' = saves)
      BY <1>7 DEF Back
    <2>2. QED
      BY <1>1, <1>2, <2>1, SavesLeft
  <1>8. CASE Elsewhere
    <2>1. CASE PickerClosed
      <3>1. saves' = saves /\ page' = page /\ picker' = None /\ SameDraft
        BY <2>1 DEF PickerClosed, SameDraft
      <3>2. QED
        BY <1>1, <3>1, SavesStay
    <2>2. CASE SearchWidens \/ RecordRead \/ \E r \in Records : CopyForgotten(r)
      BY <1>3, <2>2 DEF SearchWidens, RecordRead, CopyForgotten
    <2>3. ASSUME NEW assets, PhotosPicked(assets)
          PROVE  SavesOK'
      <3>1. saves' = saves /\ page' = page /\ picker # None
        BY <2>3 DEF PhotosPicked
      <3>2. QED
        BY <1>1, <3>1, SavesStay
    <2>4. ASSUME NEW c, ConfigSettles(c)
          PROVE  SavesOK'
      BY <1>3, <2>4 DEF ConfigSettles
    <2>5. ASSUME NEW end, SearchEnds(end)
          PROVE  SavesOK'
      <3>1. saves' = saves /\ page' = page /\ picker' = picker /\ draft' = discardTransientGps(draft, {search.photo})
        BY <2>5 DEF SearchEnds
      <3>2. SameDraft
        BY <1>1, <3>1, Discarded DEF SameDraft
      <3>3. QED
        BY <1>1, <3>1, <3>2, SavesStay
    <2>6. ASSUME NEW s \in saves, SaveStored(s)
          PROVE  SavesOK'
      <3>1. saves' = Unattended(saves \ {s}) /\ saves \ {s} \in SUBSET saves
        BY <2>6 DEF SaveStored
      <3>2. QED
        BY <1>1, <3>1, SavesLeft
    <2>7. ASSUME NEW s \in saves, SaveFails(s)
          PROVE  SavesOK'
      <3>1. saves' \subseteq saves /\ page' = page /\ picker' = picker /\ SameDraft
        BY <2>7 DEF SaveFails, SameDraft
      <3>2. QED
        BY <1>1, <3>1, SavesStay
    <2>8. ASSUME NEW k, WriteCommits(k)
          PROVE  SavesOK'
      BY <1>3, <2>8 DEF WriteCommits
    <2>9. ASSUME NEW k, WriteFails(k)
          PROVE  SavesOK'
      <3>1. saves' = saves /\ page'.at = page.at /\ picker' = picker /\ SameDraft
        BY <1>1, <2>9 DEF WriteFails, SameDraft, IsPage
      <3>2. QED
        BY <1>1, <3>1, SavesStay
    <2>10. ASSUME NEW k, WriteSettles(k)
           PROVE  SavesOK'
      <3>1. \/ saves' = Unattended(saves)
            \/ page' = page /\ saves' = saves /\ picker' = picker /\ draft' = draft
        BY <2>10 DEF WriteSettles
      <3>2. QED
        BY <1>1, <1>3, <3>1, SavesLeft
    <2>11. ASSUME NEW confirmed, DeleteAnswered(confirmed)
           PROVE  SavesOK'
      BY <1>3, <2>11 DEF DeleteAnswered, Submitted
    <2>12. QED
      BY <1>8, <2>1, <2>2, <2>3, <2>4, <2>5, <2>6, <2>7, <2>8, <2>9, <2>10, <2>11 DEF Elsewhere
  <1>9. QED
    BY <1>4, <1>5, <1>6, <1>7, <1>8 DEF Next

(***************************************************************************)
(* The pages and the changes that wait for them.                           *)
(***************************************************************************)
AllLeft(s) == \A k \in DOMAIN s : s[k].left

LEMMA AllLeftQueue ==
  ASSUME NEW s, IsQueue(s)
  PROVE  /\ AllLeft(UnattendedSeq(s)) /\ Len(UnattendedSeq(s)) = Len(s)
         /\ AllLeft(s) => UnattendedSeq(s) = s
         /\ \A w : IsWrite(w) /\ AllLeft(s) /\ w.left => AllLeft(Append(s, w))
         /\ \A k \in DOMAIN s :
               /\ IsQueue(RemoveAt(s, k)) /\ Len(RemoveAt(s, k)) < Len(s)
               /\ AllLeft(s) => AllLeft(RemoveAt(s, k))
               /\ AllLeft(s) => AllLeft([s EXCEPT ![k].done = TRUE])
  <1>1. Len(s) \in Nat /\ DOMAIN s = 1..Len(s)
    BY QueueIndexed
  <1>2. /\ IsQueue(UnattendedSeq(s)) /\ Len(UnattendedSeq(s)) = Len(s)
        /\ \A k \in 1..Len(s) : UnattendedSeq(s)[k].left
        /\ (\A k \in 1..Len(s) : s[k].left) => UnattendedSeq(s) = s
    BY UnattendedQueue
  <1>3. AllLeft(UnattendedSeq(s)) /\ (AllLeft(s) => UnattendedSeq(s) = s)
    <2>1. DOMAIN UnattendedSeq(s) = 1..Len(s)
      BY <1>1, <1>2, QueueIndexed
    <2>2. QED
      BY <1>1, <1>2, <2>1 DEF AllLeft
  <1>4. ASSUME NEW w, IsWrite(w), AllLeft(s), w.left
        PROVE  AllLeft(Append(s, w))
    <2> DEFINE t == Append(s, w)
    <2>1. /\ IsQueue(t) /\ Len(t) = Len(s) + 1 /\ t[Len(s) + 1] = w
          /\ \A k \in 1..Len(s) : t[k] = s[k]
      BY <1>4, AppendedQueue
    <2> HIDE DEF t
    <2>2. DOMAIN t = 1..(Len(s) + 1)
      BY <2>1, QueueIndexed
    <2>3. \A k \in 1..(Len(s) + 1) : k \in 1..Len(s) \/ k = Len(s) + 1
      BY <1>1
    <2>4. AllLeft(t)
      BY <1>1, <1>4, <2>1, <2>2, <2>3 DEF AllLeft
    <2>5. QED
      BY <2>4 DEF t
  <1>5. ASSUME NEW k \in DOMAIN s
        PROVE  /\ IsQueue(RemoveAt(s, k)) /\ Len(RemoveAt(s, k)) < Len(s)
               /\ AllLeft(s) => AllLeft(RemoveAt(s, k))
    <2> DEFINE t == RemoveAt(s, k)
    <2>1. /\ IsQueue(t) /\ Len(t) = Len(s) - 1
          /\ \A j \in 1..Len(t) : t[j] = s[IF j < k THEN j ELSE j + 1]
                                  /\ (IF j < k THEN j ELSE j + 1) \in 1..Len(s)
      BY ShortenedQueue
    <2> HIDE DEF t
    <2>2. DOMAIN t = 1..Len(t)
      BY <2>1, QueueIndexed
    <2>3. AllLeft(s) => AllLeft(t)
      BY <1>1, <2>1, <2>2 DEF AllLeft
    <2>4. QED
      BY <1>1, <2>1, <2>3 DEF t
  <1>6. ASSUME NEW k \in DOMAIN s, AllLeft(s)
        PROVE  AllLeft([s EXCEPT ![k].done = TRUE])
    <2> DEFINE t == [s EXCEPT ![k].done = TRUE]
    <2>1. IsQueue(t) /\ Len(t) = Len(s) /\ \A j \in 1..Len(s) : t[j].left = s[j].left
      BY CommittedQueue DEF Commits
    <2> HIDE DEF t
    <2>2. DOMAIN t = 1..Len(s)
      BY <2>1, QueueIndexed
    <2>3. AllLeft(t)
      BY <1>1, <1>6, <2>1, <2>2 DEF AllLeft
    <2>4. QED
      BY <2>3 DEF t
  <1>7. QED
    BY <1>2, <1>3, <1>4, <1>5, <1>6

PagesOK ==
    /\ page.at \in {"places", "info", "compose"} => draft.photos # <<>>
    /\ page.at \in DraftPages \cup {"home"} => AllLeft(writes)
    /\ alert # None => page.at \in {"home", "detail"}
    /\ records = [r \in Records |-> records[r]]

LEMMA DraftParts == DraftIInv <=> CoordinatesIInv /\ QueueOK /\ SavesOK /\ PagesOK
  BY DEF DraftIInv, PagesOK, AllLeft

LEMMA PagesStep ==
  ASSUME DraftIInv, [Next]_vars
  PROVE  PagesOK'
  <1> USE DEF drafting, changing, stored
  <1>1. /\ PagesOK /\ IsPage(page) /\ draft \in Drafts /\ IsQueue(writes)
        /\ AllLeft(UnattendedSeq(writes))
    BY DraftParts, DraftFits, Queue, AllLeftQueue
  <1>2. ASSUME page'.at = page.at, draft'.photos = draft.photos, AllLeft(writes) => AllLeft(writes'),
               alert' \in {alert, None}, records' = records
        PROVE  PagesOK'
    BY <1>1, <1>2 DEF PagesOK
  <1>3. CASE UNCHANGED vars
    BY <1>2, <1>3 DEF vars
  <1>4. ASSUME NEW at \in Pages, NEW r, NEW v, ArriveAt(NewPage(at, r, v), draft)
        PROVE  /\ page'.at = at
               /\ at \in DraftPages \/ page.at \notin DraftPages => draft'.photos = draft.photos
    <2>1. NewPage(at, r, v).at = at
      BY HomeOK
    <2>2. QED
      BY <1>1, <1>4, <2>1, Arrived
  <1>5. CASE Drafting /\ alert = None
    <2>1. CASE StartRecord
      <3>1. /\ page.at = "home" /\ ArriveAt(NewPage("photos", None, None), EmptyDraft)
            /\ writes' = writes /\ alert' = alert /\ records' = records
        BY <2>1 DEF StartRecord
      <3>2. page'.at = "photos"
        BY <3>1, Arrived, HomeOK DEF Pages
      <3>3. QED
        BY <1>1, <1>5, <3>1, <3>2 DEF PagesOK
    <2>2. CASE PickerOpened
      BY <1>2, <2>2 DEF PickerOpened
    <2>3. CASE OpenCompose
      <3>1. /\ page.at = "places" /\ ArriveAt(NewPage("compose", None, None), draft)
            /\ writes' = writes /\ alert' = alert /\ records' = records
        BY <2>3 DEF OpenCompose
      <3>2. page'.at = "compose" /\ draft'.photos = draft.photos
        BY <1>4, <3>1 DEF Pages, DraftPages
      <3>3. QED
        BY <1>1, <1>5, <3>1, <3>2 DEF PagesOK, DraftPages
    <2>4. CASE ConfirmationAsked
      <3>1. /\ page.at = "compose" /\ ArriveAt(NewPage("places", None, None), draft)
            /\ writes' = writes /\ alert' = alert /\ records' = records
        BY <2>4 DEF ConfirmationAsked
      <3>2. page'.at = "places" /\ draft'.photos = draft.photos
        BY <1>4, <3>1 DEF Pages, DraftPages
      <3>3. QED
        BY <1>1, <1>5, <3>1, <3>2 DEF PagesOK, DraftPages
    <2>5. ASSUME NEW p \in Photos, PhotoRemoved(p)
          PROVE  PagesOK'
      <3>1. page.at = "photos" /\ page' = page /\ writes' = writes /\ alert' = alert /\ records' = records
        BY <2>5 DEF PhotoRemoved
      <3>2. QED
        BY <1>1, <3>1 DEF PagesOK
    <2>6. ASSUME NEW p \in Photos, OpenInfo(p)
          PROVE  PagesOK'
      <3> DEFINE d == [draft EXCEPT !.selected = p,
                                    !.gps = IF draft.decision = "nearby" THEN @ ELSE @ \ {p}]
      <3>1. /\ page.at = "places" /\ ArriveAt(NewPage("info", None, None), d)
            /\ writes' = writes /\ alert' = alert /\ records' = records
        BY <2>6 DEF OpenInfo
      <3>2. d \in Drafts /\ d.photos = draft.photos
        BY <1>1 DEF Drafts
      <3> HIDE DEF d
      <3>3. page'.at = "info" /\ draft'.photos = draft.photos
        BY <3>1, <3>2, Arrived, HomeOK DEF Pages, DraftPages
      <3>4. QED
        BY <1>1, <1>5, <3>1, <3>3 DEF PagesOK, DraftPages
    <2>7. ASSUME NEW decision \in {"manual", "nearby"}, GoToPlaces(decision)
          PROVE  PagesOK'
      <3>1. /\ page.at = "photos" /\ draft.photos # <<>>
            /\ writes' = writes /\ alert' = alert /\ records' = records
            /\ \/ ArriveAt(NewPage("places", None, None), draft)
               \/ ArriveAt(NewPage("places", None, None), decideLocationSearch(draft, decision))
        BY <2>7 DEF GoToPlaces
      <3>2. decideLocationSearch(draft, decision) \in Drafts
            /\ decideLocationSearch(draft, decision).photos = draft.photos
        BY <1>1 DEF Drafts, decideLocationSearch, Decisions
      <3>3. page'.at = "places" /\ draft'.photos = draft.photos
        BY <1>1, <3>1, <3>2, Arrived, HomeOK DEF Pages, DraftPages
      <3>4. QED
        BY <1>1, <1>5, <3>1, <3>3 DEF PagesOK, DraftPages
    <2>8. ASSUME NEW date, DateChosen(date)
          PROVE  PagesOK'
      <3>1. draft'.photos = draft.photos /\ page' = page /\ writes' = writes /\ alert' = alert /\ records' = records
        BY <1>1, <2>8 DEF DateChosen, setPhotoDate, Drafts
      <3>2. QED
        BY <1>2, <3>1
    <2>9. ASSUME NEW mode, ModeChosen(mode)
          PROVE  PagesOK'
      <3>1. page'.at = page.at /\ writes' = writes /\ alert' = alert /\ records' = records
        BY <1>1, <2>9 DEF ModeChosen, IsPage
      <3>2. draft'.photos = draft.photos
        BY <1>1, <2>9, Discarded DEF ModeChosen
      <3>3. QED
        BY <1>2, <3>1, <3>2
    <2>10. ASSUME NEW place, PlaceChosen(place)
           PROVE  PagesOK'
      <3>1. page' = page /\ writes' = writes /\ alert' = alert /\ records' = records
        BY <2>10 DEF PlaceChosen
      <3>2. draft'.photos = draft.photos
        BY <1>1, <2>10 DEF PlaceChosen, discardTransientGps, setPhotoPlace, Drafts
      <3>3. QED
        BY <1>2, <3>1, <3>2
    <2>11. ASSUME NEW r, NEW notes, SaveSubmitted(r, notes)
           PROVE  PagesOK'
      <3>1. page' = page /\ writes' = writes /\ alert' = alert /\ records' = records
        BY <2>11 DEF SaveSubmitted
      <3>2. draft'.photos = draft.photos
        BY <1>1, <2>11, Discarded DEF SaveSubmitted
      <3>3. QED
        BY <1>2, <3>1, <3>2
    <2>12. QED
      BY <1>5, <2>1, <2>2, <2>3, <2>4, <2>5, <2>6, <2>7, <2>8, <2>9, <2>10, <2>11 DEF Drafting
  <1>6. CASE Editing /\ alert = None
    <2>1. ASSUME NEW at \in {"detail", "edit", "placeEdit"}, page'.at = at, alert' = alert, records' = records
          PROVE  PagesOK'
      BY <1>1, <1>6, <2>1 DEF PagesOK, DraftPages
    <2>2. ASSUME NEW r, OpenRecord(r)
          PROVE  PagesOK'
      <3>1. page'.at = "detail" /\ alert' = alert /\ records' = records
        BY <1>4, <2>2 DEF OpenRecord, Pages
      <3>2. QED
        BY <2>1, <3>1
    <2>3. CASE OpenEdit
      <3>1. page'.at = "edit" /\ alert' = alert /\ records' = records
        BY <1>4, <2>3 DEF OpenEdit, Pages
      <3>2. QED
        BY <2>1, <3>1
    <2>4. ASSUME NEW visit, OpenPlaceEdit(visit)
          PROVE  PagesOK'
      <3>1. page'.at = "placeEdit" /\ alert' = alert /\ records' = records
        BY <1>4, <2>4 DEF OpenPlaceEdit, Pages
      <3>2. QED
        BY <2>1, <3>1
    <2>5. CASE RecordDeleteSubmitted
      <3>1. page'.at = "edit" /\ alert' = alert /\ records' = records
        BY <1>1, <2>5 DEF RecordDeleteSubmitted, Submitted, IsPage
      <3>2. QED
        BY <2>1, <3>1
    <2>6. ASSUME NEW notes, EditSubmitted(notes)
          PROVE  PagesOK'
      <3>1. page'.at = "edit" /\ alert' = alert /\ records' = records
        BY <1>1, <2>6 DEF EditSubmitted, Submitted, IsPage
      <3>2. QED
        BY <2>1, <3>1
    <2>7. ASSUME NEW date, NEW place, PlaceEditSubmitted(date, place)
          PROVE  PagesOK'
      <3>1. page'.at = "placeEdit" /\ alert' = alert /\ records' = records
        BY <1>1, <2>7 DEF PlaceEditSubmitted, Submitted, IsPage
      <3>2. QED
        BY <2>1, <3>1
    <2>8. ASSUME NEW day, NEW photo, DeleteAsked(day, photo)
          PROVE  PagesOK'
      <3>1. page'.at = "detail" /\ records' = records
        BY <2>8 DEF DeleteAsked
      <3>2. QED
        BY <1>1, <3>1 DEF PagesOK, DraftPages
    <2>9. QED
      BY <1>6, <2>2, <2>3, <2>4, <2>5, <2>6, <2>7, <2>8 DEF Editing
  <1>7. CASE Back /\ alert = None
    <2>1. /\ page.at # "home" /\ ArriveAt(Below(page), draft) /\ AllLeft(writes')
          /\ alert' = alert /\ records' = records
      BY <1>1, <1>7 DEF Back
    <2>2. page' = Below(page) /\ Below(page).at \in {"home", "photos", "places", "detail"}
      BY <1>1, <2>1, Arrived, BelowOK DEF IsPage
    <2>3. Below(page).at = "places" => page.at \in {"info", "compose"}
      <3>1. \A at \in Pages : \A r : NewPage(at, r, None).at = at
        BY HomeOK
      <3>2. QED
        BY <1>1, <2>1, <3>1 DEF Below, Home, IsPage, Pages
    <2>4. Below(page).at = "places" => draft'.photos = draft.photos
      BY <1>1, <2>1, <2>3, Arrived DEF DraftPages
    <2>5. QED
      BY <1>1, <1>7, <2>1, <2>2, <2>3, <2>4 DEF PagesOK
  <1>8. CASE Elsewhere
    <2>1. CASE PickerClosed \/ SearchWidens \/ RecordRead \/ \E r \in Records : CopyForgotten(r)
      BY <1>2, <2>1 DEF PickerClosed, SearchWidens, RecordRead, CopyForgotten
    <2>2. ASSUME NEW assets \in Picks, PhotosPicked(assets)
          PROVE  PagesOK'
      <3>1. /\ page' = page /\ writes' = writes /\ alert' = alert /\ records' = records
            /\ draft' = addPhotosFromLibrary(draft, assets, picker)
        BY <2>2 DEF PhotosPicked
      <3>2. Range(draft.photos) \subseteq Range(draft'.photos)
        BY <3>1, DraftParts, DraftFits, PicksAreLists, Added
      <3>3. draft.photos # <<>> => draft'.photos # <<>>
        <4>2. draft.photos # <<>> => Range(draft.photos) # {}
          BY <1>1, SelectedPhotoType
        <4>3. Range(<<>>) = {}
          BY DEF Range
        <4>4. QED
          BY <3>2, <4>2, <4>3
      <3>4. QED
        BY <1>1, <3>1, <3>3 DEF PagesOK
    <2>3. ASSUME NEW c, ConfigSettles(c)
          PROVE  PagesOK'
      BY <1>2, <2>3 DEF ConfigSettles
    <2>4. ASSUME NEW end, SearchEnds(end)
          PROVE  PagesOK'
      <3>1. page' = page /\ writes' = writes /\ alert' = alert /\ records' = records
        BY <2>4 DEF SearchEnds
      <3>2. draft'.photos = draft.photos
        BY <1>1, <2>4, Discarded DEF SearchEnds
      <3>3. QED
        BY <1>2, <3>1, <3>2
    <2>5. ASSUME NEW s \in saves, SaveStored(s)
          PROVE  PagesOK'
      <3>1. /\ ArriveAt(NewPage("detail", s.record, None), EmptyDraft)
            /\ alert' = alert /\ records' = [records EXCEPT ![s.record] = SaveRow(s)]
        BY <2>5 DEF SaveStored
      <3>2. page'.at = "detail"
        BY <3>1, Arrived, HomeOK DEF Pages
      <3>3. records' = [r \in Records |-> records'[r]]
        BY <1>1, <3>1 DEF PagesOK
      <3>4. QED
        BY <3>2, <3>3 DEF PagesOK, DraftPages
    <2>6. ASSUME NEW s \in saves, SaveFails(s)
          PROVE  PagesOK'
      BY <1>2, <2>6 DEF SaveFails
    <2>7. ASSUME NEW k \in DOMAIN writes, WriteCommits(k)
          PROVE  PagesOK'
      <3>1. /\ page' = page /\ draft' = draft /\ alert' = alert
            /\ records' = [records EXCEPT ![writes[k].record] = writes[k].days]
            /\ writes' = [writes EXCEPT ![k].done = TRUE]
        BY <2>7 DEF WriteCommits
      <3>2. AllLeft(writes) => AllLeft(writes')
        BY <1>1, <3>1, AllLeftQueue
      <3>3. records' = [r \in Records |-> records'[r]]
        BY <1>1, <3>1 DEF PagesOK
      <3>4. QED
        BY <1>1, <3>1, <3>2, <3>3 DEF PagesOK
    <2>8. ASSUME NEW k \in DOMAIN writes, WriteFails(k)
          PROVE  PagesOK'
      <3>1. /\ page'.at = page.at /\ draft' = draft /\ alert' = alert /\ records' = records
            /\ writes' = RemoveAt(writes, k)
        BY <1>1, <2>8 DEF WriteFails, IsPage
      <3>2. AllLeft(writes) => AllLeft(writes')
        BY <1>1, <3>1, AllLeftQueue
      <3>3. QED
        BY <1>2, <3>1, <3>2
    <2>9. ASSUME NEW k \in DOMAIN writes, WriteSettles(k)
          PROVE  PagesOK'
      <3>1. alert' = alert /\ records' = records /\ IsQueue(RemoveAt(writes, k))
        BY <1>1, <2>9, AllLeftQueue DEF WriteSettles
      <3>2. CASE writes[k].op = "photo"
        <4>1. page' = page /\ draft' = draft /\ writes' = RemoveAt(writes, k)
          BY <2>9, <3>2 DEF WriteSettles
        <4>2. AllLeft(writes) => AllLeft(writes')
          BY <1>1, <4>1, AllLeftQueue
        <4>3. QED
          BY <1>2, <3>1, <4>1, <4>2
      <3>3. CASE writes[k].op # "photo"
        <4> DEFINE new == NextPage(writes[k])
        <4>1. ArriveAt(new, draft) /\ writes' = UnattendedSeq(RemoveAt(writes, k))
          BY <2>9, <3>3 DEF WriteSettles
        <4>2. AllLeft(writes')
          BY <3>1, <4>1, AllLeftQueue
        <4>3. \A at \in Pages : \A r : NewPage(at, r, None).at = at
          BY HomeOK
        <4>4. Home.at = "home"
          BY <4>3 DEF Home, Pages
        <4>5. page.at # "home" => Below(page).at \in {"home", "photos", "places", "detail"}
          BY <1>1, BelowOK DEF IsPage
        <4>6. page.at # "home" /\ Below(page).at = "places" => page.at \in {"info", "compose"}
          BY <1>1, <4>3 DEF Below, Home, IsPage, Pages
        <4>7. writes[k].op \in Ops
          BY <1>1, QueueIndexed DEF IsWrite
        <4>8. /\ new.at \in {"home", "photos", "places", "detail"}
              /\ new.at = "places" => page.at \in {"info", "compose"}
          BY <3>3, <4>3, <4>4, <4>5, <4>6, <4>7 DEF NextPage, Ops, Pages
        <4>9. page.at \in {"home", "detail"} => new.at \in {"home", "detail"}
          <5>1. page.at = "detail" => Below(page) = Home
            BY DEF Below
          <5>2. QED
            BY <3>3, <4>3, <4>4, <4>7, <5>1 DEF NextPage, Ops, Pages
        <4> HIDE DEF new
        <4>10. page' = new /\ (new.at = "places" => draft'.photos = draft.photos)
          BY <1>1, <4>1, <4>8, Arrived DEF DraftPages
        <4>11. QED
          BY <1>1, <3>1, <4>2, <4>8, <4>9, <4>10 DEF PagesOK
      <3>4. QED
        BY <3>2, <3>3
    <2>10. ASSUME NEW confirmed, DeleteAnswered(confirmed)
           PROVE  PagesOK'
      <3> DEFINE days == removeRecordPhoto(alert.copy, alert.day, alert.photo)
                 op == IF days = <<>> THEN "record" ELSE "photo"
                 behind == alert.behind \/ Overlapping(alert.record)
                 left == page.at # "detail" \/ page.record # alert.record
                 w == [Write(alert.record, op, alert.photo, days, alert.copy, behind) EXCEPT !.left = left]
      <3>1. writes' = writes \/ writes' = Append(writes, w)
        BY <2>10 DEF DeleteAnswered, Submitted
      <3>2. page' = page /\ draft' = draft /\ alert' = None /\ records' = records
        BY <2>10 DEF DeleteAnswered, Submitted
      <3>3. op \in Ops /\ behind \in BOOLEAN /\ left \in BOOLEAN
        BY DEF Ops
      <3> HIDE DEF op, behind, days
      <3>4. IsWrite(w) /\ w.left = left
        <4> HIDE DEF left
        <4>1. QED
          BY <3>3, IsWriteWrite
      <3> HIDE DEF w
      <3>5. page.at # "detail" /\ AllLeft(writes) => AllLeft(writes')
        BY <1>1, <3>1, <3>4, AllLeftQueue
      <3>6. QED
        BY <1>1, <3>2, <3>5 DEF PagesOK, DraftPages
    <2>11. QED
      BY <1>8, <2>1, <2>2, <2>3, <2>4, <2>5, <2>6, <2>7, <2>8, <2>9, <2>10 DEF Elsewhere
  <1>9. QED
    BY <1>3, <1>5, <1>6, <1>7, <1>8 DEF Next

LEMMA DraftStep ==
  ASSUME DraftIInv, [Next]_vars
  PROVE  DraftIInv'
  <1>1. CoordinatesIInv' /\ QueueOK'
    BY DraftParts, CoordinatesStep, QueueStep
  <1>2. SavesOK' /\ PagesOK'
    BY SavesStep, PagesStep
  <1>3. QED
    BY <1>1, <1>2 DEF DraftIInv, PagesOK, AllLeft

LEMMA DraftInit == Init => DraftIInv
  <1> SUFFICES ASSUME Init PROVE DraftIInv
    OBVIOUS
  <1>1. CoordinatesIInv /\ QueueOK
    BY CoordinatesInit, QueueInit
  <1>2. SavesOK
    BY DEF Init, SavesOK
  <1>3. Home.at = "home"
    BY HomeOK DEF Home, Pages
  <1>4. PagesOK
    BY <1>3 DEF Init, PagesOK, AllLeft
  <1>5. QED
    BY <1>1, <1>2, <1>4, DraftParts

\* A save that is stored, as DraftIsKept sees it.
LEMMA StoredSave ==
  ASSUME DraftIInv, NEW s \in saves, SaveStored(s)
  PROVE  /\ s.record \notin {t.record : t \in saves'}
         /\ ~s.left /\ ~s.picking =>
               Exists(s.record)' /\ \A p \in Range(draft.photos) : Holds(records'[s.record], draft, p)
  <1>1. /\ \A t \in saves : IsSave(t) /\ OfTheDraft(t)
        /\ SavesDiffer(saves) /\ records = [r \in Records |-> records[r]]
    BY SaveParts DEF DraftIInv
  <1>2. saves' = Unattended(saves \ {s}) /\ records' = [records EXCEPT ![s.record] = SaveRow(s)]
    BY DEF SaveStored
  <1>3. s.record \notin {t.record : t \in saves'}
    <2> SUFFICES ASSUME NEW t \in saves', t.record = s.record
                 PROVE  FALSE
      OBVIOUS
    <2>1. PICK u \in saves \ {s} : t = [u EXCEPT !.left = TRUE]
      BY <1>2 DEF Unattended
    <2>2. u.record = s.record
      BY <1>1, <2>1, LeftSave
    <2>3. QED
      BY <1>1, <2>1, <2>2 DEF SavesDiffer
  <1>4. ASSUME ~s.left, ~s.picking
        PROVE  Exists(s.record)' /\ \A p \in Range(draft.photos) : Holds(records'[s.record], draft, p)
    <2>1. s.photos = DraftPhotos(draft)
      BY <1>1, <1>4 DEF OfTheDraft
    <2>2. /\ s.record \in Records /\ s.photos \in Seq(SavedPhotos) /\ s.photos # <<>>
          /\ s.notes \in [{s.photos[k].date : k \in DOMAIN s.photos} -> Notes]
      BY <1>1 DEF IsSave
    <2> DEFINE days == SaveRow(s)
    <2>3. /\ RecordOK(s.record, days, {}) /\ days # <<>>
          /\ \A k \in DOMAIN s.photos :
                \E day \in DaysOf(days) :
                   /\ day.date = s.photos[k].date
                   /\ \E p \in PhotosOf(day), v \in VisitsOf(day) :
                         p.asset = s.photos[k].id /\ v.photo = p.id /\ v.place = s.photos[k].place
      BY <2>2, SavedRecord DEF SaveRow
    <2>4. records'[s.record] = days
      BY <1>1, <1>2, <2>2
    <2> HIDE DEF days
    <2>5. days # None
      BY <2>2, <2>3, StoredAssumption DEF RecordOK
    <2>6. ASSUME NEW p \in Range(draft.photos)
          PROVE  Holds(days, draft, p)
      <3>1. PICK k \in DOMAIN draft.photos : draft.photos[k] = p
        BY DEF Range
      <3>2. /\ k \in DOMAIN s.photos /\ s.photos[k].id = p
            /\ s.photos[k].date = getPhotoDetails(draft, p).date
            /\ s.photos[k].place = getPhotoDetails(draft, p).place
        BY <2>1, <3>1 DEF DraftPhotos
      <3>3. QED
        BY <2>3, <3>2 DEF Holds
    <2>7. QED
      BY <2>3, <2>4, <2>5, <2>6 DEF Exists
  <1>5. QED
    BY <1>3, <1>4

\* Every step keeps the photos of the draft but for the ways named.
LEMMA DraftKept ==
  ASSUME DraftIInv, [Next]_vars,
         Range(draft.photos) \ Range(draft'.photos) # {}
  PROVE  LeavesTheDraft(Range(draft.photos) \ Range(draft'.photos))
  <1> DEFINE lost == Range(draft.photos) \ Range(draft'.photos)
  <1> USE DEF drafting, changing, stored
  <1>1. /\ PagesOK /\ IsPage(page) /\ draft \in Drafts /\ IsQueue(writes)
    BY DraftParts, DraftFits, Queue
  <1>2. draft'.photos # draft.photos
    OBVIOUS
  <1>3. ASSUME NEW new, ArriveAt(new, draft)
        PROVE  page' = new /\ page.at \in DraftPages /\ new.at \notin DraftPages
    BY <1>1, <1>2, <1>3, Arrived
  <1>4. \A at \in Pages : \A r, v : NewPage(at, r, v).at = at
    BY HomeOK
  <1>5. CASE UNCHANGED vars
    BY <1>2, <1>5 DEF vars
  <1>6. CASE Drafting
    <2>1. CASE StartRecord
      <3>1. page.at = "home" /\ page' = NewPage("photos", None, None)
        BY <2>1, Arrived DEF StartRecord
      <3>2. QED
        BY <1>4, <3>1 DEF LeavesTheDraft, Pages
    <2>2. CASE PickerOpened
      BY <1>2, <2>2 DEF PickerOpened
    <2>3. CASE OpenCompose \/ ConfirmationAsked
      <3>1. ArriveAt(NewPage("compose", None, None), draft) \/ ArriveAt(NewPage("places", None, None), draft)
        BY <2>3 DEF OpenCompose, ConfirmationAsked
      <3>2. QED
        BY <1>3, <1>4, <3>1 DEF Pages, DraftPages
    <2>4. ASSUME NEW p \in Photos, PhotoRemoved(p)
          PROVE  LeavesTheDraft(lost)
      <3>1. page.at = "photos" /\ page' = page /\ p \in Range(draft.photos) /\ draft' = removePhoto(draft, p)
        BY <2>4 DEF PhotoRemoved
      <3>2. Range(draft'.photos) = Range(draft.photos) \ {p}
        BY <3>1, DraftParts, DraftFits, Removed
      <3>3. lost = {p}
        BY <3>1, <3>2
      <3> HIDE DEF lost
      <3>4. Cardinality(lost) = 1
        BY <3>3, FS_Singleton
      <3>5. QED
        BY <3>1, <3>4 DEF LeavesTheDraft
    <2>5. ASSUME NEW p \in Photos, OpenInfo(p)
          PROVE  LeavesTheDraft(lost)
      <3> DEFINE d == [draft EXCEPT !.selected = p,
                                    !.gps = IF draft.decision = "nearby" THEN @ ELSE @ \ {p}]
      <3>1. ArriveAt(NewPage("info", None, None), d) /\ d \in Drafts /\ d.photos = draft.photos
        BY <1>1, <2>5 DEF OpenInfo, Drafts
      <3> HIDE DEF d
      <3>2. draft'.photos = draft.photos
        BY <1>4, <3>1, Arrived DEF Pages, DraftPages
      <3>3. QED
        BY <1>2, <3>2
    <2>6. ASSUME NEW decision \in {"manual", "nearby"}, GoToPlaces(decision)
          PROVE  LeavesTheDraft(lost)
      <3> DEFINE d == decideLocationSearch(draft, decision)
      <3>1. \/ ArriveAt(NewPage("places", None, None), draft)
            \/ ArriveAt(NewPage("places", None, None), d)
        BY <2>6 DEF GoToPlaces
      <3>2. d \in Drafts /\ d.photos = draft.photos
        BY <1>1 DEF Drafts, decideLocationSearch, Decisions
      <3> HIDE DEF d
      <3>3. draft'.photos = draft.photos
        BY <1>1, <1>4, <3>1, <3>2, Arrived DEF Pages, DraftPages
      <3>4. QED
        BY <1>2, <3>3
    <2>7. ASSUME NEW date, DateChosen(date)
          PROVE  LeavesTheDraft(lost)
      BY <1>1, <1>2, <2>7 DEF DateChosen, setPhotoDate, Drafts
    <2>8. ASSUME NEW mode, ModeChosen(mode)
          PROVE  LeavesTheDraft(lost)
      BY <1>1, <1>2, <2>8, Discarded DEF ModeChosen
    <2>9. ASSUME NEW place, PlaceChosen(place)
          PROVE  LeavesTheDraft(lost)
      BY <1>1, <1>2, <2>9 DEF PlaceChosen, discardTransientGps, setPhotoPlace, Drafts
    <2>10. ASSUME NEW r, NEW notes, SaveSubmitted(r, notes)
           PROVE  LeavesTheDraft(lost)
      BY <1>1, <1>2, <2>10, Discarded DEF SaveSubmitted
    <2>11. QED
      BY <1>6, <2>1, <2>2, <2>3, <2>4, <2>5, <2>6, <2>7, <2>8, <2>9, <2>10 DEF Drafting
  <1>7. CASE Editing
    <2>1. ASSUME NEW r, OpenRecord(r)
          PROVE  LeavesTheDraft(lost)
      BY <1>3, <2>1 DEF OpenRecord, DraftPages
    <2>2. CASE OpenEdit
      BY <1>3, <2>2 DEF OpenEdit, DraftPages
    <2>3. ASSUME NEW visit, OpenPlaceEdit(visit)
          PROVE  LeavesTheDraft(lost)
      BY <1>3, <2>3 DEF OpenPlaceEdit, DraftPages
    <2>4. CASE RecordDeleteSubmitted
      BY <1>2, <2>4 DEF RecordDeleteSubmitted, Submitted
    <2>5. ASSUME NEW notes, EditSubmitted(notes)
          PROVE  LeavesTheDraft(lost)
      BY <1>2, <2>5 DEF EditSubmitted, Submitted
    <2>6. ASSUME NEW date, NEW place, PlaceEditSubmitted(date, place)
          PROVE  LeavesTheDraft(lost)
      BY <1>2, <2>6 DEF PlaceEditSubmitted, Submitted
    <2>7. ASSUME NEW day, NEW photo, DeleteAsked(day, photo)
          PROVE  LeavesTheDraft(lost)
      BY <1>2, <2>7 DEF DeleteAsked
    <2>8. QED
      BY <1>7, <2>1, <2>2, <2>3, <2>4, <2>5, <2>6, <2>7 DEF Editing
  <1>8. CASE Back
    <2>1. ArriveAt(Below(page), draft) /\ writes' = UnattendedSeq(writes)
      BY <1>8 DEF Back
    <2>2. page' = Below(page) /\ page.at \in DraftPages /\ Below(page).at \notin DraftPages
      BY <1>3, <2>1
    <2>3. page.at = "photos" /\ page'.at = "home"
      BY <1>4, <2>2 DEF Below, Home, Pages, DraftPages
    <2>4. writes' = writes
      BY <1>1, <2>1, <2>2, AllLeftQueue DEF PagesOK
    <2>5. QED
      BY <2>3, <2>4 DEF LeavesTheDraft
  <1>9. CASE Elsewhere
    <2>1. CASE PickerClosed \/ SearchWidens \/ RecordRead \/ \E r \in Records : CopyForgotten(r)
      BY <1>2, <2>1 DEF PickerClosed, SearchWidens, RecordRead, CopyForgotten
    <2>2. ASSUME NEW assets \in Picks, PhotosPicked(assets)
          PROVE  LeavesTheDraft(lost)
      <3>1. draft' = addPhotosFromLibrary(draft, assets, picker)
        BY <2>2 DEF PhotosPicked
      <3>2. Range(draft.photos) \subseteq Range(draft'.photos)
        BY <3>1, DraftParts, DraftFits, PicksAreLists, Added
      <3>3. QED
        BY <3>2
    <2>3. ASSUME NEW c, ConfigSettles(c)
          PROVE  LeavesTheDraft(lost)
      BY <1>2, <2>3 DEF ConfigSettles
    <2>4. ASSUME NEW end, SearchEnds(end)
          PROVE  LeavesTheDraft(lost)
      BY <1>1, <1>2, <2>4, Discarded DEF SearchEnds
    <2>5. ASSUME NEW s \in saves, SaveStored(s)
          PROVE  LeavesTheDraft(lost)
      <3>1. /\ s.record \notin {t.record : t \in saves'}
            /\ ~s.left /\ ~s.picking =>
                  Exists(s.record)' /\ \A p \in Range(draft.photos) : Holds(records'[s.record], draft, p)
        BY <2>5, StoredSave
      <3>2. QED
        BY <3>1 DEF LeavesTheDraft
    <2>6. ASSUME NEW s \in saves, SaveFails(s)
          PROVE  LeavesTheDraft(lost)
      BY <1>2, <2>6 DEF SaveFails
    <2>7. ASSUME NEW k \in DOMAIN writes, WriteCommits(k) \/ WriteFails(k)
          PROVE  LeavesTheDraft(lost)
      BY <1>2, <2>7 DEF WriteCommits, WriteFails
    <2>8. ASSUME NEW k \in DOMAIN writes, WriteSettles(k)
          PROVE  LeavesTheDraft(lost)
      <3>1. ArriveAt(NextPage(writes[k]), draft) /\ writes' = UnattendedSeq(RemoveAt(writes, k))
        BY <1>2, <2>8 DEF WriteSettles
      <3>2. page.at \in DraftPages
        BY <1>3, <3>1
      <3>3. writes[k].left
        BY <1>1, <3>2 DEF PagesOK, AllLeft
      <3>4. Len(writes') < Len(writes)
        <4>1. IsQueue(RemoveAt(writes, k)) /\ Len(RemoveAt(writes, k)) < Len(writes)
          BY <1>1, AllLeftQueue
        <4>2. Len(UnattendedSeq(RemoveAt(writes, k))) = Len(RemoveAt(writes, k))
          BY <4>1, AllLeftQueue
        <4>3. QED
          BY <3>1, <4>1, <4>2
      <3>5. QED
        BY <3>3, <3>4 DEF LeavesTheDraft
    <2>9. ASSUME NEW confirmed, DeleteAnswered(confirmed)
          PROVE  LeavesTheDraft(lost)
      BY <1>2, <2>9 DEF DeleteAnswered, Submitted
    <2>10. QED
      BY <1>9, <2>1, <2>2, <2>3, <2>4, <2>5, <2>6, <2>7, <2>8, <2>9 DEF Elsewhere
  <1>10. QED
    BY <1>5, <1>6, <1>7, <1>8, <1>9 DEF Next

(***************************************************************************)
(* A photo leaves the draft because the user removes it or leaves the       *)
(* pages, or because it is stored with its date and its place, but for the  *)
(* two ways that DraftIsKept names (RecordComposePage, the record's pages). *)
(***************************************************************************)
THEOREM DraftNotLost == Spec => DraftIsKept
  <1>1. Init => DraftIInv
    BY DraftInit
  <1>2. DraftIInv /\ [Next]_vars => DraftIInv'
    BY DraftStep
  <1>3. DraftIInv /\ [Next]_vars =>
            [LET lost == Range(draft.photos) \ Range(draft'.photos)
             IN  lost # {} => LeavesTheDraft(lost)]_vars
    BY DraftKept
  <1>4. QED
    BY <1>1, <1>2, <1>3, PTL DEF Spec, DraftIsKept

(***************************************************************************)
(* The notes of a record.                                                  *)
(***************************************************************************)
LEMMA ListOf ==
  ASSUME NEW T, NEW n \in Nat, NEW s, s = [k \in 1..n |-> s[k]], \A k \in 1..n : s[k] \in T
  PROVE  s \in Seq(T) /\ Len(s) = n /\ DOMAIN s = 1..n
  <1>1. s \in [1..n -> T]
    OBVIOUS
  <1>2. QED
    BY <1>1

LEMMA SameRows ==
  ASSUME NEW d, NEW e, NEW rows, NEW others, SameRow(d, e, rows, others),
         NEW f, NEW g, d = e => f = g
  PROVE  SameRow(f, g, rows, others)
  BY DEF SameRow

WithNote(day, n) == [day EXCEPT !.note = n]

LEMMA NotedDay ==
  ASSUME NEW r, NEW day, IsDay(r, day), NEW n \in Notes \cup {""}
  PROVE  LET t == WithNote(day, n)
         IN  /\ IsDay(r, t) /\ t.note = n /\ t.id = day.id /\ t.date = day.date
             /\ t.photos = day.photos /\ t.visits = day.visits
             /\ WithNote(t, "") = WithNote(day, "")
  BY DEF IsDay, StoredDays, WithNote

SameButNotes(t, days) ==
    /\ Len(t) = Len(days)
    /\ WithNotes(t, [k \in DOMAIN t |-> ""]) = WithNotes(days, [k \in DOMAIN days |-> ""])
NotesCleared(days, notes, F) == \A k \in DOMAIN days : days[k].visits = <<>> /\ notes[k] = "" => days[k].id \in F

LEMMA NotedRecord ==
  ASSUME NEW r, NEW days, NEW E, RecordOK(r, days, E), NEW notes \in [DOMAIN days -> Notes],
         NEW F, E \subseteq F, NotesCleared(days, notes, F)
  PROVE  LET t == WithNotes(days, notes)
         IN  RecordOK(r, t, F) /\ SameButNotes(t, days)
  <1> DEFINE t == WithNotes(days, notes)
             n == Len(days)
  <1>1. /\ n \in Nat /\ DOMAIN days = 1..n
        /\ \A k \in 1..n : IsDay(r, days[k]) /\ days[k] \in DaysOf(days) /\ DayOK(days[k], E)
        /\ \A k, l \in 1..n : days[k] = days[l] => k = l
    BY RecordList
  <1>2. t = [k \in 1..n |-> WithNote(days[k], notes[k])]
    BY <1>1 DEF WithNotes, WithNote
  <1>3. ASSUME NEW k \in 1..n
        PROVE  /\ IsDay(r, t[k]) /\ t[k].note = notes[k] /\ t[k].id = days[k].id /\ t[k].date = days[k].date
               /\ t[k].photos = days[k].photos /\ t[k].visits = days[k].visits
               /\ WithNote(t[k], "") = WithNote(days[k], "")
    <2>1. t[k] = WithNote(days[k], notes[k]) /\ IsDay(r, days[k]) /\ notes[k] \in Notes \cup {""}
      BY <1>1, <1>2
    <2> HIDE DEF t
    <2>2. PICK day : day = days[k]
      OBVIOUS
    <2>3. PICK m : m = notes[k]
      OBVIOUS
    <2>4. t[k] = WithNote(day, m) /\ IsDay(r, day) /\ m \in Notes \cup {""}
      BY <2>1, <2>2, <2>3
    <2>5. /\ IsDay(r, WithNote(day, m)) /\ WithNote(day, m).note = m /\ WithNote(day, m).id = day.id
          /\ WithNote(day, m).date = day.date
      BY <2>4, NotedDay
    <2>6. /\ WithNote(day, m).photos = day.photos /\ WithNote(day, m).visits = day.visits
      BY <2>4, NotedDay
    <2>7. /\ WithNote(WithNote(day, m), "") = WithNote(day, "")
      BY <2>4, NotedDay
    <2>8. QED
      BY <2>2, <2>3, <2>4, <2>5, <2>6, <2>7
  <1> HIDE DEF t, n
  <1>4. t \in Seq(StoredDays(r)) /\ Len(t) = n /\ DOMAIN t = 1..n
    <2>1. t = [k \in 1..n |-> t[k]]
      BY <1>2
    <2>2. \A k \in 1..n : t[k] \in StoredDays(r)
      BY <1>3 DEF IsDay
    <2>3. QED
      BY <1>1, <2>1, <2>2, ListOf
  <1>5. \A k, l \in 1..n : k < l => Before(t[k].date, t[l].date)
    BY <1>1, <1>3 DEF RecordOK
  <1>6. \A d \in DaysOf(t) : \E k \in 1..n : d = t[k]
    BY <1>4 DEF DaysOf, Range
  <1>7. ASSUME NEW k \in 1..n
        PROVE  DayOK(t[k], F)
    <2>1. DayOK(days[k], E)
      BY <1>1
    <2>2. PhotosOf(t[k]) = PhotosOf(days[k]) /\ VisitsOf(t[k]) = VisitsOf(days[k])
      BY <1>3 DEF PhotosOf, VisitsOf
    <2>3. hasDayContent(t[k]) \/ t[k].id \in F
      BY <1>1, <1>3 DEF hasDayContent, NotesCleared
    <2>4. QED
      BY <1>3, <2>1, <2>2, <2>3 DEF DayOK
  <1>8. ASSUME NEW k \in 1..n, NEW l \in 1..n
        PROVE  /\ t[k].id = t[l].id \/ t[k].date = t[l].date => t[k] = t[l]
               /\ SameRow(t[k], t[l], t[k].photos, t[l].photos)
               /\ SameRow(t[k], t[l], t[k].visits, t[l].visits)
    <2>1. days[k] \in DaysOf(days) /\ days[l] \in DaysOf(days) /\ (days[k] = days[l] => t[k] = t[l])
      BY <1>1
    <2>2. /\ days[k].id = days[l].id \/ days[k].date = days[l].date => days[k] = days[l]
          /\ SameRow(days[k], days[l], days[k].photos, days[l].photos)
          /\ SameRow(days[k], days[l], days[k].visits, days[l].visits)
      BY <2>1 DEF RecordOK, DaysFit
    <2>3. /\ t[k].id = days[k].id /\ t[k].date = days[k].date /\ t[l].id = days[l].id /\ t[l].date = days[l].date
          /\ t[k].photos = days[k].photos /\ t[l].photos = days[l].photos
          /\ t[k].visits = days[k].visits /\ t[l].visits = days[l].visits
      BY <1>3
    <2>4. SameRow(t[k], t[l], t[k].photos, t[l].photos)
      BY <2>1, <2>2, <2>3, SameRows
    <2>5. SameRow(t[k], t[l], t[k].visits, t[l].visits)
      BY <2>1, <2>2, <2>3, SameRows
    <2>6. QED
      BY <2>1, <2>2, <2>3, <2>4, <2>5
  <1>9. DaysFit(DaysOf(t), F)
    <2>1. \A d \in DaysOf(t) : DayOK(d, F)
      BY <1>6, <1>7
    <2>2. ASSUME NEW d \in DaysOf(t), NEW e \in DaysOf(t)
          PROVE  /\ d.id = e.id \/ d.date = e.date => d = e
                 /\ SameRow(d, e, d.photos, e.photos) /\ SameRow(d, e, d.visits, e.visits)
      <3>1. PICK k \in 1..n : d = t[k]
        BY <1>6
      <3>2. PICK l \in 1..n : e = t[l]
        BY <1>6
      <3>3. QED
        BY <1>8, <3>1, <3>2
    <2>3. QED
      BY <2>1, <2>2 DEF DaysFit
  <1>10. RecordOK(r, t, F)
    BY <1>4, <1>5, <1>9 DEF RecordOK
  <1>11. WithNotes(t, [k \in DOMAIN t |-> ""]) = WithNotes(days, [k \in DOMAIN days |-> ""])
    <2>1. \A k \in 1..n : WithNote(t[k], "") = WithNote(days[k], "")
      BY <1>3
    <2>2. QED
      BY <1>1, <1>4, <2>1 DEF WithNotes, WithNote
  <1>12. SameButNotes(t, days)
    BY <1>4, <1>11 DEF n, SameButNotes
  <1>13. QED
    BY <1>10, <1>12 DEF t

(***************************************************************************)
(* Days that fit: each by itself, and any two beside each other.           *)
(***************************************************************************)
OneEach(rows) == \A i, j \in DOMAIN rows : rows[i].id = rows[j].id => i = j

Linked(day) ==
    /\ isDateOnlyString(day.date)
    /\ {p.id : p \in PhotosOf(day)} = {v.photo : v \in VisitsOf(day)}
    /\ \A i, j \in DOMAIN day.visits : day.visits[i].photo = day.visits[j].photo => i = j
    /\ \A v \in VisitsOf(day) : v.at = day.date

FitDay(r, day) == IsDay(r, day) /\ Linked(day) /\ OneEach(day.photos) /\ OneEach(day.visits)

Apart(d, e) ==
    /\ d.id # e.id /\ d.date # e.date
    /\ \A p \in PhotosOf(d), q \in PhotosOf(e) : p.id # q.id
    /\ \A v \in VisitsOf(d), w \in VisitsOf(e) : v.id # w.id

LEMMA FitParts ==
  ASSUME NEW r, NEW D, NEW E, \A day \in D : IsDay(r, day)
  PROVE  DaysFit(D, E) <=>
            /\ \A day \in D : FitDay(r, day) /\ (hasDayContent(day) \/ day.id \in E)
            /\ \A d, e \in D : d # e => Apart(d, e)
  <1>1. \A day \in D : DayOK(day, E) <=> Linked(day) /\ (hasDayContent(day) \/ day.id \in E)
    BY DEF DayOK, Linked
  <1>2. \A day \in D : /\ SameRow(day, day, day.photos, day.photos) <=> OneEach(day.photos)
                       /\ SameRow(day, day, day.visits, day.visits) <=> OneEach(day.visits)
    BY DEF SameRow, OneEach
  <1>3. ASSUME NEW d \in D, NEW e \in D, d # e
        PROVE  /\ SameRow(d, e, d.photos, e.photos) <=> \A p \in PhotosOf(d), q \in PhotosOf(e) : p.id # q.id
               /\ SameRow(d, e, d.visits, e.visits) <=> \A v \in VisitsOf(d), w \in VisitsOf(e) : v.id # w.id
    <2>1. IsDay(r, d) /\ IsDay(r, e)
      OBVIOUS
    <2>2. /\ d.photos \in Seq(StoredPhotos(r)) /\ e.photos \in Seq(StoredPhotos(r))
          /\ d.visits \in Seq(StoredVisits(r)) /\ e.visits \in Seq(StoredVisits(r))
      BY <2>1, DayFields
    <2>3. SameRow(d, e, d.photos, e.photos) <=> \A p \in PhotosOf(d), q \in PhotosOf(e) : p.id # q.id
      <3> DEFINE s == d.photos
                 t == e.photos
      <3>1. PhotosOf(d) = {s[i] : i \in DOMAIN s} /\ PhotosOf(e) = {t[i] : i \in DOMAIN t}
        BY DEF PhotosOf, Range
      <3>2. QED
        BY <1>3, <3>1 DEF SameRow
    <2>4. SameRow(d, e, d.visits, e.visits) <=> \A v \in VisitsOf(d), w \in VisitsOf(e) : v.id # w.id
      <3> DEFINE s == d.visits
                 t == e.visits
      <3>1. VisitsOf(d) = {s[i] : i \in DOMAIN s} /\ VisitsOf(e) = {t[i] : i \in DOMAIN t}
        BY DEF VisitsOf, Range
      <3>2. QED
        BY <1>3, <3>1 DEF SameRow
    <2>5. QED
      BY <2>3, <2>4
  <1>4. \A d, e \in D : d = e =>
            /\ SameRow(d, e, d.photos, e.photos) <=> OneEach(d.photos)
            /\ SameRow(d, e, d.visits, e.visits) <=> OneEach(d.visits)
    BY <1>2
  <1>5. ASSUME DaysFit(D, E)
        PROVE  /\ \A day \in D : FitDay(r, day) /\ (hasDayContent(day) \/ day.id \in E)
               /\ \A d, e \in D : d # e => Apart(d, e)
    <2>1. /\ \A day \in D : DayOK(day, E)
          /\ \A d, e \in D :
                /\ d.id = e.id \/ d.date = e.date => d = e
                /\ SameRow(d, e, d.photos, e.photos) /\ SameRow(d, e, d.visits, e.visits)
      BY <1>5 DEF DaysFit
    <2>2. \A day \in D : FitDay(r, day) /\ (hasDayContent(day) \/ day.id \in E)
      BY <1>1, <1>2, <2>1 DEF FitDay
    <2>3. \A d, e \in D : d # e => Apart(d, e)
      BY <1>3, <2>1 DEF Apart
    <2>4. QED
      BY <2>2, <2>3
  <1>6. ASSUME \A day \in D : FitDay(r, day) /\ (hasDayContent(day) \/ day.id \in E),
               \A d, e \in D : d # e => Apart(d, e)
        PROVE  DaysFit(D, E)
    <2>1. \A day \in D : DayOK(day, E)
      BY <1>1, <1>6 DEF FitDay
    <2>2. ASSUME NEW d \in D, NEW e \in D
          PROVE  /\ d.id = e.id \/ d.date = e.date => d = e
                 /\ SameRow(d, e, d.photos, e.photos) /\ SameRow(d, e, d.visits, e.visits)
      <3>1. CASE d = e
        BY <1>4, <1>6, <3>1 DEF FitDay
      <3>2. CASE d # e
        BY <1>3, <1>6, <3>2 DEF Apart
      <3>3. QED
        BY <3>1, <3>2
    <2>3. QED
      BY <2>1, <2>2 DEF DaysFit
  <1>7. QED
    BY <1>5, <1>6

LEMMA FitRecord ==
  ASSUME NEW r, NEW days, NEW E, RecordOK(r, days, E)
  PROVE  /\ \A day \in DaysOf(days) : FitDay(r, day) /\ (hasDayContent(day) \/ day.id \in E)
         /\ \A d, e \in DaysOf(days) : d # e => Apart(d, e)
  <1>1. \A day \in DaysOf(days) : IsDay(r, day)
    BY RecordList
  <1>2. DaysFit(DaysOf(days), E)
    BY DEF RecordOK
  <1>3. QED
    BY <1>1, <1>2, FitParts

LEMMA ApartSym ==
  ASSUME NEW d, NEW e, Apart(d, e)
  PROVE  Apart(e, d)
  BY DEF Apart

\* Some of the days of a record.
LEMMA SubRecord ==
  ASSUME NEW r, NEW days, NEW F, RecordOK(r, days, F), NEW K \in SUBSET DOMAIN days, NEW E,
         \A k \in K : hasDayContent(days[k]) \/ days[k].id \in E
  PROVE  /\ RecordOK(r, Kept(days, K), E)
         /\ \A day : day \in DaysOf(Kept(days, K)) <=> \E k \in K : day = days[k]
  <1> DEFINE t == Kept(days, K)
             c == Cardinality(K)
             at == Ascending(K)
  <1>1. /\ days \in Seq(StoredDays(r)) /\ DOMAIN days = 1..Len(days)
        /\ \A k \in DOMAIN days : IsDay(r, days[k]) /\ days[k] \in DaysOf(days)
    BY RecordList DEF RecordOK
  <1>2. /\ c \in Nat /\ at \in [1..c -> K]
        /\ \A m, n \in 1..c : m < n <=> at[m] < at[n]
        /\ t \in Seq(StoredDays(r)) /\ Len(t) = c /\ \A n \in 1..c : t[n] = days[at[n]]
        /\ Range(t) = {days[k] : k \in K}
    <2>1. PICK T : T = StoredDays(r)
      OBVIOUS
    <2>2. days \in Seq(T)
      BY <1>1, <2>1
    <2>3. QED
      BY <2>1, <2>2, KeptList
  <1> HIDE DEF t, c, at
  <1>3. DaysOf(t) = {days[k] : k \in K} /\ DaysOf(t) \subseteq DaysOf(days) /\ DOMAIN t = 1..c
    BY <1>1, <1>2 DEF DaysOf
  <1>4. \A m, n \in DOMAIN t : m < n => Before(t[m].date, t[n].date)
    <2> SUFFICES ASSUME NEW m \in 1..c, NEW n \in 1..c, m < n
                 PROVE  Before(t[m].date, t[n].date)
      BY <1>3
    <2>1. at[m] \in DOMAIN days /\ at[n] \in DOMAIN days /\ at[m] < at[n]
      BY <1>2
    <2>2. Before(days[at[m]].date, days[at[n]].date)
      BY <2>1 DEF RecordOK
    <2>3. QED
      BY <1>2, <2>2
  <1>5. DaysFit(DaysOf(t), E)
    <2>1. \A day \in DaysOf(t) : IsDay(r, day) /\ FitDay(r, day)
      BY <1>3, FitRecord DEF FitDay
    <2>2. \A d, e \in DaysOf(t) : d # e => Apart(d, e)
      BY <1>3, FitRecord
    <2>3. \A day \in DaysOf(t) : hasDayContent(day) \/ day.id \in E
      BY <1>3
    <2>4. QED
      BY <2>1, <2>2, <2>3, FitParts
  <1>6. QED
    BY <1>2, <1>3, <1>4, <1>5 DEF t, RecordOK

(***************************************************************************)
(* A day without one of its photos.                                        *)
(***************************************************************************)
WithRows(day, ps, vs) == [day EXCEPT !.photos = ps, !.visits = vs]

LEMMA RowsDay ==
  ASSUME NEW r, NEW day, IsDay(r, day), NEW ps \in Seq(StoredPhotos(r)), NEW vs \in Seq(StoredVisits(r))
  PROVE  /\ IsDay(r, WithRows(day, ps, vs))
         /\ WithRows(day, ps, vs).id = day.id /\ WithRows(day, ps, vs).date = day.date
         /\ WithRows(day, ps, vs).note = day.note
         /\ WithRows(day, ps, vs).photos = ps /\ WithRows(day, ps, vs).visits = vs
  BY DEF IsDay, StoredDays, WithRows

\* The rows of a list that do not belong to photo x.
PhotosLeft(s, x) == Selected(s, LAMBDA p : p.id # x)
VisitsLeft(s, x) == Selected(s, LAMBDA v : v.photo # x)

LEMMA KeptPhotos ==
  ASSUME NEW T, NEW s \in Seq(T), OneEach(s), NEW x
  PROVE  LET t == PhotosLeft(s, x)
         IN  /\ t \in Seq(T) /\ OneEach(t)
             /\ \A p : p \in Range(t) <=> p \in Range(s) /\ p.id # x
  <1> DEFINE K == {k \in DOMAIN s : s[k].id # x}
             t == Kept(s, K)
             c == Cardinality(K)
             at == Ascending(K)
  <1>1. K \in SUBSET DOMAIN s
    OBVIOUS
  <1>2. /\ c \in Nat /\ at \in [1..c -> K]
        /\ \A m, n \in 1..c : m < n <=> at[m] < at[n]
        /\ t \in Seq(T) /\ Len(t) = c /\ \A n \in 1..c : t[n] = s[at[n]]
        /\ Range(t) = {s[k] : k \in K}
    <2> HIDE DEF K
    <2>1. QED
      BY <1>1, KeptList
  <1>3. PhotosLeft(s, x) = t
    BY DEF Selected, PhotosLeft
  <1>4. \A p : p \in Range(t) <=> p \in Range(s) /\ p.id # x
    <2>1. Range(s) = {s[k] : k \in DOMAIN s}
      BY DEF Range
    <2>2. QED
      BY <1>2, <2>1
  <1>5. OneEach(t)
    <2>1. \A m, n \in 1..c : t[m].id = t[n].id => at[m] = at[n]
      <3> HIDE DEF t, c, at
      <3>1. QED
        BY <1>1, <1>2 DEF OneEach
    <2>2. \A m, n \in 1..c : at[m] = at[n] => m = n
      <3>1. \A m \in 1..c : at[m] \in Nat
        BY <1>1, <1>2
      <3> HIDE DEF t, c, at, K
      <3>2. QED
        BY <1>2, <3>1
    <2>3. DOMAIN t = 1..c
      <3> HIDE DEF t, c, at, K
      <3>1. QED
        BY <1>2
    <2>4. QED
      BY <2>1, <2>2, <2>3 DEF OneEach
  <1> HIDE DEF t, K
  <1>6. QED
    BY <1>2, <1>3, <1>4, <1>5

LEMMA KeptVisits ==
  ASSUME NEW T, NEW s \in Seq(T), OneEach(s), NEW x,
         \A i, j \in DOMAIN s : s[i].photo = s[j].photo => i = j
  PROVE  LET t == VisitsLeft(s, x)
         IN  /\ t \in Seq(T) /\ OneEach(t)
             /\ \A i, j \in DOMAIN t : t[i].photo = t[j].photo => i = j
             /\ \A v : v \in Range(t) <=> v \in Range(s) /\ v.photo # x
  <1> DEFINE K == {k \in DOMAIN s : s[k].photo # x}
             t == Kept(s, K)
             c == Cardinality(K)
             at == Ascending(K)
  <1>1. K \in SUBSET DOMAIN s
    OBVIOUS
  <1>2. /\ c \in Nat /\ at \in [1..c -> K]
        /\ \A m, n \in 1..c : m < n <=> at[m] < at[n]
        /\ t \in Seq(T) /\ Len(t) = c /\ \A n \in 1..c : t[n] = s[at[n]]
        /\ Range(t) = {s[k] : k \in K}
    <2> HIDE DEF K
    <2>1. QED
      BY <1>1, KeptList
  <1>3. VisitsLeft(s, x) = t
    BY DEF Selected, VisitsLeft
  <1>4. \A v : v \in Range(t) <=> v \in Range(s) /\ v.photo # x
    <2>1. Range(s) = {s[k] : k \in DOMAIN s}
      BY DEF Range
    <2>2. QED
      BY <1>2, <2>1
  <1>5. OneEach(t) /\ \A i, j \in DOMAIN t : t[i].photo = t[j].photo => i = j
    <2>1. \A m, n \in 1..c : t[m].id = t[n].id \/ t[m].photo = t[n].photo => at[m] = at[n]
      <3> HIDE DEF t, c, at
      <3>1. QED
        BY <1>1, <1>2 DEF OneEach
    <2>2. \A m, n \in 1..c : at[m] = at[n] => m = n
      <3>1. \A m \in 1..c : at[m] \in Nat
        BY <1>1, <1>2
      <3> HIDE DEF t, c, at, K
      <3>2. QED
        BY <1>2, <3>1
    <2>3. DOMAIN t = 1..c
      <3> HIDE DEF t, c, at, K
      <3>1. QED
        BY <1>2
    <2>4. QED
      BY <2>1, <2>2, <2>3 DEF OneEach
  <1> HIDE DEF t, K
  <1>6. QED
    BY <1>2, <1>3, <1>4, <1>5

Without(day, x) == WithRows(day, PhotosLeft(day.photos, x), VisitsLeft(day.visits, x))

LEMMA WithoutDay ==
  ASSUME NEW r, NEW day, FitDay(r, day), NEW x
  PROVE  LET t == Without(day, x)
         IN  /\ FitDay(r, t) /\ t.id = day.id /\ t.date = day.date /\ t.note = day.note
             /\ \A p : p \in PhotosOf(t) <=> p \in PhotosOf(day) /\ p.id # x
             /\ \A v : v \in VisitsOf(t) <=> v \in VisitsOf(day) /\ v.photo # x
  <1> DEFINE ps == PhotosLeft(day.photos, x)
             vs == VisitsLeft(day.visits, x)
             t == Without(day, x)
  <1>1. IsDay(r, day) /\ Linked(day) /\ OneEach(day.photos) /\ OneEach(day.visits)
    BY DEF FitDay
  <1>2. day.photos \in Seq(StoredPhotos(r)) /\ day.visits \in Seq(StoredVisits(r))
    BY <1>1, DayFields
  <1>3. /\ ps \in Seq(StoredPhotos(r)) /\ OneEach(ps)
        /\ \A p : p \in Range(ps) <=> p \in Range(day.photos) /\ p.id # x
    BY <1>1, <1>2, KeptPhotos
  <1>4. /\ vs \in Seq(StoredVisits(r)) /\ OneEach(vs)
        /\ \A i, j \in DOMAIN vs : vs[i].photo = vs[j].photo => i = j
        /\ \A v : v \in Range(vs) <=> v \in Range(day.visits) /\ v.photo # x
    <2>1. \A i, j \in DOMAIN day.visits : day.visits[i].photo = day.visits[j].photo => i = j
      BY <1>1 DEF Linked
    <2>2. QED
      BY <1>1, <1>2, <2>1, KeptVisits
  <1>5. t = WithRows(day, ps, vs)
    BY DEF Without
  <1> HIDE DEF ps, vs, t
  <1>6. /\ IsDay(r, t) /\ t.id = day.id /\ t.date = day.date /\ t.note = day.note
        /\ t.photos = ps /\ t.visits = vs
    BY <1>1, <1>3, <1>4, <1>5, RowsDay
  <1>7. /\ \A p : p \in PhotosOf(t) <=> p \in PhotosOf(day) /\ p.id # x
        /\ \A v : v \in VisitsOf(t) <=> v \in VisitsOf(day) /\ v.photo # x
    BY <1>3, <1>4, <1>6 DEF PhotosOf, VisitsOf
  <1>8. Linked(t)
    <2>1. {p.id : p \in PhotosOf(t)} = {v.photo : v \in VisitsOf(t)}
      <3>1. {p.id : p \in PhotosOf(day)} = {v.photo : v \in VisitsOf(day)}
        BY <1>1 DEF Linked
      <3>2. \A p \in PhotosOf(t) : \E v \in VisitsOf(t) : v.photo = p.id
        BY <1>7, <3>1
      <3>3. \A v \in VisitsOf(t) : \E p \in PhotosOf(t) : p.id = v.photo
        BY <1>7, <3>1
      <3>4. QED
        BY <3>2, <3>3
    <2>2. \A v \in VisitsOf(t) : v.at = t.date
      BY <1>1, <1>6, <1>7 DEF Linked
    <2>3. isDateOnlyString(t.date)
      BY <1>1, <1>6 DEF Linked
    <2>4. \A i, j \in DOMAIN t.visits : t.visits[i].photo = t.visits[j].photo => i = j
      BY <1>4, <1>6
    <2>5. QED
      BY <2>1, <2>2, <2>3, <2>4 DEF Linked
  <1>9. FitDay(r, t)
    BY <1>3, <1>4, <1>6, <1>8 DEF FitDay
  <1>10. QED
    BY <1>6, <1>7, <1>9 DEF t

(***************************************************************************)
(* removeRecordPhoto.                                                      *)
(***************************************************************************)
LEMMA RecordRows ==
  ASSUME NEW r, NEW days, NEW E, RecordOK(r, days, E)
  PROVE  /\ \A p : p \in AllPhotos(days) <=> \E k \in 1..Len(days) : p \in PhotosOf(days[k])
         /\ \A v : v \in AllVisits(days) <=> \E k \in 1..Len(days) : v \in VisitsOf(days[k])
  <1>1. DaysOf(days) = {days[k] : k \in 1..Len(days)}
    BY RecordList
  <1>2. QED
    BY <1>1 DEF AllPhotos, AllVisits

LEMMA NoContent ==
  ASSUME NEW day, ~hasDayContent(day)
  PROVE  day.note = "" /\ PhotosOf(day) = {} /\ VisitsOf(day) = {}
  <1>1. day.note = "" /\ day.photos = <<>> /\ day.visits = <<>>
    BY DEF hasDayContent
  <1>2. Range(<<>>) = {}
    BY DEF Range
  <1>3. QED
    BY <1>1, <1>2 DEF PhotosOf, VisitsOf

\* Without photo x on day m; no other day has it.
WithoutAt(days, m, x) == [k \in DOMAIN days |-> IF k = m THEN Without(days[k], x) ELSE days[k]]

LessPhoto(t, day, x) ==
    /\ t.id = day.id /\ t.note = day.note
    /\ \A p : p \in PhotosOf(t) <=> p \in PhotosOf(day) /\ p.id # x
    /\ \A v : v \in VisitsOf(t) <=> v \in VisitsOf(day) /\ v.photo # x

LEMMA WithoutList ==
  ASSUME NEW r, NEW days, NEW E, RecordOK(r, days, E), NEW m \in 1..Len(days),
         NEW q \in PhotosOf(days[m]), NEW F, E \subseteq F, days[m].id \in F
  PROVE  LET x == q.id
             u == WithoutAt(days, m, x)
         IN  /\ RecordOK(r, u, F) /\ Len(u) = Len(days)
             /\ \A k \in 1..Len(days) : LessPhoto(u[k], days[k], x)
  <1> DEFINE x == q.id
             n == Len(days)
             u == WithoutAt(days, m, x)
  <1>1. /\ n \in Nat /\ DOMAIN days = 1..n
        /\ \A k \in 1..n : IsDay(r, days[k]) /\ days[k] \in DaysOf(days)
        /\ \A k, l \in 1..n : days[k] = days[l] => k = l
    BY RecordList
  <1>0. u = [k \in 1..n |-> IF k = m THEN Without(days[k], x) ELSE days[k]]
    BY <1>1 DEF WithoutAt
  <1> HIDE DEF u
  <1>2. /\ \A k \in 1..n : FitDay(r, days[k]) /\ (hasDayContent(days[k]) \/ days[k].id \in E)
        /\ \A k, l \in 1..n : k # l => Apart(days[k], days[l])
    BY <1>1, FitRecord
  <1>3. u[m] = Without(days[m], x)
    BY <1>0
  <1>4. ASSUME NEW k \in 1..n
        PROVE  /\ FitDay(r, u[k]) /\ u[k].id = days[k].id /\ u[k].date = days[k].date
               /\ u[k].note = days[k].note
               /\ \A p : p \in PhotosOf(u[k]) <=> p \in PhotosOf(days[k]) /\ p.id # x
               /\ \A v : v \in VisitsOf(u[k]) <=> v \in VisitsOf(days[k]) /\ v.photo # x
    <2>1. CASE k = m
      <3>1. FitDay(r, days[m])
        BY <1>2
      <3> DEFINE t == Without(days[m], x)
      <3>2. /\ FitDay(r, t) /\ t.id = days[m].id /\ t.date = days[m].date /\ t.note = days[m].note
            /\ \A p : p \in PhotosOf(t) <=> p \in PhotosOf(days[m]) /\ p.id # x
            /\ \A v : v \in VisitsOf(t) <=> v \in VisitsOf(days[m]) /\ v.photo # x
        BY <3>1, WithoutDay
      <3> HIDE DEF t
      <3>3. u[k] = t
        BY <1>3, <2>1 DEF t
      <3>4. QED
        BY <2>1, <3>2, <3>3
    <2>2. CASE k # m
      <3>1. u[k] = days[k]
        BY <1>0, <2>2
      <3>2. Apart(days[k], days[m]) /\ FitDay(r, days[k])
        BY <1>2, <2>2
      <3>3. \A p \in PhotosOf(days[k]) : p.id # x
        BY <3>2 DEF Apart
      <3>4. \A v \in VisitsOf(days[k]) : v.photo \in {p.id : p \in PhotosOf(days[k])}
        BY <3>2 DEF FitDay, Linked
      <3>5. \A v \in VisitsOf(days[k]) : v.photo # x
        BY <3>3, <3>4
      <3>6. QED
        BY <3>1, <3>2, <3>3, <3>5
    <2>3. QED
      BY <2>1, <2>2
  <1>5. \A k \in 1..n : k # m => u[k] = days[k]
    BY <1>0
  <1>6. u = [k \in 1..n |-> u[k]]
    BY <1>0
  <1> HIDE DEF n
  <1>7. u \in Seq(StoredDays(r)) /\ Len(u) = n /\ DOMAIN u = 1..n
    <2>1. \A k \in 1..n : u[k] \in StoredDays(r)
      BY <1>4 DEF FitDay, IsDay
    <2>2. QED
      BY <1>1, <1>6, <2>1, ListOf
  <1>8. \A d \in DaysOf(u) : \E k \in 1..n : d = u[k]
    BY <1>7 DEF DaysOf, Range
  <1>9. \A k, l \in 1..n : k < l => Before(u[k].date, u[l].date)
    BY <1>1, <1>4 DEF RecordOK
  <1>10. \A k \in 1..n : hasDayContent(u[k]) \/ u[k].id \in F
    BY <1>2, <1>4, <1>5
  <1>11. ASSUME NEW k \in 1..n, NEW l \in 1..n, k # l
         PROVE  Apart(u[k], u[l])
    <2>1. Apart(days[k], days[l])
      BY <1>2, <1>11
    <2>2. /\ \A p \in PhotosOf(u[k]) : p \in PhotosOf(days[k])
          /\ \A p \in PhotosOf(u[l]) : p \in PhotosOf(days[l])
          /\ \A v \in VisitsOf(u[k]) : v \in VisitsOf(days[k])
          /\ \A v \in VisitsOf(u[l]) : v \in VisitsOf(days[l])
          /\ u[k].id = days[k].id /\ u[k].date = days[k].date
          /\ u[l].id = days[l].id /\ u[l].date = days[l].date
      BY <1>4
    <2>3. QED
      BY <2>1, <2>2 DEF Apart
  <1>12. DaysFit(DaysOf(u), F)
    <2>1. ASSUME NEW d \in DaysOf(u)
          PROVE  IsDay(r, d) /\ FitDay(r, d) /\ (hasDayContent(d) \/ d.id \in F)
      <3>1. PICK k \in 1..n : d = u[k]
        BY <1>8
      <3>2. QED
        BY <1>4, <1>10, <3>1 DEF FitDay
    <2>2. ASSUME NEW d \in DaysOf(u), NEW e \in DaysOf(u), d # e
          PROVE  Apart(d, e)
      <3>1. PICK k \in 1..n : d = u[k]
        BY <1>8
      <3>2. PICK l \in 1..n : e = u[l]
        BY <1>8
      <3>3. QED
        BY <1>11, <2>2, <3>1, <3>2
    <2>3. QED
      BY <2>1, <2>2, FitParts
  <1>13. RecordOK(r, u, F)
    BY <1>7, <1>9, <1>12 DEF RecordOK
  <1>14. QED
    BY <1>4, <1>7, <1>13 DEF n, u, LessPhoto

NotesKept(t, days) ==
    \A i, n : n # "" => ((\E d \in DaysOf(t) : d.id = i /\ d.note = n) <=>
                         (\E d \in DaysOf(days) : d.id = i /\ d.note = n))

KeptByDelete(t, days, x) ==
    /\ \A p : p \in AllPhotos(t) <=> p \in AllPhotos(days) /\ p.id # x
    /\ \A v : v \in AllVisits(t) <=> v \in AllVisits(days) /\ x \notin {v.id, v.photo}
    /\ NotesKept(t, days)
    /\ t = <<>> => \A p \in AllPhotos(days) : p.id = x

LEMMA RemovedPhoto ==
  ASSUME NEW r, NEW days, NEW E, RecordOK(r, days, E), NEW day \in DaysOf(days),
         NEW q \in PhotosOf(day)
  PROVE  LET x == q.id
             t == removeRecordPhoto(days, day.id, x)
         IN  RecordOK(r, t, E) /\ KeptByDelete(t, days, x)
  <1> DEFINE x == q.id
             n == Len(days)
             t == removeRecordPhoto(days, day.id, x)
             u == [k \in 1..n |-> IF days[k].id = day.id THEN Without(days[k], x) ELSE days[k]]
             K == {k \in 1..n : u[k].id # day.id \/ hasDayContent(u[k])}
  <1>1. /\ n \in Nat /\ DOMAIN days = 1..n
        /\ \A k \in 1..n : IsDay(r, days[k]) /\ days[k] \in DaysOf(days)
        /\ \A k, l \in 1..n : days[k] = days[l] => k = l
        /\ DaysOf(days) = {days[k] : k \in 1..n}
    BY RecordList
  <1>2. PICK m \in 1..n : day = days[m]
    BY <1>1
  <1>3. \A k \in 1..n : days[k].id = day.id <=> k = m
    <2>1. \A d, e \in DaysOf(days) : d.id = e.id => d = e
      BY DEF RecordOK, DaysFit
    <2>2. QED
      BY <1>1, <1>2, <2>1
  <1>4. u = WithoutAt(days, m, x)
    BY <1>1, <1>3 DEF WithoutAt
  <1>5. q \in PhotosOf(days[m])
    BY <1>2
  <1>6. t = Kept(u, K)
    <2>1. t = Selected(u, LAMBDA d : d.id # day.id \/ hasDayContent(d))
      BY <1>1 DEF removeRecordPhoto, Without, WithRows, PhotosLeft, VisitsLeft
    <2>2. DOMAIN u = 1..n
      OBVIOUS
    <2>3. QED
      BY <2>1, <2>2 DEF Selected
  <1> HIDE DEF n, t, u
  <1>20. n = Len(days) /\ m \in 1..Len(days)
    BY DEF n
  <1>21. PICK F : F = E \cup {day.id}
    OBVIOUS
  <1>7. /\ RecordOK(r, u, F) /\ Len(u) = n /\ DOMAIN u = 1..n
        /\ \A k \in 1..n :
              /\ u[k].id = days[k].id /\ u[k].note = days[k].note
              /\ \A p : p \in PhotosOf(u[k]) <=> p \in PhotosOf(days[k]) /\ p.id # x
              /\ \A v : v \in VisitsOf(u[k]) <=> v \in VisitsOf(days[k]) /\ v.photo # x
    <2>1. days[m].id \in F /\ E \subseteq F
      BY <1>2, <1>21
    <2>2. /\ RecordOK(r, u, F) /\ Len(u) = Len(days)
          /\ \A k \in 1..Len(days) : LessPhoto(u[k], days[k], x)
      BY <1>4, <1>5, <1>20, <2>1, WithoutList
    <2>3. DOMAIN u = 1..Len(u)
      BY <2>2, RecordList
    <2>4. QED
      BY <1>20, <2>2, <2>3 DEF LessPhoto
  <1>8. \A k \in 1..n : hasDayContent(u[k]) \/ u[k].id \in E \cup {day.id}
    <2>1. \A k \in 1..n : u[k] \in DaysOf(u)
      BY <1>7, RecordList
    <2>2. QED
      BY <1>7, <1>21, <2>1, FitRecord
  <1>9. K \in SUBSET DOMAIN u /\ K \subseteq 1..n /\ \A k \in K : hasDayContent(u[k]) \/ u[k].id \in E
    BY <1>7, <1>8
  <1>10. RecordOK(r, t, E) /\ \A d : d \in DaysOf(t) <=> \E k \in K : d = u[k]
    <2> HIDE DEF K
    <2>1. RecordOK(r, u, F) /\ K \in SUBSET DOMAIN u /\ \A k \in K : hasDayContent(u[k]) \/ u[k].id \in E
      BY <1>7, <1>9
    <2>2. RecordOK(r, Kept(u, K), E) /\ \A d : d \in DaysOf(Kept(u, K)) <=> \E k \in K : d = u[k]
      BY <2>1, SubRecord
    <2>3. QED
      BY <1>6, <2>2
  <1>11. \A k \in 1..n : k \notin K => u[k].note = "" /\ PhotosOf(u[k]) = {} /\ VisitsOf(u[k]) = {}
    BY NoContent
  <1> HIDE DEF K
  <1>12. /\ \A p : p \in AllPhotos(t) <=> \E k \in K : p \in PhotosOf(u[k])
         /\ \A v : v \in AllVisits(t) <=> \E k \in K : v \in VisitsOf(u[k])
    BY <1>10 DEF AllPhotos, AllVisits
  <1>13. /\ \A p : p \in AllPhotos(days) <=> \E k \in 1..n : p \in PhotosOf(days[k])
         /\ \A v : v \in AllVisits(days) <=> \E k \in 1..n : v \in VisitsOf(days[k])
    BY RecordRows DEF n
  <1>14. \A p : p \in AllPhotos(t) <=> p \in AllPhotos(days) /\ p.id # x
    <2>1. ASSUME NEW p \in AllPhotos(t)
          PROVE  p \in AllPhotos(days) /\ p.id # x
      <3>1. PICK k \in K : p \in PhotosOf(u[k])
        BY <1>12
      <3>2. QED
        BY <1>7, <1>9, <1>13, <3>1
    <2>2. ASSUME NEW p \in AllPhotos(days), p.id # x
          PROVE  p \in AllPhotos(t)
      <3>1. PICK k \in 1..n : p \in PhotosOf(days[k])
        BY <1>13
      <3>2. p \in PhotosOf(u[k])
        BY <1>7, <2>2, <3>1
      <3>3. k \in K
        BY <1>11, <3>2
      <3>4. QED
        BY <1>12, <3>2, <3>3
    <2>3. QED
      BY <2>1, <2>2
  <1>15. \A v : v \in AllVisits(t) <=> v \in AllVisits(days) /\ v.photo # x
    <2>1. ASSUME NEW v \in AllVisits(t)
          PROVE  v \in AllVisits(days) /\ v.photo # x
      <3>1. PICK k \in K : v \in VisitsOf(u[k])
        BY <1>12
      <3>2. QED
        BY <1>7, <1>9, <1>13, <3>1
    <2>2. ASSUME NEW v \in AllVisits(days), v.photo # x
          PROVE  v \in AllVisits(t)
      <3>1. PICK k \in 1..n : v \in VisitsOf(days[k])
        BY <1>13
      <3>2. v \in VisitsOf(u[k])
        BY <1>7, <2>2, <3>1
      <3>3. k \in K
        BY <1>11, <3>2
      <3>4. QED
        BY <1>12, <3>2, <3>3
    <2>3. QED
      BY <2>1, <2>2
  <1>16. \A v \in AllVisits(days) : v.id # x
    <2>1. ASSUME NEW v \in AllVisits(days)
          PROVE  v.id # x
      <3>1. PICK k \in 1..n : v \in VisitsOf(days[k])
        BY <1>13
      <3>2. v.id \in {r} \X Nat \X Nat
        BY <1>1, <3>1, RowFields
      <3>3. x \in {r} \X Nat
        BY <1>1, <1>2, RowFields
      <3>4. Len(v.id) = 3 /\ Len(x) = 2
        BY <3>2, <3>3
      <3>5. QED
        BY <3>4
    <2>2. QED
      BY <2>1
  <1>17. ASSUME NEW i, NEW c, c # ""
         PROVE  (\E d \in DaysOf(t) : d.id = i /\ d.note = c) <=> (\E d \in DaysOf(days) : d.id = i /\ d.note = c)
    <2>1. (\E d \in DaysOf(t) : d.id = i /\ d.note = c) <=> \E k \in K : u[k].id = i /\ u[k].note = c
      BY <1>10
    <2>2. (\E d \in DaysOf(days) : d.id = i /\ d.note = c) <=> \E k \in 1..n : days[k].id = i /\ days[k].note = c
      BY <1>1
    <2>3. \A k \in 1..n : u[k].id = days[k].id /\ u[k].note = days[k].note
      BY <1>7
    <2>4. \A k \in 1..n : u[k].note = c => k \in K
      BY <1>11, <1>17
    <2>5. QED
      BY <1>9, <2>1, <2>2, <2>3, <2>4
  <1>18. t = <<>> => \A p \in AllPhotos(days) : p.id = x
    <2>1. t = <<>> => AllPhotos(t) = {}
      BY DEF AllPhotos, DaysOf, Range
    <2>2. QED
      BY <1>14, <2>1
  <1>19. KeptByDelete(t, days, x)
    <2> HIDE DEF t, x
    <2>1. NotesKept(t, days)
      BY <1>17 DEF NotesKept
    <2>2. QED
      BY <1>14, <1>15, <1>16, <1>18, <2>1 DEF KeptByDelete
  <1>22. QED
    BY <1>10, <1>14, <1>19 DEF t

(***************************************************************************)
(* updateRecordPlace.                                                      *)
(***************************************************************************)
LeastFree(k, n, ids, r, date) ==
    /\ \A l \in 1..n : ids[l] # <<r, date, k>>
    /\ \A j \in 1..(k - 1) : \E l \in 1..n : ids[l] = <<r, date, j>>

LEMMA FreeSuffix ==
  ASSUME NEW n \in Nat, NEW ids, NEW r, NEW date
  PROVE  \E k \in 1..(n + 1) : LeastFree(k, n, ids, r, date)
  <1> DEFINE id(k) == <<r, date, k>>
             Free == {k \in 1..(n + 1) : \A l \in 1..n : ids[l] # id(k)}
             g == [k \in 1..(n + 1) |-> CHOOSE l \in 1..n : ids[l] = id(k)]
  <1>1. Free # {}
    <2> SUFFICES ASSUME Free = {} PROVE FALSE
      OBVIOUS
    <2>1. \A k \in 1..(n + 1) : \E l \in 1..n : ids[l] = id(k)
      OBVIOUS
    <2>2. \A k \in 1..(n + 1) : g[k] \in 1..n /\ ids[g[k]] = id(k)
      BY <2>1
    <2>3. \A j, k \in 1..(n + 1) : id(j) = id(k) => j = k
      OBVIOUS
    <2>4. IsFiniteSet(1..n) /\ Cardinality(1..n) = n
      BY UpTo
    <2>5. IsFiniteSet(1..(n + 1)) /\ Cardinality(1..(n + 1)) = n + 1
      BY UpTo
    <2>6. g \in [1..(n + 1) -> 1..n]
      BY <2>2
    <2> HIDE DEF g
    <2>7. \E j, k \in 1..(n + 1) : j # k /\ g[j] = g[k]
      <3>1. PICK S : S = 1..(n + 1)
        OBVIOUS
      <3>2. PICK T : T = 1..n
        OBVIOUS
      <3>3. IsFiniteSet(S) /\ IsFiniteSet(T) /\ Cardinality(T) < Cardinality(S) /\ g \in [S -> T]
        BY <2>4, <2>5, <2>6, <3>1, <3>2
      <3>4. \E j, k \in S : j # k /\ g[j] = g[k]
        BY <3>3, FS_PigeonHole
      <3>5. QED
        BY <3>1, <3>4
    <2>8. QED
      BY <2>2, <2>3, <2>7
  <1>2. Free \in SUBSET Nat /\ IsFiniteSet(Free)
    <2>1. IsFiniteSet(1..(n + 1)) /\ Free \subseteq 1..(n + 1)
      BY UpTo
    <2>2. QED
      BY <2>1, FS_Subset
  <1> DEFINE c == Cardinality(Free)
             s == Ascending(Free)
  <1>3. /\ c \in Nat /\ s \in [1..c -> Free] /\ \A i, j \in 1..c : i < j <=> s[i] < s[j]
        /\ \A k \in Free : \E i \in 1..c : s[i] = k
    <2> HIDE DEF Free
    <2>1. QED
      BY <1>2, AscendingList
  <1>4. 1 \in 1..c
    <2>1. PICK k \in Free : TRUE
      BY <1>1
    <2>2. PICK i \in 1..c : s[i] = k
      BY <1>3
    <2>3. QED
      BY <1>3, <2>2
  <1> HIDE DEF c, s
  <1>5. PICK k : k = s[1]
    OBVIOUS
  <1>6. k \in Free
    BY <1>3, <1>4, <1>5
  <1>7. ASSUME NEW j \in Free
        PROVE  ~(j < k)
    <2>1. PICK i \in 1..c : s[i] = j
      BY <1>3
    <2>2. ~(i < 1)
      BY <1>3
    <2>3. QED
      BY <1>3, <1>4, <1>5, <2>1, <2>2
  <1>8. ASSUME NEW j \in 1..(k - 1)
        PROVE  \E l \in 1..n : ids[l] = id(j)
    <2>1. j \in 1..(n + 1) /\ j < k
      BY <1>6
    <2>2. j \notin Free
      BY <1>7, <2>1
    <2>3. QED
      BY <2>1, <2>2
  <1>9. QED
    BY <1>6, <1>8 DEF LeastFree

LEMMA NewDayId ==
  ASSUME NEW r, NEW days, NEW E, RecordOK(r, days, E), NEW date \in DateTexts
  PROVE  /\ createDayId(r, days, date) \in {r} \X ({<<>>} \cup DateTexts) \X Nat
         /\ \A day \in DaysOf(days) : day.id # createDayId(r, days, date)
  <1> DEFINE n == Len(days)
             ids == [l \in 1..n |-> days[l].id]
             taken == {day.id : day \in DaysOf(days)}
             Good(k) == /\ <<r, date, k>> \notin taken
                        /\ \A j \in 1..(k - 1) : <<r, date, j>> \in taken
             suffix == CHOOSE k \in 1..(n + 1) : Good(k)
  <1>1. n \in Nat /\ DaysOf(days) = {days[k] : k \in 1..n}
    BY RecordList
  <1>2. \A x : x \in taken <=> \E l \in 1..n : ids[l] = x
    BY <1>1
  <1>4. createDayId(r, days, date) = <<r, date, suffix>>
    BY DEF createDayId
  <1> HIDE DEF n, ids, taken
  <1>5. \E k \in 1..(n + 1) : LeastFree(k, n, ids, r, date)
    BY <1>1, FreeSuffix
  <1>6. \E k \in 1..(n + 1) : Good(k)
    BY <1>2, <1>5 DEF LeastFree
  <1> HIDE DEF Good
  <1>7. suffix \in 1..(n + 1) /\ Good(suffix)
    BY <1>6
  <1> HIDE DEF suffix
  <1>8. <<r, date, suffix>> \notin taken /\ suffix \in Nat
    BY <1>1, <1>7 DEF Good
  <1>9. \A day \in DaysOf(days) : day.id # <<r, date, suffix>>
    BY <1>8 DEF taken
  <1>10. <<r, date, suffix>> \in {r} \X ({<<>>} \cup DateTexts) \X Nat
    BY <1>8
  <1>11. QED
    BY <1>4, <1>9, <1>10

LEMMA OneMore ==
  ASSUME NEW T, NEW s \in Seq(T), NEW x \in T
  PROVE  LET t == Append(s, x)
         IN  /\ t \in Seq(T) /\ Len(t) = Len(s) + 1 /\ t[Len(s) + 1] = x /\ DOMAIN t = 1..(Len(s) + 1)
             /\ \A k \in 1..Len(s) : t[k] = s[k]
             /\ \A y : y \in Range(t) <=> y \in Range(s) \/ y = x
             /\ s \o <<x>> = t
  <1> DEFINE t == Append(s, x)
             n == Len(s)
  <1>1. /\ t \in Seq(T) /\ Len(t) = n + 1 /\ t[n + 1] = x /\ n \in Nat
        /\ \A k \in 1..n : t[k] = s[k]
    OBVIOUS
  <1>2. DOMAIN t = 1..(n + 1) /\ DOMAIN s = 1..n
    OBVIOUS
  <1>3. s \o <<x>> = t
    OBVIOUS
  <1> HIDE DEF t, n
  <1>4. \A y : y \in Range(t) <=> y \in Range(s) \/ y = x
    <2>1. \A y : y \in Range(t) <=> \E k \in 1..(n + 1) : y = t[k]
      BY <1>2 DEF Range
    <2>2. \A y : y \in Range(s) <=> \E k \in 1..n : y = s[k]
      BY <1>2 DEF Range
    <2>3. \A k \in 1..(n + 1) : k \in 1..n \/ k = n + 1
      BY <1>1
    <2>4. \A k \in 1..n : k \in 1..(n + 1)
      BY <1>1
    <2>5. n + 1 \in 1..(n + 1)
      BY <1>1
    <2>6. QED
      BY <1>1, <2>1, <2>2, <2>3, <2>4, <2>5
  <1>5. QED
    BY <1>1, <1>2, <1>3, <1>4 DEF t, n

LEMMA OneMoreRow ==
  ASSUME NEW T, NEW s \in Seq(T), NEW x \in T, OneEach(s), \A y \in Range(s) : y.id # x.id
  PROVE  OneEach(Append(s, x))
  <1> DEFINE t == Append(s, x)
             n == Len(s)
  <1>1. /\ DOMAIN t = 1..(n + 1) /\ t[n + 1] = x /\ \A k \in 1..n : t[k] = s[k]
    BY OneMore
  <1>2. n \in Nat /\ \A k \in 1..n : s[k] \in Range(s)
    BY DEF Range
  <1>3. DOMAIN s = 1..n
    OBVIOUS
  <1> HIDE DEF t, n
  <1>4. \A k \in 1..(n + 1) : k \in 1..n \/ k = n + 1
    BY <1>2
  <1>5. ASSUME NEW i \in 1..(n + 1), NEW j \in 1..(n + 1), t[i].id = t[j].id
        PROVE  i = j
    <2>1. CASE i \in 1..n /\ j \in 1..n
      BY <1>1, <1>3, <1>5, <2>1 DEF OneEach
    <2>2. CASE i \in 1..n /\ j = n + 1
      BY <1>1, <1>2, <1>5, <2>2
    <2>3. CASE i = n + 1 /\ j \in 1..n
      BY <1>1, <1>2, <1>5, <2>3
    <2>4. QED
      BY <1>4, <2>1, <2>2, <2>3
  <1>6. QED
    BY <1>1, <1>5 DEF OneEach, t

\* The photo of a visit, as a list.
LEMMA ThePhoto ==
  ASSUME NEW T, NEW s \in Seq(T), OneEach(s), NEW p \in Range(s)
  PROVE  Selected(s, LAMBDA q : q.id = p.id) = <<p>>
  <1> DEFINE K == {k \in DOMAIN s : s[k].id = p.id}
             t == Kept(s, K)
             at == Ascending(K)
  <1>1. PICK m \in DOMAIN s : s[m] = p
    BY DEF Range
  <1>2. K = {m}
    BY <1>1 DEF OneEach
  <1>3. Cardinality(K) = 1
    <2> HIDE DEF K
    <2>1. QED
      BY <1>2, FS_Singleton
  <1>4. /\ at \in [1..Cardinality(K) -> K]
        /\ t \in Seq(T) /\ Len(t) = Cardinality(K) /\ \A n \in 1..Cardinality(K) : t[n] = s[at[n]]
    <2>1. K \in SUBSET DOMAIN s
      OBVIOUS
    <2> HIDE DEF K
    <2>2. QED
      BY <2>1, KeptList
  <1>5. Selected(s, LAMBDA q : q.id = p.id) = t
    BY DEF Selected
  <1> HIDE DEF K, t, at
  <1>6. t \in Seq(T) /\ Len(t) = 1 /\ t[1] = p
    <2>1. at[1] = m
      <3>1. 1 \in 1..Cardinality(K)
        BY <1>3
      <3>2. at[1] \in K
        BY <1>4, <3>1
      <3>3. QED
        BY <1>2, <3>2
    <2>2. t[1] = s[at[1]] /\ Len(t) = 1
      BY <1>3, <1>4
    <2>3. QED
      BY <1>1, <1>4, <2>1, <2>2
  <1>7. t = <<p>>
    BY <1>6
  <1>8. QED
    BY <1>5, <1>7

LEMMA DayNew ==
  ASSUME NEW r, NEW id \in {r} \X ({<<>>} \cup DateTexts) \X Nat, NEW date \in DateTexts,
         isDateOnlyString(date)
  PROVE  LET t == [id |-> id, date |-> date, note |-> "", photos |-> <<>>, visits |-> <<>>]
         IN  FitDay(r, t) /\ PhotosOf(t) = {} /\ VisitsOf(t) = {}
  <1> DEFINE t == [id |-> id, date |-> date, note |-> "", photos |-> <<>>, visits |-> <<>>]
  <1>1. t.id = id /\ t.date = date /\ t.note = "" /\ t.photos = <<>> /\ t.visits = <<>>
    OBVIOUS
  <1>2. IsDay(r, t)
    BY DEF IsDay, StoredDays
  <1> HIDE DEF t
  <1>3. PhotosOf(t) = {} /\ VisitsOf(t) = {}
    <2>1. Range(<<>>) = {}
      BY DEF Range
    <2>2. QED
      BY <1>1, <2>1 DEF PhotosOf, VisitsOf
  <1>7. DOMAIN t.photos = {} /\ DOMAIN t.visits = {}
    <2>1. DOMAIN <<>> = {}
      OBVIOUS
    <2>2. QED
      BY <1>1, <2>1
  <1>4. OneEach(t.photos) /\ OneEach(t.visits)
    BY <1>7 DEF OneEach
  <1>5. Linked(t)
    <2>1. {p.id : p \in PhotosOf(t)} = {v.photo : v \in VisitsOf(t)}
      BY <1>3
    <2>2. QED
      BY <1>1, <1>3, <1>7, <2>1 DEF Linked
  <1>6. QED
    BY <1>2, <1>3, <1>4, <1>5 DEF FitDay, t

\* buildRecordPlaceUpdate, part by part.
TheDay(days, id) == CHOOSE day \in VisitDays(days, id) : TRUE
TheVisit(day, id) == CHOOSE v \in VisitsOf(day) : v.id = id
PhotoList(s, x) == Selected(s, LAMBDA p : p.id = x)
Updated(v, place, date) == [v EXCEPT !.place = IF place = NoValue THEN @ ELSE place, !.at = date]
InPlace(day, id, u) ==
    [day EXCEPT !.visits = [k \in DOMAIN day.visits |->
        IF day.visits[k].id = id THEN u ELSE day.visits[k]]]

LEMMA FoundVisit ==
  ASSUME NEW r, NEW days, NEW E, RecordOK(r, days, E), NEW id, VisitDays(days, id) # {}
  PROVE  LET from == TheDay(days, id)
             v == TheVisit(from, id)
         IN  /\ from \in DaysOf(days) /\ v \in VisitsOf(from) /\ v.id = id
             /\ \E p \in PhotosOf(from) : p.id = v.photo /\ PhotoList(from.photos, v.photo) = <<p>>
  <1> DEFINE from == TheDay(days, id)
             v == TheVisit(from, id)
  <1>1. from \in DaysOf(days) /\ \E w \in VisitsOf(from) : w.id = id
    <2>1. from \in VisitDays(days, id)
      BY DEF TheDay
    <2>2. QED
      BY <2>1 DEF VisitDays
  <1>2. v \in VisitsOf(from) /\ v.id = id
    BY <1>1 DEF TheVisit
  <1> HIDE DEF from, v
  <1>3. FitDay(r, from)
    BY <1>1, FitRecord
  <1>4. v.photo \in {p.id : p \in PhotosOf(from)}
    <2>1. v.photo \in {w.photo : w \in VisitsOf(from)}
      BY <1>2
    <2>2. QED
      BY <2>1, <1>3 DEF FitDay, Linked
  <1>5. PICK p \in PhotosOf(from) : p.id = v.photo
    BY <1>4
  <1>6. from.photos \in Seq(StoredPhotos(r)) /\ OneEach(from.photos) /\ p \in Range(from.photos)
    BY <1>3, <1>5, DayFields DEF FitDay, PhotosOf
  <1>7. Selected(from.photos, LAMBDA q : q.id = p.id) = <<p>>
    <2>1. PICK T : T = StoredPhotos(r)
      OBVIOUS
    <2>2. PICK s : s = from.photos
      OBVIOUS
    <2>3. s \in Seq(T) /\ OneEach(s) /\ p \in Range(s)
      BY <1>6, <2>1, <2>2
    <2>4. Selected(s, LAMBDA q : q.id = p.id) = <<p>>
      BY <2>3, ThePhoto
    <2>5. QED
      BY <2>2, <2>4
  <1>8. PhotoList(from.photos, v.photo) = <<p>>
    BY <1>5, <1>7 DEF PhotoList
  <1>9. QED
    BY <1>1, <1>2, <1>5, <1>8 DEF from, v

LEMMA UpdatedVisit ==
  ASSUME NEW r, NEW v \in StoredVisits(r), NEW place \in OfferedPlaces \cup {None}, NEW date \in DateTexts
  PROVE  LET u == Updated(v, place, date)
         IN  u \in StoredVisits(r) /\ u.id = v.id /\ u.photo = v.photo /\ u.at = date
  BY PagesAssumption DEF StoredVisits, Updated

\* A day on which one visit has been replaced.
LEMMA InPlaceDay ==
  ASSUME NEW r, NEW day, FitDay(r, day), NEW v \in VisitsOf(day),
         NEW u \in StoredVisits(r), u.id = v.id, u.photo = v.photo, u.at = day.date
  PROVE  LET t == InPlace(day, v.id, u)
         IN  /\ FitDay(r, t) /\ t.id = day.id /\ t.date = day.date /\ t.note = day.note
             /\ PhotosOf(t) = PhotosOf(day) /\ hasDayContent(t)
             /\ \A w : w \in VisitsOf(t) <=> (w \in VisitsOf(day) /\ w.id # v.id) \/ w = u
  <1> DEFINE s == day.visits
             vs == [k \in DOMAIN s |-> IF s[k].id = v.id THEN u ELSE s[k]]
             t == InPlace(day, v.id, u)
  <1>1. /\ IsDay(r, day) /\ Linked(day) /\ OneEach(day.photos) /\ OneEach(day.visits)
        /\ s \in Seq(StoredVisits(r)) /\ day.photos \in Seq(StoredPhotos(r))
        /\ Len(s) \in Nat /\ DOMAIN s = 1..Len(s)
    BY DayFields DEF FitDay
  <1>2. /\ vs \in Seq(StoredVisits(r)) /\ DOMAIN vs = DOMAIN s
        /\ \A k \in DOMAIN s : vs[k] = (IF s[k].id = v.id THEN u ELSE s[k])
    <2>1. \A k \in DOMAIN s : s[k] \in StoredVisits(r)
      BY <1>1
    <2>2. vs \in [1..Len(s) -> StoredVisits(r)]
      BY <1>1, <2>1
    <2>3. QED
      BY <1>1, <2>2
  <1>3. t = WithRows(day, day.photos, vs)
    BY <1>1 DEF InPlace, WithRows, IsDay, StoredDays
  <1>4. /\ IsDay(r, t) /\ t.id = day.id /\ t.date = day.date /\ t.note = day.note
        /\ t.photos = day.photos /\ t.visits = vs
    <2> HIDE DEF vs, t
    <2>1. QED
      BY <1>1, <1>2, <1>3, RowsDay
  <1>5. PICK m \in DOMAIN s : s[m] = v
    BY DEF VisitsOf, Range
  <1>6. \A k \in DOMAIN s : s[k].id = v.id => k = m
    BY <1>1, <1>5 DEF OneEach
  <1>7. vs[m] = u /\ \A k \in DOMAIN s : k # m => vs[k] = s[k]
    BY <1>2, <1>5, <1>6
  <1> HIDE DEF vs, t
  <1>8. \A k \in DOMAIN s : vs[k].id = s[k].id /\ vs[k].photo = s[k].photo /\ vs[k].at = day.date
    <2>1. \A k \in DOMAIN s : s[k].at = day.date
      BY <1>1 DEF Linked, VisitsOf, Range
    <2>2. QED
      BY <1>5, <1>7, <2>1
  <1>9. OneEach(t.visits)
    BY <1>1, <1>2, <1>4, <1>8 DEF OneEach
  <1>10. PhotosOf(t) = PhotosOf(day)
    BY <1>4 DEF PhotosOf
  <1>11. /\ VisitsOf(t) = {vs[k] : k \in DOMAIN s} /\ VisitsOf(day) = {s[k] : k \in DOMAIN s}
    BY <1>2, <1>4 DEF VisitsOf, Range
  <1>12. Linked(t)
    <2>1. {w.photo : w \in VisitsOf(t)} = {w.photo : w \in VisitsOf(day)}
      BY <1>8, <1>11
    <2>2. \A i, j \in DOMAIN t.visits : t.visits[i].photo = t.visits[j].photo => i = j
      BY <1>1, <1>2, <1>4, <1>8 DEF Linked
    <2>3. \A w \in VisitsOf(t) : w.at = t.date
      BY <1>4, <1>8, <1>11
    <2>4. QED
      BY <1>1, <1>4, <1>10, <2>1, <2>2, <2>3 DEF Linked
  <1>13. hasDayContent(t)
    <2>1. t.visits # <<>>
      BY <1>2, <1>4, <1>5
    <2>2. QED
      BY <2>1 DEF hasDayContent
  <1>14. ASSUME NEW w
         PROVE  w \in VisitsOf(t) <=> (w \in VisitsOf(day) /\ w.id # v.id) \/ w = u
    BY <1>5, <1>6, <1>7, <1>11
  <1>15. QED
    BY <1>1, <1>4, <1>9, <1>10, <1>12, <1>13, <1>14 DEF FitDay, t

\* The days of a record with one of them replaced.
WithDay(days, from, t) == {t} \cup (DaysOf(days) \ {from})

LEMMA ReplacedDay ==
  ASSUME NEW r, NEW days, NEW E, RecordOK(r, days, E), NEW from \in DaysOf(days), NEW t,
         FitDay(r, t), t.id = from.id, t.date = from.date, hasDayContent(t),
         \A p \in PhotosOf(t) : \E q \in PhotosOf(from) : q.id = p.id,
         \A v \in VisitsOf(t) : \E w \in VisitsOf(from) : w.id = v.id
  PROVE  LET D == WithDay(days, from, t)
         IN  /\ RecordOK(r, ByDate(D), E) /\ ByDate(D) # <<>>
             /\ \A day : day \in DaysOf(ByDate(D)) <=> day = t \/ (day \in DaysOf(days) /\ day # from)
  <1> DEFINE D == WithDay(days, from, t)
  <1>1. \A day : day \in D <=> day = t \/ (day \in DaysOf(days) /\ day # from)
    BY DEF WithDay
  <1>2. IsFiniteSet(D)
    <2>1. IsFiniteSet(DaysOf(days))
      BY RecordList
    <2>2. IsFiniteSet(DaysOf(days) \ {from})
      BY <2>1, FS_Difference
    <2>3. IsFiniteSet((DaysOf(days) \ {from}) \cup {t})
      BY <2>2, FS_AddElement
    <2>4. D = (DaysOf(days) \ {from}) \cup {t}
      BY DEF WithDay
    <2>5. QED
      BY <2>3, <2>4
  <1> HIDE DEF D
  <1>3. /\ \A day \in DaysOf(days) : FitDay(r, day) /\ (hasDayContent(day) \/ day.id \in E)
        /\ \A d, e \in DaysOf(days) : d # e => Apart(d, e)
    BY FitRecord
  <1>4. \A day \in D : FitDay(r, day) /\ (hasDayContent(day) \/ day.id \in E)
    BY <1>1, <1>3
  <1>5. ASSUME NEW d \in DaysOf(days), d # from
        PROVE  Apart(t, d) /\ Apart(d, t)
    <2>1. Apart(from, d)
      BY <1>3, <1>5
    <2>2. Apart(t, d)
      BY <2>1 DEF Apart
    <2>3. QED
      BY <2>2, ApartSym
  <1>6. \A d, e \in D : d # e => Apart(d, e)
    BY <1>1, <1>3, <1>5
  <1>7. \A day \in D : IsDay(r, day)
    BY <1>4 DEF FitDay
  <1>8. DaysFit(D, E)
    BY <1>4, <1>6, <1>7, FitParts
  <1>9. RecordOK(r, ByDate(D), E) /\ DaysOf(ByDate(D)) = D
    BY <1>2, <1>7, <1>8, ByDateOK
  <1>10. ByDate(D) # <<>>
    <2>1. t \in DaysOf(ByDate(D))
      BY <1>1, <1>9
    <2>2. \E k \in 1..Len(ByDate(D)) : ByDate(D)[k] = t
      BY <1>9, <2>1, RecordList
    <2>3. QED
      BY <2>2
  <1>11. QED
    BY <1>1, <1>9, <1>10 DEF D

\* What a change of a visit must keep: the photos, the other visits, the notes.
KeptByPlace(t, days, id) ==
    /\ \A p : p \in AllPhotos(t) <=> p \in AllPhotos(days)
    /\ \A w : w.id # id => (w \in AllVisits(t) <=> w \in AllVisits(days))
    /\ \A i, n : n # "" => ((\E d \in DaysOf(t) : d.id = i /\ d.note = n) <=>
                            (\E d \in DaysOf(days) : d.id = i /\ d.note = n))

LEMMA RowsOf ==
  ASSUME NEW days
  PROVE  /\ \A p : p \in AllPhotos(days) <=> \E d \in DaysOf(days) : p \in PhotosOf(d)
         /\ \A v : v \in AllVisits(days) <=> \E d \in DaysOf(days) : v \in VisitsOf(d)
  BY DEF AllPhotos, AllVisits

\* A visit that stays on its day.
LEMMA UpdatedInPlace ==
  ASSUME NEW r, NEW days, NEW E, RecordOK(r, days, E), NEW from \in DaysOf(days),
         NEW v \in VisitsOf(from), NEW u \in StoredVisits(r),
         u.id = v.id, u.photo = v.photo, u.at = from.date
  PROVE  LET t == ByDate(WithDay(days, from, InPlace(from, v.id, u)))
         IN  RecordOK(r, t, E) /\ t # <<>> /\ KeptByPlace(t, days, v.id)
  <1>1. FitDay(r, from)
    BY FitRecord
  <1>2. PICK e : e = InPlace(from, v.id, u)
    OBVIOUS
  <1>3. /\ FitDay(r, e) /\ e.id = from.id /\ e.date = from.date /\ e.note = from.note
        /\ PhotosOf(e) = PhotosOf(from) /\ hasDayContent(e)
        /\ \A w : w \in VisitsOf(e) <=> (w \in VisitsOf(from) /\ w.id # v.id) \/ w = u
    BY <1>1, <1>2, InPlaceDay
  <1>4. \A p \in PhotosOf(e) : \E q \in PhotosOf(from) : q.id = p.id
    BY <1>3
  <1>5. \A w \in VisitsOf(e) : \E x \in VisitsOf(from) : x.id = w.id
    BY <1>3
  <1>6. PICK t : t = ByDate(WithDay(days, from, e))
    OBVIOUS
  <1>7. /\ RecordOK(r, t, E) /\ t # <<>>
        /\ \A day : day \in DaysOf(t) <=> day = e \/ (day \in DaysOf(days) /\ day # from)
    BY <1>3, <1>4, <1>5, <1>6, ReplacedDay
  <1>8. \A p : p \in AllPhotos(t) <=> p \in AllPhotos(days)
    BY <1>3, <1>7, RowsOf
  <1>9. \A w : w.id # v.id => (w \in AllVisits(t) <=> w \in AllVisits(days))
    BY <1>3, <1>7, RowsOf
  <1>10. \A i, n : n # "" => ((\E d \in DaysOf(t) : d.id = i /\ d.note = n) <=>
                             (\E d \in DaysOf(days) : d.id = i /\ d.note = n))
    BY <1>3, <1>7
  <1>11. KeptByPlace(t, days, v.id)
    BY <1>8, <1>9, <1>10 DEF KeptByPlace
  <1>12. QED
    BY <1>2, <1>6, <1>7, <1>11

\* A day that a visit u and its photo p come to.
OntoDay(day, p, u) == WithRows(day, day.photos \o <<p>>, Append(day.visits, u))

LEMMA ArrivedDay ==
  ASSUME NEW r, NEW day, FitDay(r, day), NEW p \in StoredPhotos(r), NEW u \in StoredVisits(r),
         u.photo = p.id, u.at = day.date,
         \A q \in PhotosOf(day) : q.id # p.id, \A w \in VisitsOf(day) : w.id # u.id
  PROVE  LET t == OntoDay(day, p, u)
         IN  /\ FitDay(r, t) /\ t.id = day.id /\ t.date = day.date /\ t.note = day.note
             /\ hasDayContent(t)
             /\ \A q : q \in PhotosOf(t) <=> q \in PhotosOf(day) \/ q = p
             /\ \A w : w \in VisitsOf(t) <=> w \in VisitsOf(day) \/ w = u
  <1>1. /\ IsDay(r, day) /\ Linked(day) /\ OneEach(day.photos) /\ OneEach(day.visits)
        /\ day.photos \in Seq(StoredPhotos(r)) /\ day.visits \in Seq(StoredVisits(r))
    BY DayFields DEF FitDay
  <1>2. PICK ps : ps = Append(day.photos, p)
    OBVIOUS
  <1>3. PICK vs : vs = Append(day.visits, u)
    OBVIOUS
  <1>4. /\ ps \in Seq(StoredPhotos(r)) /\ day.photos \o <<p>> = ps
        /\ \A y : y \in Range(ps) <=> y \in Range(day.photos) \/ y = p
    <2>1. PICK T : T = StoredPhotos(r)
      OBVIOUS
    <2>2. PICK s : s = day.photos
      OBVIOUS
    <2>3. s \in Seq(T) /\ p \in T
      BY <1>1, <2>1, <2>2
    <2>4. /\ Append(s, p) \in Seq(T) /\ s \o <<p>> = Append(s, p)
          /\ \A y : y \in Range(Append(s, p)) <=> y \in Range(s) \/ y = p
      BY <2>3, OneMore
    <2>5. QED
      BY <1>2, <2>1, <2>2, <2>4
  <1>5. /\ vs \in Seq(StoredVisits(r)) /\ Len(vs) = Len(day.visits) + 1
        /\ vs[Len(day.visits) + 1] = u /\ \A k \in 1..Len(day.visits) : vs[k] = day.visits[k]
        /\ DOMAIN vs = 1..(Len(day.visits) + 1)
        /\ \A y : y \in Range(vs) <=> y \in Range(day.visits) \/ y = u
    <2>1. PICK T : T = StoredVisits(r)
      OBVIOUS
    <2>2. PICK s : s = day.visits
      OBVIOUS
    <2>3. s \in Seq(T) /\ u \in T
      BY <1>1, <2>1, <2>2
    <2>4. LET t == Append(s, u)
          IN  /\ t \in Seq(T) /\ Len(t) = Len(s) + 1 /\ t[Len(s) + 1] = u /\ DOMAIN t = 1..(Len(s) + 1)
              /\ \A k \in 1..Len(s) : t[k] = s[k]
              /\ \A y : y \in Range(t) <=> y \in Range(s) \/ y = u
      BY <2>3, OneMore
    <2>5. QED
      BY <1>3, <2>1, <2>2, <2>4
  <1>6. PICK t : t = WithRows(day, ps, vs)
    OBVIOUS
  <1>7. t = OntoDay(day, p, u)
    BY <1>3, <1>4, <1>6 DEF OntoDay
  <1>8. /\ IsDay(r, t) /\ t.id = day.id /\ t.date = day.date /\ t.note = day.note
        /\ t.photos = ps /\ t.visits = vs
    BY <1>1, <1>4, <1>5, <1>6, RowsDay
  <1>9. OneEach(t.photos)
    <2>1. PICK T : T = StoredPhotos(r)
      OBVIOUS
    <2>2. PICK s : s = day.photos
      OBVIOUS
    <2>3. s \in Seq(T) /\ p \in T /\ OneEach(s) /\ \A y \in Range(s) : y.id # p.id
      BY <1>1, <2>1, <2>2 DEF PhotosOf
    <2>4. OneEach(Append(s, p))
      BY <2>3, OneMoreRow
    <2>5. QED
      BY <1>2, <1>8, <2>2, <2>4
  <1>10. OneEach(t.visits)
    <2>1. PICK T : T = StoredVisits(r)
      OBVIOUS
    <2>2. PICK s : s = day.visits
      OBVIOUS
    <2>3. s \in Seq(T) /\ u \in T /\ OneEach(s) /\ \A y \in Range(s) : y.id # u.id
      BY <1>1, <2>1, <2>2 DEF VisitsOf
    <2>4. OneEach(Append(s, u))
      BY <2>3, OneMoreRow
    <2>5. QED
      BY <1>3, <1>8, <2>2, <2>4
  <1>11. \A q : q \in PhotosOf(t) <=> q \in PhotosOf(day) \/ q = p
    BY <1>4, <1>8 DEF PhotosOf
  <1>12. \A w : w \in VisitsOf(t) <=> w \in VisitsOf(day) \/ w = u
    BY <1>5, <1>8 DEF VisitsOf
  <1>13. Linked(t)
    <2>1. {q.id : q \in PhotosOf(day)} = {w.photo : w \in VisitsOf(day)}
      BY <1>1 DEF Linked
    <2>2. {q.id : q \in PhotosOf(t)} = {q.id : q \in PhotosOf(day)} \cup {p.id}
      BY <1>11
    <2>3. {w.photo : w \in VisitsOf(t)} = {w.photo : w \in VisitsOf(day)} \cup {u.photo}
      BY <1>12
    <2>4. {q.id : q \in PhotosOf(t)} = {w.photo : w \in VisitsOf(t)}
      BY <2>1, <2>2, <2>3
    <2>5. PICK n \in Nat : n = Len(day.visits)
      BY <1>1
    <2>6. DOMAIN day.visits = 1..n
      BY <1>1, <2>5
    <2>7. \A i \in 1..n : vs[i].photo # u.photo
      <3> SUFFICES ASSUME NEW i \in 1..n
                   PROVE  vs[i].photo # u.photo
        OBVIOUS
      <3>1. vs[i] = day.visits[i] /\ vs[i] \in VisitsOf(day)
        BY <1>5, <2>5, <2>6 DEF VisitsOf, Range
      <3>2. vs[i].photo \in {q.id : q \in PhotosOf(day)}
        BY <2>1, <3>1
      <3>3. QED
        BY <3>2
    <2>8. \A i, j \in 1..n : vs[i].photo = vs[j].photo => i = j
      BY <1>1, <1>5, <2>5, <2>6 DEF Linked
    <2>9. ASSUME NEW i \in 1..(n + 1), NEW j \in 1..(n + 1), vs[i].photo = vs[j].photo
          PROVE  i = j
      <3>1. vs[n + 1] = u
        BY <1>5, <2>5
      <3>2. (i \in 1..n \/ i = n + 1) /\ (j \in 1..n \/ j = n + 1)
        OBVIOUS
      <3>3. QED
        BY <2>7, <2>8, <2>9, <3>1, <3>2
    <2>10. \A i, j \in DOMAIN t.visits : t.visits[i].photo = t.visits[j].photo => i = j
      BY <1>5, <1>8, <2>5, <2>9
    <2>11. \A w \in VisitsOf(t) : w.at = t.date
      BY <1>1, <1>8, <1>12 DEF Linked
    <2>12. QED
      BY <1>1, <1>8, <2>4, <2>10, <2>11 DEF Linked
  <1>14. hasDayContent(t)
    <2>1. Len(vs) # 0
      BY <1>1, <1>5
    <2>2. vs # <<>>
      BY <2>1
    <2>3. QED
      BY <1>8, <2>2 DEF hasDayContent
  <1>15. QED
    BY <1>7, <1>8, <1>9, <1>10, <1>11, <1>12, <1>13, <1>14 DEF FitDay

\* The day of a date, a new one if the record has none.
Target(r, days, date) ==
    LET there == {day \in DaysOf(days) : day.date = date}
    IN  IF there # {} THEN CHOOSE day \in there : TRUE
        ELSE [id |-> createDayId(r, days, date), date |-> date, note |-> "",
              photos |-> <<>>, visits |-> <<>>]

IsTarget(r, days, date, onto) ==
    /\ FitDay(r, onto) /\ onto.date = date
    /\ \A d \in DaysOf(days) : d # onto => Apart(d, onto)
    /\ \A d \in DaysOf(days) : d.date = date <=> d = onto
    /\ onto \in DaysOf(days) \/ (onto.note = "" /\ PhotosOf(onto) = {} /\ VisitsOf(onto) = {})

LEMMA TargetOK ==
  ASSUME NEW r, NEW days, NEW E, RecordOK(r, days, E), NEW date \in DateTexts, isDateOnlyString(date)
  PROVE  IsTarget(r, days, date, Target(r, days, date))
  <1> DEFINE there == {day \in DaysOf(days) : day.date = date}
             onto == Target(r, days, date)
  <1>1. /\ \A day \in DaysOf(days) : FitDay(r, day)
        /\ \A d, e \in DaysOf(days) : d # e => Apart(d, e)
    BY FitRecord
  <1>2. CASE there # {}
    <2>1. onto \in there
      BY <1>2 DEF Target
    <2>2. onto \in DaysOf(days) /\ onto.date = date
      BY <2>1
    <2> HIDE DEF onto
    <2>3. \A d \in DaysOf(days) : d.date = date => d = onto
      BY <1>1, <2>2 DEF Apart
    <2>4. IsTarget(r, days, date, onto)
      BY <1>1, <2>2, <2>3 DEF IsTarget
    <2>5. QED
      BY <2>4 DEF onto
  <1>3. CASE there = {}
    <2>1. PICK id : id = createDayId(r, days, date)
      OBVIOUS
    <2>2. id \in {r} \X ({<<>>} \cup DateTexts) \X Nat /\ \A day \in DaysOf(days) : day.id # id
      BY <2>1, NewDayId
    <2> DEFINE t == [id |-> id, date |-> date, note |-> "", photos |-> <<>>, visits |-> <<>>]
    <2>3. onto = t
      BY <1>3, <2>1 DEF Target
    <2>4. t.id = id /\ t.date = date /\ t.note = ""
      OBVIOUS
    <2>5. FitDay(r, t) /\ PhotosOf(t) = {} /\ VisitsOf(t) = {}
      BY <2>2, DayNew
    <2> HIDE DEF t, onto
    <2>6. \A d \in DaysOf(days) : d.date # date
      BY <1>3
    <2>7. \A d \in DaysOf(days) : Apart(d, t)
      BY <2>2, <2>4, <2>5, <2>6 DEF Apart
    <2>8. \A d \in DaysOf(days) : d # t
      BY <2>4, <2>6
    <2>9. IsTarget(r, days, date, t)
      BY <2>4, <2>5, <2>6, <2>7, <2>8 DEF IsTarget
    <2>10. QED
      BY <2>3, <2>9 DEF onto
  <1>4. QED
    BY <1>2, <1>3

\* The days after a visit has gone from one to another, those without content left out.
MovedDays(days, left, onto, from, arrived) ==
    {d \in {left, arrived} \cup (DaysOf(days) \ {from, onto}) : hasDayContent(d)}

LEMMA MovedRecord ==
  ASSUME NEW r, NEW days, NEW E, RecordOK(r, days, E), NEW from \in DaysOf(days),
         NEW v \in VisitsOf(from), NEW p \in PhotosOf(from), p.id = v.photo,
         NEW date, date # from.date, NEW onto, IsTarget(r, days, date, onto),
         NEW u \in StoredVisits(r), u.id = v.id, u.photo = v.photo, u.at = date
  PROVE  LET t == ByDate(MovedDays(days, Without(from, p.id), onto, from, OntoDay(onto, p, u)))
         IN  RecordOK(r, t, E) /\ t # <<>> /\ KeptByPlace(t, days, v.id)
  <1>1. /\ \A day \in DaysOf(days) : FitDay(r, day) /\ (hasDayContent(day) \/ day.id \in E)
        /\ \A d, e \in DaysOf(days) : d # e => Apart(d, e)
    BY FitRecord
  <1>2. FitDay(r, from) /\ FitDay(r, onto) /\ onto.date = date /\ from # onto /\ Apart(from, onto)
    BY <1>1 DEF IsTarget
  <1>3. PICK left : left = Without(from, p.id)
    OBVIOUS
  <1>4. /\ FitDay(r, left) /\ left.id = from.id /\ left.date = from.date /\ left.note = from.note
        /\ \A q : q \in PhotosOf(left) <=> q \in PhotosOf(from) /\ q.id # p.id
        /\ \A w : w \in VisitsOf(left) <=> w \in VisitsOf(from) /\ w.photo # p.id
    BY <1>2, <1>3, WithoutDay
  <1>5. PICK arrived : arrived = OntoDay(onto, p, u)
    OBVIOUS
  <1>6. p \in StoredPhotos(r)
    BY <1>2, RowFields DEF FitDay
  <1>7. (\A q \in PhotosOf(onto) : q.id # p.id) /\ \A w \in VisitsOf(onto) : w.id # u.id
    BY <1>2 DEF Apart
  <1>8. /\ FitDay(r, arrived) /\ arrived.id = onto.id /\ arrived.date = onto.date
        /\ arrived.note = onto.note /\ hasDayContent(arrived)
        /\ \A q : q \in PhotosOf(arrived) <=> q \in PhotosOf(onto) \/ q = p
        /\ \A w : w \in VisitsOf(arrived) <=> w \in VisitsOf(onto) \/ w = u
    BY <1>2, <1>5, <1>6, <1>7, ArrivedDay
  <1>9. PICK D : D = MovedDays(days, left, onto, from, arrived)
    OBVIOUS
  <1>10. \A d : d \in D <=> /\ hasDayContent(d)
                            /\ d = left \/ d = arrived \/ (d \in DaysOf(days) /\ d # from /\ d # onto)
    BY <1>9 DEF MovedDays
  <1>11. IsFiniteSet(D)
    <2>1. IsFiniteSet(DaysOf(days))
      BY RecordList
    <2>2. IsFiniteSet(DaysOf(days) \ {from, onto})
      BY <2>1, FS_Difference
    <2>3. IsFiniteSet((DaysOf(days) \ {from, onto}) \cup {left})
      BY <2>2, FS_AddElement
    <2>4. IsFiniteSet(((DaysOf(days) \ {from, onto}) \cup {left}) \cup {arrived})
      BY <2>3, FS_AddElement
    <2>5. D \subseteq ((DaysOf(days) \ {from, onto}) \cup {left}) \cup {arrived}
      BY <1>10
    <2>6. QED
      BY <2>4, <2>5, FS_Subset
  <1>12. \A day \in D : FitDay(r, day) /\ (hasDayContent(day) \/ day.id \in E)
    BY <1>1, <1>4, <1>8, <1>10
  <1>13. Apart(left, arrived)
    <2>1. left.id # arrived.id /\ left.date # arrived.date
      BY <1>2, <1>4, <1>8 DEF Apart
    <2>2. \A q \in PhotosOf(left), s \in PhotosOf(arrived) : q.id # s.id
      BY <1>2, <1>4, <1>8 DEF Apart
    <2>3. \A w \in VisitsOf(from) : w.photo # v.photo => w.id # v.id
      BY <1>2 DEF FitDay, OneEach, VisitsOf, Range
    <2>4. \A q \in VisitsOf(left), s \in VisitsOf(arrived) : q.id # s.id
      BY <1>2, <1>4, <1>8, <2>3 DEF Apart
    <2>5. QED
      BY <2>1, <2>2, <2>4 DEF Apart
  <1>14. ASSUME NEW d \in DaysOf(days), d # from, d # onto
         PROVE  Apart(left, d) /\ Apart(arrived, d)
    <2>1. Apart(from, d) /\ Apart(onto, d)
      BY <1>1, <1>14, ApartSym DEF IsTarget
    <2>2. Apart(left, d)
      BY <1>4, <2>1 DEF Apart
    <2>3. Apart(arrived, d)
      BY <1>8, <2>1 DEF Apart
    <2>4. QED
      BY <2>2, <2>3
  <1>15. \A d, e \in D : d # e => Apart(d, e)
    <2> SUFFICES ASSUME NEW d \in D, NEW e \in D, d # e
                 PROVE  Apart(d, e)
      OBVIOUS
    <2>1. CASE d = left
      BY <1>10, <1>13, <1>14, <2>1
    <2>2. CASE d = arrived
      BY <1>10, <1>13, <1>14, <2>2, ApartSym
    <2>3. CASE d \in DaysOf(days) /\ d # from /\ d # onto
      BY <1>1, <1>10, <1>14, <2>3, ApartSym
    <2>4. QED
      BY <1>10, <2>1, <2>2, <2>3
  <1>16. \A day \in D : IsDay(r, day)
    BY <1>12 DEF FitDay
  <1>17. DaysFit(D, E)
    BY <1>12, <1>15, <1>16, FitParts
  <1>18. PICK t : t = ByDate(D)
    OBVIOUS
  <1>19. RecordOK(r, t, E) /\ DaysOf(t) = D
    BY <1>11, <1>16, <1>17, <1>18, ByDateOK
  <1>20. t # <<>>
    <2>1. arrived \in DaysOf(t)
      BY <1>8, <1>10, <1>19
    <2>2. \E k \in 1..Len(t) : t[k] = arrived
      BY <1>19, <2>1, RecordList
    <2>3. QED
      BY <2>2
  <1>21. \A d \in DaysOf(days) : d = from \/ d = onto \/ (d # from /\ d # onto)
    OBVIOUS
  <1>22. ASSUME NEW q
         PROVE  q \in AllPhotos(t) <=> q \in AllPhotos(days)
    <2>1. q \in AllPhotos(t) <=> \E d \in D : q \in PhotosOf(d)
      BY <1>19, RowsOf
    <2>2. q \in AllPhotos(t) <=>
             \/ q \in PhotosOf(left) \/ q \in PhotosOf(arrived)
             \/ \E d \in DaysOf(days) : d # from /\ d # onto /\ q \in PhotosOf(d)
      BY <1>10, <2>1, NoContent
    <2>3. q \in PhotosOf(from) /\ q.id = p.id => q = p
      BY <1>2 DEF FitDay, OneEach, PhotosOf, Range
    <2>4. q \in PhotosOf(left) \/ q \in PhotosOf(arrived) <=> q \in PhotosOf(from) \/ q \in PhotosOf(onto)
      BY <1>4, <1>8, <2>3
    <2>5. q \in PhotosOf(onto) => onto \in DaysOf(days)
      BY DEF IsTarget
    <2>6. QED
      BY <2>2, <2>4, <2>5, RowsOf
  <1>23. ASSUME NEW w, w.id # v.id
         PROVE  w \in AllVisits(t) <=> w \in AllVisits(days)
    <2>1. w \in AllVisits(t) <=> \E d \in D : w \in VisitsOf(d)
      BY <1>19, RowsOf
    <2>2. w \in AllVisits(t) <=>
             \/ w \in VisitsOf(left) \/ w \in VisitsOf(arrived)
             \/ \E d \in DaysOf(days) : d # from /\ d # onto /\ w \in VisitsOf(d)
      BY <1>10, <2>1, NoContent
    <2>3. w \in VisitsOf(from) => w.photo # p.id
      <3>1. \A i, j \in DOMAIN from.visits : from.visits[i].photo = from.visits[j].photo => i = j
        BY <1>2 DEF FitDay, Linked
      <3>2. QED
        BY <1>23, <3>1 DEF VisitsOf, Range
    <2>4. w \in VisitsOf(left) \/ w \in VisitsOf(arrived) <=> w \in VisitsOf(from) \/ w \in VisitsOf(onto)
      BY <1>4, <1>8, <1>23, <2>3
    <2>5. w \in VisitsOf(onto) => onto \in DaysOf(days)
      BY DEF IsTarget
    <2>6. QED
      BY <2>2, <2>4, <2>5, RowsOf
  <1>24. ASSUME NEW i, NEW n, n # ""
         PROVE  (\E d \in DaysOf(t) : d.id = i /\ d.note = n) <=>
                (\E d \in DaysOf(days) : d.id = i /\ d.note = n)
    <2>1. onto.note = n => onto \in DaysOf(days)
      BY <1>24 DEF IsTarget
    <2>2. (\E d \in DaysOf(t) : d.id = i /\ d.note = n) <=>
             \/ left.id = i /\ left.note = n
             \/ arrived.id = i /\ arrived.note = n
             \/ \E d \in DaysOf(days) : d # from /\ d # onto /\ d.id = i /\ d.note = n
      BY <1>10, <1>19, <1>24, NoContent
    <2>3. QED
      BY <1>4, <1>8, <2>1, <2>2
  <1>25. KeptByPlace(t, days, v.id)
    BY <1>22, <1>23, <1>24 DEF KeptByPlace
  <1>26. QED
    BY <1>3, <1>5, <1>9, <1>18, <1>19, <1>20, <1>25

\* The visits of a day but the one of photo v.photo are those but v itself.
VisitsBut(s, i) == Selected(s, LAMBDA v : v.id # i)

LEMMA OneVisitLess ==
  ASSUME NEW r, NEW day, FitDay(r, day), NEW v \in VisitsOf(day)
  PROVE  VisitsBut(day.visits, v.id) = VisitsLeft(day.visits, v.photo)
  <1> DEFINE s == day.visits
             K == {k \in DOMAIN s : s[k].id # v.id}
             L == {k \in DOMAIN s : s[k].photo # v.photo}
  <1>1. OneEach(s) /\ \A i, j \in DOMAIN s : s[i].photo = s[j].photo => i = j
    BY DEF FitDay, Linked
  <1>2. PICK m \in DOMAIN s : s[m] = v
    BY DEF VisitsOf, Range
  <1>3. \A k \in DOMAIN s : (s[k].id # v.id <=> k # m) /\ (s[k].photo # v.photo <=> k # m)
    BY <1>1, <1>2 DEF OneEach
  <1>4. K = L
    BY <1>3
  <1>5. Selected(s, LAMBDA w : w.id # v.id) = Kept(s, K)
    BY DEF Selected
  <1>6. VisitsLeft(s, v.photo) = Kept(s, L)
    BY DEF VisitsLeft, Selected
  <1>7. QED
    BY <1>4, <1>5, <1>6 DEF VisitsBut

LEMMA MovedIs ==
  ASSUME NEW r, NEW days, NEW from \in DaysOf(days), FitDay(r, from), NEW v \in VisitsOf(from),
         NEW p, p.id = v.photo, NEW u, u.id = v.id, u.photo = v.photo,
         NEW date, date # from.date, NEW onto, onto = Target(r, days, date),
         IsTarget(r, days, date, onto)
  PROVE  \A d : d \in Moved(r, days, from, u, <<p>>, date) <=>
                   \/ d = Without(from, p.id) \/ d = OntoDay(onto, p, u)
                   \/ d \in DaysOf(days) /\ d # from /\ d # onto
  <1> DEFINE there == {day \in DaysOf(days) : day.date = date}
             left == [from EXCEPT !.photos = Selected(@, LAMBDA q : q.id # u.photo),
                                  !.visits = Selected(@, LAMBDA w : w.id # u.id)]
             gone == [onto EXCEPT !.photos = @ \o <<p>>, !.visits = Append(@, u)]
  <1>1. Moved(r, days, from, u, <<p>>, date) = {left, gone} \cup (DaysOf(days) \ ({from} \cup there))
    BY DEF Moved, Target
  <1>2. left = Without(from, p.id)
    <2>1. PICK ps : ps = PhotosLeft(from.photos, p.id)
      OBVIOUS
    <2>2. PICK vs : vs = VisitsLeft(from.visits, p.id)
      OBVIOUS
    <2>3. Selected(from.photos, LAMBDA q : q.id # u.photo) = ps
      BY <2>1 DEF PhotosLeft
    <2>4. VisitsBut(from.visits, u.id) = vs
      BY <2>2, OneVisitLess
    <2>5. left = [from EXCEPT !.photos = ps, !.visits = vs]
      BY <2>3, <2>4 DEF FitDay, IsDay, StoredDays, VisitsBut
    <2>6. QED
      BY <2>1, <2>2, <2>5 DEF Without, WithRows
  <1>3. gone = OntoDay(onto, p, u)
    BY DEF OntoDay, WithRows, IsTarget, FitDay, IsDay, StoredDays
  <1>4. \A d : d \in there <=> d \in DaysOf(days) /\ d = onto
    BY DEF IsTarget
  <1> HIDE DEF left, gone, there
  <1>5. QED
    BY <1>1, <1>2, <1>3, <1>4

LEMMA UpdateIs ==
  ASSUME NEW r, NEW days, NEW id, NEW date, NEW place
  PROVE  LET from == TheDay(days, id)
             v == TheVisit(from, id)
             u == Updated(v, place, date)
         IN  buildRecordPlaceUpdate(r, days, id, date, place) =
                IF date = from.date THEN ByDate(WithDay(days, from, InPlace(from, id, u)))
                ELSE ByDate({d \in Moved(r, days, from, u, PhotoList(from.photos, v.photo), date) :
                                hasDayContent(d)})
  BY Zenon DEF buildRecordPlaceUpdate, TheDay, TheVisit, PhotoList, Updated, InPlace, WithDay

LEMMA UpdatedRecord ==
  ASSUME NEW r, NEW days, NEW E, RecordOK(r, days, E), NEW id, VisitDays(days, id) # {},
         NEW date \in DateTexts, isDateOnlyString(date), NEW place \in OfferedPlaces \cup {None}
  PROVE  LET t == buildRecordPlaceUpdate(r, days, id, date, place)
         IN  RecordOK(r, t, E) /\ t # <<>> /\ KeptByPlace(t, days, id)
  <1>1. PICK from : from = TheDay(days, id)
    OBVIOUS
  <1>2. PICK v : v = TheVisit(from, id)
    OBVIOUS
  <1>3. from \in DaysOf(days) /\ v \in VisitsOf(from) /\ v.id = id
    BY <1>1, <1>2, FoundVisit
  <1>4. PICK p \in PhotosOf(from) : p.id = v.photo /\ PhotoList(from.photos, v.photo) = <<p>>
    BY <1>1, <1>2, FoundVisit
  <1>5. FitDay(r, from)
    BY <1>3, FitRecord
  <1>6. v \in StoredVisits(r)
    BY <1>3, <1>5, RowFields DEF FitDay
  <1>7. PICK u : u = Updated(v, place, date)
    OBVIOUS
  <1>8. u \in StoredVisits(r) /\ u.id = v.id /\ u.photo = v.photo /\ u.at = date
    BY <1>6, <1>7, UpdatedVisit
  <1>9. buildRecordPlaceUpdate(r, days, id, date, place) =
           IF date = from.date THEN ByDate(WithDay(days, from, InPlace(from, id, u)))
           ELSE ByDate({d \in Moved(r, days, from, u, <<p>>, date) : hasDayContent(d)})
    BY <1>1, <1>2, <1>4, <1>7, UpdateIs
  <1>10. CASE date = from.date
    <2>1. PICK t : t = ByDate(WithDay(days, from, InPlace(from, v.id, u)))
      OBVIOUS
    <2>2. RecordOK(r, t, E) /\ t # <<>> /\ KeptByPlace(t, days, v.id)
      BY <1>3, <1>8, <1>10, <2>1, UpdatedInPlace
    <2>3. QED
      BY <1>3, <1>9, <1>10, <2>1, <2>2
  <1>11. CASE date # from.date
    <2>1. PICK onto : onto = Target(r, days, date)
      OBVIOUS
    <2>2. IsTarget(r, days, date, onto)
      BY <2>1, TargetOK
    <2>3. PICK M : M = MovedDays(days, Without(from, p.id), onto, from, OntoDay(onto, p, u))
      OBVIOUS
    <2>4. PICK N : N = {d \in Moved(r, days, from, u, <<p>>, date) : hasDayContent(d)}
      OBVIOUS
    <2>5. \A d : d \in Moved(r, days, from, u, <<p>>, date) <=>
                   \/ d = Without(from, p.id) \/ d = OntoDay(onto, p, u)
                   \/ d \in DaysOf(days) /\ d # from /\ d # onto
      BY <1>3, <1>4, <1>5, <1>8, <1>11, <2>1, <2>2, MovedIs
    <2>6. M = N
      BY <2>3, <2>4, <2>5 DEF MovedDays
    <2>7. PICK t : t = ByDate(M)
      OBVIOUS
    <2>8. RecordOK(r, t, E) /\ t # <<>> /\ KeptByPlace(t, days, v.id)
      BY <1>3, <1>4, <1>8, <1>11, <2>2, <2>3, <2>7, MovedRecord
    <2>9. buildRecordPlaceUpdate(r, days, id, date, place) = ByDate(N)
      BY <1>9, <1>11, <2>4
    <2>10. QED
      BY <1>3, <2>6, <2>7, <2>8, <2>9
  <1>12. QED
    BY <1>10, <1>11

(***************************************************************************)
(* The parts of the invariant, for each step.                              *)
(***************************************************************************)
StoredIn(R) == {r \in Records : R[r] # None}
StoredFits(R, E) == IsFiniteSet(StoredIn(R)) /\ \A r \in StoredIn(R) : RecordOK(r, R[r], E)

SavesAreNew(S, R) == \A s \in S : R[s.record] = None

\* A change of queue s by itself, and beside those before it.
WriteFits(w, R, E) ==
    /\ w.record \in Records /\ R[w.record] # None
    /\ RecordOK(w.record, w.days, E) /\ (w.op # "record" => w.days # <<>>)
    /\ KeepsTheRest(w)
    /\ ~w.behind /\ ~w.done => w.copy = R[w.record]
Overlaps(s) == \A k \in DOMAIN s : ~s[k].behind => \A j \in 1..(k - 1) : s[j].record # s[k].record
QueueFits(s, R, E) == (\A k \in DOMAIN s : WriteFits(s[k], R, E)) /\ Overlaps(s)

SettledIn(s, r) == \A k \in DOMAIN s : s[k].record = r => ~s[k].done
PageShowsIn(p, R) == p.record # None => p.record \in Records /\ R[p.record] # None

\* The copy that table C has of record r, behind which M may be.
CopyFits(r, C, M, R, s, E) ==
    C[r] # None =>
        /\ R[r] # None /\ RecordOK(r, C[r], E)
        /\ r \notin M /\ SettledIn(s, r) => C[r] = R[r]

IsTable(R) == R = [q \in Records |-> R[q]]

PageFits(p, C, M, R, s, E) ==
    /\ PageShowsIn(p, R) /\ IsTable(C)
    /\ \A r \in Records : CopyFits(r, C, M, R, s, E)

AwayFrom(s, r) == \A k \in DOMAIN s : s[k].record # r
AlertFits(a, R, s, E) ==
    a # None =>
        /\ a.record \in Records /\ R[a.record] # None
        /\ RecordOK(a.record, a.copy, E) /\ a.behind \in BOOLEAN
        /\ \E day \in DaysOf(a.copy) : day.id = a.day /\ a.photo \in {p.id : p \in PhotosOf(day)}
        /\ ~a.behind => a.copy = R[a.record] /\ AwayFrom(s, a.record)

\* All but the draft.
RecordsFit ==
    /\ StoredFits(records, emptied) /\ SavesAreNew(saves, records)
    /\ PageFits(page, cache, missed, records, writes, emptied)
    /\ AlertFits(alert, records, writes, emptied)
    /\ QueueFits(writes, records, emptied)
    /\ refused \subseteq {"not found"}

LEMMA RecordsParts == RecordsIInv <=> DraftIInv /\ RecordsFit
  <1>1. ASSUME DraftIInv
        PROVE  \A s \in saves : s.record \in Records
    BY <1>1 DEF DraftIInv, SavesOK
  <1>2. DraftIInv => ((\A s \in saves : s.record \notin Stored) <=> SavesAreNew(saves, records))
    BY <1>1 DEF SavesAreNew, Stored
  <1>3. WritesOK <=> QueueFits(writes, records, emptied)
    BY DEF WritesOK, QueueFits, WriteFits, Overlaps
  <1>4. PageShows /\ CopiesOK <=> PageFits(page, cache, missed, records, writes, emptied)
    BY DEF PageShows, CopiesOK, PageFits, PageShowsIn, CopyFits, IsTable, Settled, SettledIn
  <1>5. AlertAsks <=> AlertFits(alert, records, writes, emptied)
    BY DEF AlertAsks, AlertFits, Overlapping, AwayFrom
  <1>6. (IsFiniteSet(Stored) /\ \A r \in Stored : RecordOK(r, records[r], emptied)) <=>
        StoredFits(records, emptied)
    BY DEF StoredFits, StoredIn, Stored
  <1>7. QED
    BY <1>2, <1>3, <1>4, <1>5, <1>6 DEF RecordsIInv, RecordsFit

LEMMA NoRecord ==
  ASSUME NEW r, NEW E
  PROVE  RecordOK(r, <<>>, E)
  <1>1. <<>> \in Seq(StoredDays(r)) /\ DOMAIN <<>> = {}
    OBVIOUS
  <1>2. DaysOf(<<>>) = {}
    BY <1>1 DEF DaysOf, Range
  <1>3. QED
    BY <1>1, <1>2 DEF RecordOK, DaysFit

(***************************************************************************)
(* A change keeps the rest of its copy.                                    *)
(***************************************************************************)
LEMMA SameNotes ==
  ASSUME NEW t, NEW days, NotesKept(t, days)
  PROVE  {<<day.id, day.note>> : day \in {x \in DaysOf(t) : x.note # ""}} =
         {<<day.id, day.note>> : day \in {x \in DaysOf(days) : x.note # ""}}
  <1> DEFINE Noted(D) == {<<day.id, day.note>> : day \in {x \in DaysOf(D) : x.note # ""}}
  <1>1. ASSUME NEW D, NEW E, NotesKept(D, E)
        PROVE  Noted(D) \subseteq Noted(E)
    <2> SUFFICES ASSUME NEW y \in Noted(D)
                 PROVE  y \in Noted(E)
      OBVIOUS
    <2>1. PICK d \in DaysOf(D) : d.note # "" /\ y = <<d.id, d.note>>
      OBVIOUS
    <2>2. PICK e \in DaysOf(E) : e.id = d.id /\ e.note = d.note
      <3>1. (\E e \in DaysOf(D) : e.id = d.id /\ e.note = d.note) <=>
            (\E e \in DaysOf(E) : e.id = d.id /\ e.note = d.note)
        BY <1>1, <2>1 DEF NotesKept
      <3>2. QED
        BY <3>1
    <2>3. QED
      BY <2>1, <2>2
  <1>2. NotesKept(days, t)
    BY DEF NotesKept
  <1>3. QED
    BY <1>1, <1>2

LEMMA PlaceKeeps ==
  ASSUME NEW w, w.op = "place", KeptByPlace(w.days, w.copy, w.of)
  PROVE  KeepsTheRest(w)
  <1>1. AllPhotos(w.days) = AllPhotos(w.copy)
    BY DEF KeptByPlace
  <1>2. {v \in AllVisits(w.days) : w.of \notin {v.id, v.photo}} =
        {v \in AllVisits(w.copy) : w.of \notin {v.id, v.photo}}
    BY DEF KeptByPlace
  <1>3. NotesKept(w.days, w.copy)
    BY DEF KeptByPlace, NotesKept
  <1>4. {<<day.id, day.note>> : day \in {x \in DaysOf(w.days) : x.note # ""}} =
        {<<day.id, day.note>> : day \in {x \in DaysOf(w.copy) : x.note # ""}}
    BY <1>3, SameNotes
  <1>5. QED
    BY <1>1, <1>2, <1>4 DEF KeepsTheRest

LEMMA PhotoKeeps ==
  ASSUME NEW w, w.op = "photo", KeptByDelete(w.days, w.copy, w.of)
  PROVE  KeepsTheRest(w)
  <1>1. AllPhotos(w.days) = {p \in AllPhotos(w.copy) : p.id # w.of}
    BY DEF KeptByDelete
  <1>2. AllVisits(w.days) = {v \in AllVisits(w.copy) : w.of \notin {v.id, v.photo}}
    BY DEF KeptByDelete
  <1>3. NotesKept(w.days, w.copy)
    BY DEF KeptByDelete
  <1>4. {<<day.id, day.note>> : day \in {x \in DaysOf(w.days) : x.note # ""}} =
        {<<day.id, day.note>> : day \in {x \in DaysOf(w.copy) : x.note # ""}}
    BY <1>3, SameNotes
  <1>5. QED
    BY <1>1, <1>2, <1>4 DEF KeepsTheRest

LEMMA DeletedPhoto ==
  ASSUME NEW r, NEW days, NEW E, RecordOK(r, days, E), NEW i, NEW x,
         \E day \in DaysOf(days) : day.id = i /\ x \in {p.id : p \in PhotosOf(day)}
  PROVE  LET t == removeRecordPhoto(days, i, x)
         IN  /\ RecordOK(r, t, E) /\ KeptByDelete(t, days, x)
             /\ t = <<>> => AllPhotos(days) = {p \in AllPhotos(days) : p.id = x}
  <1>1. PICK day \in DaysOf(days) : day.id = i /\ x \in {p.id : p \in PhotosOf(day)}
    OBVIOUS
  <1>2. PICK q \in PhotosOf(day) : q.id = x
    BY <1>1
  <1>3. PICK t : t = removeRecordPhoto(days, day.id, q.id)
    OBVIOUS
  <1>4. RecordOK(r, t, E) /\ KeptByDelete(t, days, q.id)
    BY <1>3, RemovedPhoto
  <1>6. t = <<>> => AllPhotos(days) = {p \in AllPhotos(days) : p.id = x}
    BY <1>2, <1>4 DEF KeptByDelete
  <1>7. QED
    BY <1>1, <1>2, <1>3, <1>4, <1>6

(***************************************************************************)
(* The queue: what each kind of step makes of it.                          *)
(***************************************************************************)
SameChange(w, v) ==
    /\ v.record = w.record /\ v.op = w.op /\ v.of = w.of /\ v.days = w.days /\ v.copy = w.copy
    /\ v.behind = w.behind

LEMMA FitsAgain ==
  ASSUME NEW w, NEW v, NEW R, NEW Q, NEW E, NEW F, WriteFits(w, R, E), SameChange(w, v), E \subseteq F,
         Q[w.record] # None, ~v.done => ~w.done, ~v.behind /\ ~v.done => Q[w.record] = R[w.record]
  PROVE  WriteFits(v, Q, F)
  <1>1. KeepsTheRest(v)
    BY DEF KeepsTheRest, SameChange, WriteFits
  <1>2. RecordOK(w.record, w.days, F)
    BY Cleared DEF WriteFits
  <1>3. QED
    BY <1>1, <1>2 DEF WriteFits, SameChange

LEMMA LeftFits ==
  ASSUME NEW s, IsQueue(s), NEW R, NEW E, QueueFits(s, R, E)
  PROVE  QueueFits(UnattendedSeq(s), R, E)
  <1>1. PICK t : t = UnattendedSeq(s)
    OBVIOUS
  <1>2. /\ IsQueue(t) /\ Len(t) = Len(s)
        /\ \A k \in 1..Len(s) :
              /\ t[k].left /\ t[k].record = s[k].record /\ t[k].op = s[k].op /\ t[k].of = s[k].of
              /\ t[k].days = s[k].days /\ t[k].copy = s[k].copy
              /\ t[k].behind = s[k].behind /\ t[k].done = s[k].done
    BY <1>1, UnattendedQueue
  <1>3. Len(s) \in Nat /\ DOMAIN s = 1..Len(s) /\ DOMAIN t = 1..Len(s)
    BY <1>2, QueueIndexed
  <1>4. ASSUME NEW k \in 1..Len(s)
        PROVE  WriteFits(t[k], R, E)
    <2>1. WriteFits(s[k], R, E)
      BY <1>3 DEF QueueFits
    <2>2. SameChange(s[k], t[k]) /\ t[k].done = s[k].done
      BY <1>2 DEF SameChange
    <2>3. R[s[k].record] # None
      BY <2>1 DEF WriteFits
    <2>4. QED
      BY <2>1, <2>2, <2>3, FitsAgain
  <1>5. Overlaps(t)
    <2>1. \A k \in 1..Len(s) : 1..(k - 1) \subseteq 1..Len(s)
      BY <1>3
    <2>2. QED
      BY <1>2, <1>3, <2>1 DEF Overlaps, QueueFits
  <1>6. QED
    BY <1>1, <1>3, <1>4, <1>5 DEF QueueFits

LEMMA RemovedFits ==
  ASSUME NEW s, IsQueue(s), NEW R, NEW E, QueueFits(s, R, E), NEW k \in DOMAIN s
  PROVE  QueueFits(RemoveAt(s, k), R, E)
  <1>1. PICK t : t = RemoveAt(s, k)
    OBVIOUS
  <1>2. PICK n \in Nat : n = Len(s)
    BY QueueIndexed
  <1>3. DOMAIN s = 1..n /\ k \in 1..n
    BY <1>2, QueueIndexed
  <1>4. /\ IsQueue(t) /\ Len(t) = n - 1
        /\ \A j \in 1..Len(t) : t[j] = s[IF j < k THEN j ELSE j + 1]
                                /\ (IF j < k THEN j ELSE j + 1) \in 1..n
    BY <1>1, <1>2, ShortenedQueue
  <1>5. DOMAIN t = 1..(n - 1)
    BY <1>4, QueueIndexed
  <1>6. \A j \in 1..(n - 1) : WriteFits(t[j], R, E)
    BY <1>3, <1>4 DEF QueueFits
  <1>7. ASSUME NEW i \in 1..(n - 1), ~t[i].behind, NEW j \in 1..(i - 1)
        PROVE  t[j].record # t[i].record
    <2>1. PICK a \in 1..n : a = IF i < k THEN i ELSE i + 1
      BY <1>4
    <2>2. PICK b \in 1..n : b = IF j < k THEN j ELSE j + 1
      BY <1>4
    <2>3. t[i] = s[a] /\ t[j] = s[b]
      BY <1>4, <2>1, <2>2
    <2>4. b \in 1..(a - 1)
      BY <1>3, <2>1, <2>2
    <2>5. QED
      BY <1>3, <1>7, <2>3, <2>4 DEF QueueFits, Overlaps
  <1>8. Overlaps(t)
    BY <1>5, <1>7 DEF Overlaps
  <1>9. QED
    BY <1>1, <1>5, <1>6, <1>8 DEF QueueFits

LEMMA AppendedFits ==
  ASSUME NEW s, IsQueue(s), NEW R, NEW E, QueueFits(s, R, E), NEW w, IsWrite(w), WriteFits(w, R, E),
         ~w.behind => \A k \in DOMAIN s : s[k].record # w.record
  PROVE  QueueFits(Append(s, w), R, E)
  <1>1. PICK t : t = Append(s, w)
    OBVIOUS
  <1>2. PICK n \in Nat : n = Len(s)
    BY QueueIndexed
  <1>3. DOMAIN s = 1..n
    BY <1>2, QueueIndexed
  <1>4. /\ IsQueue(t) /\ Len(t) = n + 1 /\ t[n + 1] = w /\ \A k \in 1..n : t[k] = s[k]
    BY <1>1, <1>2, AppendedQueue
  <1>5. DOMAIN t = 1..(n + 1)
    BY <1>4, QueueIndexed
  <1>6. \A j \in 1..(n + 1) : WriteFits(t[j], R, E)
    BY <1>3, <1>4 DEF QueueFits
  <1>7. ASSUME NEW i \in 1..(n + 1), ~t[i].behind, NEW j \in 1..(i - 1)
        PROVE  t[j].record # t[i].record
    BY <1>3, <1>4, <1>7 DEF QueueFits, Overlaps
  <1>8. Overlaps(t)
    BY <1>5, <1>7 DEF Overlaps
  <1>9. QED
    BY <1>1, <1>5, <1>6, <1>8 DEF QueueFits

\* Other records are stored, other notes cleared.
LEMMA FitsLater ==
  ASSUME NEW s, IsQueue(s), NEW R, NEW E, QueueFits(s, R, E), NEW Q, NEW F, E \subseteq F,
         \A r \in Records : R[r] # None => Q[r] = R[r]
  PROVE  QueueFits(s, Q, F)
  <1>1. ASSUME NEW k \in DOMAIN s
        PROVE  WriteFits(s[k], Q, F)
    <2>1. WriteFits(s[k], R, E)
      BY DEF QueueFits
    <2>2. Q[s[k].record] = R[s[k].record] /\ Q[s[k].record] # None
      BY <2>1 DEF WriteFits
    <2>3. SameChange(s[k], s[k])
      BY DEF SameChange
    <2>4. QED
      BY <2>1, <2>2, <2>3, FitsAgain
  <1>2. QED
    BY <1>1 DEF QueueFits

\* The first change that is not done is made.
LEMMA CommittedFits ==
  ASSUME NEW s, IsQueue(s), NEW R, R = [r \in Records |-> R[r]], NEW E, QueueFits(s, R, E),
         NEW k \in DOMAIN s, \A j \in 1..(k - 1) : s[j].done,
         NEW Q, Q = [R EXCEPT ![s[k].record] = s[k].days], s[k].days # None
  PROVE  QueueFits([s EXCEPT ![k].done = TRUE], Q, E)
  <1>1. PICK t : t = [s EXCEPT ![k].done = TRUE]
    OBVIOUS
  <1>2. PICK n \in Nat : n = Len(s)
    BY QueueIndexed
  <1>3. DOMAIN s = 1..n
    BY <1>2, QueueIndexed
  <1>4. /\ IsQueue(t) /\ Len(t) = n
        /\ \A j \in 1..n :
              /\ t[j].left = s[j].left /\ t[j].record = s[j].record /\ t[j].op = s[j].op
              /\ t[j].of = s[j].of /\ t[j].days = s[j].days /\ t[j].copy = s[j].copy
              /\ t[j].behind = s[j].behind /\ (t[j].done <=> s[j].done \/ j = k)
    <2>1. Commits(t, s, k)
      BY <1>1, CommittedQueue
    <2>2. QED
      BY <1>2, <2>1 DEF Commits
  <1>5. DOMAIN t = 1..n
    BY <1>4, QueueIndexed
  <1>6. /\ \A r \in Records : r # s[k].record => Q[r] = R[r]
        /\ s[k].record \in Records => Q[s[k].record] = s[k].days
    OBVIOUS
  <1>7. ASSUME NEW j \in 1..n
        PROVE  WriteFits(t[j], Q, E)
    <2>1. WriteFits(s[j], R, E) /\ WriteFits(s[k], R, E)
      BY <1>3 DEF QueueFits
    <2>2. SameChange(s[j], t[j]) /\ (~t[j].done => ~s[j].done /\ j # k)
      BY <1>4 DEF SameChange
    <2>3. Q[s[j].record] # None
      BY <1>6, <2>1 DEF WriteFits
    <2>4. ASSUME ~t[j].behind, ~t[j].done, s[j].record = s[k].record
          PROVE  FALSE
      <3>1. ~s[j].behind /\ ~s[j].done /\ j # k
        BY <1>4, <2>2, <2>4
      <3>2. CASE j < k
        <4>1. j \in 1..(k - 1)
          BY <1>3, <3>2
        <4>2. QED
          BY <3>1, <4>1
      <3>3. CASE k < j
        <4>1. k \in 1..(j - 1)
          BY <1>3, <3>3
        <4>2. QED
          BY <1>3, <2>4, <3>1, <4>1 DEF QueueFits, Overlaps
      <3>4. QED
        BY <1>3, <3>1, <3>2, <3>3
    <2>5. ~t[j].behind /\ ~t[j].done => Q[s[j].record] = R[s[j].record]
      BY <1>6, <2>1, <2>4 DEF WriteFits
    <2>6. ~t[j].done => ~s[j].done
      BY <2>2
    <2>7. PICK w : w = s[j]
      OBVIOUS
    <2>8. PICK v : v = t[j]
      OBVIOUS
    <2>9. /\ WriteFits(w, R, E) /\ SameChange(w, v) /\ Q[w.record] # None /\ (~v.done => ~w.done)
          /\ ~v.behind /\ ~v.done => Q[w.record] = R[w.record]
      BY <2>1, <2>2, <2>3, <2>5, <2>6, <2>7, <2>8
    <2>10. WriteFits(v, Q, E)
      BY <2>9, FitsAgain
    <2>11. QED
      BY <2>8, <2>10
  <1>8. Overlaps(t)
    <2>1. \A i \in 1..n : 1..(i - 1) \subseteq 1..n
      OBVIOUS
    <2>2. QED
      BY <1>3, <1>4, <1>5, <2>1 DEF Overlaps, QueueFits
  <1>9. QED
    BY <1>1, <1>5, <1>7, <1>8 DEF QueueFits

(***************************************************************************)
(* What is stored.                                                         *)
(***************************************************************************)
LEMMA NotNone ==
  ASSUME NEW r \in Records, NEW days, NEW E, RecordOK(r, days, E)
  PROVE  days # None
  BY StoredAssumption DEF RecordOK

StoredOver(Q, R, r, days, E) ==
    /\ StoredFits(Q, E) /\ Q[r] = days /\ days # None
    /\ \A q \in Records : q # r => Q[q] = R[q]

LEMMA StoredRecord ==
  ASSUME NEW R, IsTable(R), NEW E, StoredFits(R, E),
         NEW r \in Records, NEW days, RecordOK(r, days, E),
         NEW Q, Q = [R EXCEPT ![r] = days]
  PROVE  StoredOver(Q, R, r, days, E)
  <1>1. days # None
    BY NotNone
  <1>2. Q[r] = days /\ \A q \in Records : q # r => Q[q] = R[q]
    BY DEF IsTable
  <1>3. StoredIn(Q) = StoredIn(R) \cup {r}
    BY <1>1, <1>2 DEF StoredIn
  <1>4. IsFiniteSet(StoredIn(Q))
    <2>1. PICK S : S = StoredIn(R)
      OBVIOUS
    <2>2. IsFiniteSet(S \cup {r})
      BY <2>1, FS_AddElement DEF StoredFits
    <2>3. QED
      BY <1>3, <2>1, <2>2
  <1>5. \A q \in StoredIn(Q) : RecordOK(q, Q[q], E)
    BY <1>2, <1>3 DEF StoredFits
  <1>6. QED
    BY <1>1, <1>2, <1>4, <1>5 DEF StoredFits, StoredOver

LEMMA StoredLater ==
  ASSUME NEW R, NEW E, StoredFits(R, E), NEW F, E \subseteq F
  PROVE  StoredFits(R, F)
  BY Cleared DEF StoredFits

(***************************************************************************)
(* What the page and the question about a photo hold.                      *)
(***************************************************************************)
\* Another page, the same copies.
LEMMA OtherPage ==
  ASSUME NEW p, NEW C, NEW M, NEW R, NEW s, NEW E, PageFits(p, C, M, R, s, E),
         NEW q, q.record \in {None, p.record} \/ (q.record \in Records /\ R[q.record] # None)
  PROVE  PageFits(q, C, M, R, s, E)
  BY DEF PageFits, PageShowsIn

\* Records Q and queue t after records R and queue s, for who holds a copy.
LaterThan(R, s, Q, t) ==
    /\ \A r \in Records : R[r] # None => Q[r] # None
    /\ \A r \in Records : R[r] # None /\ SettledIn(t, r) => SettledIn(s, r) /\ Q[r] = R[r]

LEMMA PageAgain ==
  ASSUME NEW p, NEW C, NEW M, NEW R, NEW s, NEW E, PageFits(p, C, M, R, s, E),
         NEW q, q.record \in {None, p.record}, NEW Q, NEW t, NEW F, E \subseteq F,
         LaterThan(R, s, Q, t)
  PROVE  PageFits(q, C, M, Q, t, F)
  <1>1. PageShowsIn(q, Q)
    BY DEF PageFits, PageShowsIn, LaterThan
  <1>2. ASSUME NEW r \in Records, C[r] # None
        PROVE  CopyFits(r, C, M, Q, t, F)
    <2>1. /\ R[r] # None /\ RecordOK(r, C[r], E)
          /\ r \notin M /\ SettledIn(s, r) => C[r] = R[r]
      BY <1>2 DEF PageFits, CopyFits
    <2>2. PICK days : days = C[r]
      OBVIOUS
    <2>3. RecordOK(r, days, F)
      BY <2>1, <2>2, Cleared
    <2>4. QED
      BY <2>1, <2>2, <2>3 DEF CopyFits, LaterThan
  <1>3. QED
    BY <1>1, <1>2 DEF PageFits, CopyFits

\* The queries are read again: that of the open page p is, and N are then the
\* records of which a change ended unseen.
LEMMA RereadFits ==
  ASSUME NEW p, NEW C, NEW M, NEW R, NEW s, NEW E, PageFits(p, C, M, R, s, E),
         NEW Q, StoredFits(Q, E), \A r \in Records : R[r] # None => Q[r] = R[r],
         NEW t, NEW N,
         \A r \in Records : r \notin N /\ r # p.record /\ SettledIn(t, r) => r \notin M /\ SettledIn(s, r),
         NEW q, q.record # None => q.record \in Records /\ Q[q.record] # None,
         NEW D, D = IF p.record = None THEN C ELSE [C EXCEPT ![p.record] = R[p.record]]
  PROVE  PageFits(q, D, N, Q, t, E)
  <1>1. /\ p.record # None => p.record \in Records /\ R[p.record] # None
        /\ IsTable(C) /\ \A r \in Records : CopyFits(r, C, M, R, s, E)
    BY DEF PageFits, PageShowsIn
  <1>2. IsTable(D)
    BY <1>1 DEF IsTable
  <1>3. ASSUME NEW r \in Records, D[r] # None, r = p.record, p.record # None
        PROVE  CopyFits(r, D, N, Q, t, E)
    <2>1. D[r] = R[r] /\ R[r] # None /\ Q[r] = R[r]
      BY <1>1, <1>3 DEF IsTable
    <2>2. RecordOK(r, Q[r], E)
      BY <2>1 DEF StoredFits, StoredIn
    <2>3. QED
      BY <2>1, <2>2 DEF CopyFits
  <1>4. ASSUME NEW r \in Records, D[r] # None, r # p.record
        PROVE  CopyFits(r, D, N, Q, t, E)
    <2>1. D[r] = C[r]
      BY <1>1, <1>4 DEF IsTable
    <2>2. /\ R[r] # None /\ RecordOK(r, D[r], E)
          /\ r \notin M /\ SettledIn(s, r) => D[r] = R[r]
      BY <1>1, <1>4, <2>1 DEF CopyFits
    <2>3. QED
      BY <1>4, <2>2 DEF CopyFits
  <1>5. \A r \in Records : D[r] = None => CopyFits(r, D, N, Q, t, E)
    BY DEF CopyFits
  <1>6. None \notin Records
    BY PagesAssumption
  <1>7. PageShowsIn(q, Q)
    BY DEF PageShowsIn
  <1>8. \A r \in Records : CopyFits(r, D, N, Q, t, E)
    BY <1>3, <1>4, <1>5, <1>6
  <1>9. QED
    BY <1>2, <1>7, <1>8 DEF PageFits

LEMMA ForgottenFits ==
  ASSUME NEW p, NEW C, NEW M, NEW R, NEW s, NEW E, PageFits(p, C, M, R, s, E),
         NEW x \in Records, NEW D, D = [C EXCEPT ![x] = None]
  PROVE  PageFits(p, D, M \ {x}, R, s, E)
  <1>1. IsTable(D) /\ D[x] = None /\ \A r \in Records : r # x => D[r] = C[r]
    BY DEF PageFits, IsTable
  <1>2. ASSUME NEW r \in Records
        PROVE  CopyFits(r, D, M \ {x}, R, s, E)
    <2>1. CopyFits(r, C, M, R, s, E)
      BY DEF PageFits
    <2>2. CASE r = x
      BY <1>1, <2>2 DEF CopyFits
    <2>3. CASE r # x
      BY <1>1, <2>1, <2>3 DEF CopyFits
    <2>4. QED
      BY <2>2, <2>3
  <1>3. QED
    BY <1>1, <1>2 DEF PageFits

LEMMA AlertAgain ==
  ASSUME NEW a, NEW R, NEW s, NEW E, AlertFits(a, R, s, E),
         NEW Q, NEW t, NEW F, E \subseteq F,
         \A r \in Records : R[r] # None => Q[r] # None,
         \A r \in Records : R[r] # None /\ AwayFrom(s, r) => AwayFrom(t, r) /\ Q[r] = R[r]
  PROVE  AlertFits(a, Q, t, F)
  <1> SUFFICES ASSUME a # None
               PROVE  AlertFits(a, Q, t, F)
    BY DEF AlertFits
  <1>1. /\ a.record \in Records /\ R[a.record] # None
        /\ RecordOK(a.record, a.copy, E) /\ a.behind \in BOOLEAN
        /\ \E day \in DaysOf(a.copy) : day.id = a.day /\ a.photo \in {p.id : p \in PhotosOf(day)}
        /\ ~a.behind => a.copy = R[a.record] /\ AwayFrom(s, a.record)
    BY DEF AlertFits
  <1>2. RecordOK(a.record, a.copy, F)
    BY <1>1, Cleared
  <1>3. QED
    BY <1>1, <1>2 DEF AlertFits

LEMMA SettledQueue ==
  ASSUME NEW s, IsQueue(s), NEW r
  PROVE  /\ SettledIn(UnattendedSeq(s), r) <=> SettledIn(s, r)
         /\ AwayFrom(UnattendedSeq(s), r) <=> AwayFrom(s, r)
         /\ \A w : ~w.done => (SettledIn(Append(s, w), r) => SettledIn(s, r))
         /\ \A k \in DOMAIN s :
               /\ ~s[k].done \/ s[k].record # r => (SettledIn(RemoveAt(s, k), r) => SettledIn(s, r))
               /\ AwayFrom(s, r) => AwayFrom(RemoveAt(s, k), r)
               /\ SettledIn([s EXCEPT ![k].done = TRUE], r) => SettledIn(s, r) /\ s[k].record # r
               /\ AwayFrom(s, r) => AwayFrom([s EXCEPT ![k].done = TRUE], r) /\ s[k].record # r
  <1>1. PICK n \in Nat : n = Len(s)
    BY QueueIndexed
  <1>2. DOMAIN s = 1..n
    BY <1>1, QueueIndexed
  <1>3. /\ SettledIn(UnattendedSeq(s), r) <=> SettledIn(s, r)
        /\ AwayFrom(UnattendedSeq(s), r) <=> AwayFrom(s, r)
    <2>1. PICK t : t = UnattendedSeq(s)
      OBVIOUS
    <2>2. IsQueue(t) /\ Len(t) = n /\ \A k \in 1..n : t[k].record = s[k].record /\ t[k].done = s[k].done
      BY <1>1, <2>1, UnattendedQueue
    <2>3. DOMAIN t = 1..n
      BY <2>2, QueueIndexed
    <2>4. QED
      BY <1>2, <2>1, <2>2, <2>3 DEF SettledIn, AwayFrom
  <1>4. ASSUME NEW w, ~w.done, SettledIn(Append(s, w), r)
        PROVE  SettledIn(s, r)
    <2>1. s \in Seq(Range(s))
      BY DEF IsQueue
    <2>2. PICK t : t = Append(s, w)
      OBVIOUS
    <2>3. DOMAIN t = 1..(n + 1) /\ \A k \in 1..n : t[k] = s[k]
      <3>1. PICK T : T = Range(s)
        OBVIOUS
      <3>2. s \in Seq(T)
        BY <2>1, <3>1
      <3>3. QED
        BY <1>1, <1>2, <2>2, <3>2, AppendProperties, LenProperties
    <2>4. QED
      BY <1>2, <1>4, <2>2, <2>3 DEF SettledIn
  <1>5. ASSUME NEW k \in DOMAIN s
        PROVE  /\ ~s[k].done \/ s[k].record # r => (SettledIn(RemoveAt(s, k), r) => SettledIn(s, r))
               /\ AwayFrom(s, r) => AwayFrom(RemoveAt(s, k), r)
    <2>1. PICK t : t = RemoveAt(s, k)
      OBVIOUS
    <2>2. /\ IsQueue(t) /\ Len(t) = n - 1
          /\ \A j \in 1..Len(t) : t[j] = s[IF j < k THEN j ELSE j + 1]
                                  /\ (IF j < k THEN j ELSE j + 1) \in 1..n
      BY <1>1, <2>1, ShortenedQueue
    <2>3. DOMAIN t = 1..(n - 1)
      BY <2>2, QueueIndexed
    <2>4. AwayFrom(s, r) => AwayFrom(t, r)
      BY <1>2, <2>2, <2>3 DEF AwayFrom
    <2>5. ASSUME ~s[k].done \/ s[k].record # r, SettledIn(t, r), NEW j \in 1..n, s[j].record = r
          PROVE  ~s[j].done
      <3>1. CASE j = k
        BY <2>5, <3>1
      <3>2. CASE j < k
        <4>1. j \in 1..(n - 1) /\ t[j] = s[j]
          BY <1>2, <2>2, <3>2
        <4>2. QED
          BY <2>3, <2>5, <4>1 DEF SettledIn
      <3>3. CASE j > k
        <4>1. j - 1 \in 1..(n - 1) /\ ~(j - 1 < k) /\ (j - 1) + 1 = j
          BY <1>2, <3>3
        <4>2. t[j - 1] = s[j]
          BY <2>2, <4>1
        <4>3. QED
          BY <2>3, <2>5, <4>1, <4>2 DEF SettledIn
      <3>4. QED
        BY <1>2, <3>1, <3>2, <3>3
    <2>6. QED
      BY <1>2, <2>1, <2>4, <2>5 DEF SettledIn
  <1>6. ASSUME NEW k \in DOMAIN s
        PROVE  /\ SettledIn([s EXCEPT ![k].done = TRUE], r) => SettledIn(s, r) /\ s[k].record # r
               /\ AwayFrom(s, r) => AwayFrom([s EXCEPT ![k].done = TRUE], r) /\ s[k].record # r
    <2>1. PICK t : t = [s EXCEPT ![k].done = TRUE]
      OBVIOUS
    <2>2. /\ IsQueue(t) /\ Len(t) = n
          /\ \A j \in 1..n : t[j].record = s[j].record /\ (t[j].done <=> s[j].done \/ j = k)
      <3>1. Commits(t, s, k)
        BY <2>1, CommittedQueue
      <3>2. QED
        BY <1>1, <3>1 DEF Commits
    <2>3. DOMAIN t = 1..n
      BY <2>2, QueueIndexed
    <2>4. QED
      BY <1>2, <2>1, <2>2, <2>3 DEF SettledIn, AwayFrom
  <1>7. QED
    BY <1>3, <1>4, <1>5, <1>6

(***************************************************************************)
(* The steps.                                                              *)
(***************************************************************************)
LEMMA RecordsFacts ==
  ASSUME RecordsIInv
  PROVE  /\ DraftIInv /\ RecordsFit /\ IsQueue(writes) /\ IsPage(page)
         /\ records = [r \in Records |-> records[r]]
         /\ StoredFits(records, emptied) /\ SavesAreNew(saves, records)
         /\ PageFits(page, cache, missed, records, writes, emptied)
         /\ AlertFits(alert, records, writes, emptied)
         /\ QueueFits(writes, records, emptied)
         /\ refused \subseteq {"not found"}
  <1>1. DraftIInv /\ RecordsFit
    BY RecordsParts
  <1>2. IsQueue(writes) /\ IsPage(page)
    BY <1>1, Queue, DraftFits DEF DraftIInv
  <1>3. records = [r \in Records |-> records[r]]
    BY <1>1 DEF DraftIInv
  <1>4. QED
    BY <1>1, <1>2, <1>3 DEF RecordsFit

\* A step that changes no record.
LEMMA SteadyStep ==
  ASSUME RecordsIInv, UNCHANGED <<records, emptied, refused>>,
         writes' \in {writes, UnattendedSeq(writes)}, alert' \in {alert, None},
         SavesAreNew(saves', records), PageFits(page', cache', missed', records, writes, emptied)
  PROVE  RecordsFit'
  <1>1. /\ IsQueue(writes) /\ StoredFits(records, emptied)
        /\ AlertFits(alert, records, writes, emptied) /\ QueueFits(writes, records, emptied)
        /\ refused \subseteq {"not found"}
    BY RecordsFacts
  <1>2. PICK s : s = writes'
    OBVIOUS
  <1>3. QueueFits(s, records, emptied)
    BY <1>1, <1>2, LeftFits
  <1>4. ASSUME NEW r
        PROVE  (SettledIn(s, r) <=> SettledIn(writes, r)) /\ (AwayFrom(s, r) <=> AwayFrom(writes, r))
    <2>1. CASE s = writes
      BY <2>1
    <2>2. CASE s = UnattendedSeq(writes)
      BY <1>1, <2>2, SettledQueue
    <2>3. QED
      BY <1>2, <2>1, <2>2
  <1>5. PageFits(page', cache', missed', records, s, emptied)
    BY <1>4 DEF PageFits, CopyFits
  <1>6. PICK a : a = alert'
    OBVIOUS
  <1>7. AlertFits(a, records, s, emptied)
    BY <1>1, <1>4, <1>6 DEF AlertFits
  <1>8. QED
    BY <1>1, <1>2, <1>3, <1>5, <1>6, <1>7 DEF RecordsFit

LEMMA RecordOfNew ==
  ASSUME NEW at, NEW r, NEW v
  PROVE  NewPage(at, r, v).record = r
  BY DEF NewPage

LEMMA RecordBelow ==
  ASSUME NEW p, p.at \in Pages
  PROVE  Below(p).record \in {None, p.record}
  BY DEF Below, NewPage, Home, Pages

LEMMA SavesNewer ==
  ASSUME NEW S, NEW R, SavesAreNew(S, R), NEW T, \A t \in T : \E s \in S : s.record = t.record
  PROVE  SavesAreNew(T, R)
  BY DEF SavesAreNew

LEMMA LeftSaves ==
  ASSUME NEW S, NEW t \in Unattended(S), \A s \in S : IsSave(s)
  PROVE  \E s \in S : s.record = t.record
  <1>1. PICK s \in S : t = [s EXCEPT !.left = TRUE]
    BY DEF Unattended
  <1>2. t.record = s.record
    BY <1>1, LeftSave
  <1>3. QED
    BY <1>2

LEMMA DraftingSteps ==
  ASSUME Drafting, IsPage(page)
  PROVE  /\ UNCHANGED <<records, cache, missed, refused, writes, alert, emptied>>
         /\ page'.record \in {None, page.record}
         /\ saves' = saves \/ \E s : saves' = saves \cup {s} /\ records[s.record] = None
  <1> USE DEF stored, changing
  <1>1. (StartRecord \/ OpenCompose \/ ConfirmationAsked \/ PickerOpened) =>
           /\ UNCHANGED <<records, cache, missed, refused, writes, alert, emptied, saves>>
           /\ page'.record \in {None, page.record}
    BY RecordOfNew DEF StartRecord, OpenCompose, ConfirmationAsked, PickerOpened, ArriveAt
  <1>2. \A p : PhotoRemoved(p) \/ OpenInfo(p) =>
           /\ UNCHANGED <<records, cache, missed, refused, writes, alert, emptied, saves>>
           /\ page'.record \in {None, page.record}
    BY RecordOfNew DEF PhotoRemoved, OpenInfo, ArriveAt
  <1>3. \A d : GoToPlaces(d) \/ DateChosen(d) \/ PlaceChosen(d) =>
           /\ UNCHANGED <<records, cache, missed, refused, writes, alert, emptied, saves>>
           /\ page'.record \in {None, page.record}
    BY RecordOfNew DEF GoToPlaces, DateChosen, PlaceChosen, ArriveAt
  <1>4. \A m : ModeChosen(m) =>
           /\ UNCHANGED <<records, cache, missed, refused, writes, alert, emptied, saves>>
           /\ page'.record = page.record
    BY DEF ModeChosen, IsPage
  <1>5. ASSUME NEW r, NEW notes, SaveSubmitted(r, notes)
        PROVE  /\ UNCHANGED <<records, cache, missed, refused, writes, alert, emptied, page>>
               /\ \E s : saves' = saves \cup {s} /\ records[s.record] = None
    <2> DEFINE s == [record |-> r, photos |-> DraftPhotos(draft), notes |-> notes,
                     left |-> FALSE, picking |-> picker # None]
    <2>1. s.record = r
      OBVIOUS
    <2>2. saves' = saves \cup {s} /\ records[r] = None
      BY <1>5 DEF SaveSubmitted
    <2>3. UNCHANGED <<records, cache, missed, refused, writes, alert, emptied, page>>
      BY <1>5 DEF SaveSubmitted
    <2> HIDE DEF s
    <2>4. QED
      BY <2>1, <2>2, <2>3
  <1>6. CASE StartRecord \/ OpenCompose \/ ConfirmationAsked \/ PickerOpened
    BY <1>1, <1>6
  <1>7. CASE \E p \in Photos : PhotoRemoved(p) \/ OpenInfo(p)
    BY <1>2, <1>7
  <1>8. CASE \E d : GoToPlaces(d) \/ DateChosen(d) \/ PlaceChosen(d)
    BY <1>3, <1>8
  <1>9. CASE \E m : ModeChosen(m)
    BY <1>4, <1>9
  <1>10. CASE \E r, notes : SaveSubmitted(r, notes)
    BY <1>5, <1>10
  <1>11. QED
    BY <1>6, <1>7, <1>8, <1>9, <1>10 DEF Drafting

LEMMA RecordsDrafting ==
  ASSUME RecordsIInv, Drafting
  PROVE  RecordsFit'
  <1>1. /\ IsPage(page) /\ SavesAreNew(saves, records)
        /\ PageFits(page, cache, missed, records, writes, emptied)
    BY RecordsFacts
  <1>2. /\ UNCHANGED <<records, cache, missed, refused, writes, alert, emptied>>
        /\ page'.record \in {None, page.record}
        /\ saves' = saves \/ \E s : saves' = saves \cup {s} /\ records[s.record] = None
    BY <1>1, DraftingSteps
  <1>3. SavesAreNew(saves', records)
    BY <1>1, <1>2 DEF SavesAreNew
  <1>4. PICK q : q = page'
    OBVIOUS
  <1>5. PageFits(q, cache, missed, records, writes, emptied)
    BY <1>1, <1>2, <1>4 DEF PageFits, PageShowsIn
  <1>6. QED
    BY <1>2, <1>3, <1>4, <1>5, SteadyStep

\* A change that the user asks for.
LEMMA RecordsSubmitted ==
  ASSUME RecordsIInv, NEW w, IsWrite(w), ~w.done, Submitted(w), page'.record = page.record,
         emptied \subseteq emptied', WriteFits(w, records, emptied'),
         ~w.behind => AwayFrom(writes, w.record), alert' = None
  PROVE  RecordsFit'
  <1>1. /\ IsQueue(writes) /\ StoredFits(records, emptied) /\ SavesAreNew(saves, records)
        /\ PageFits(page, cache, missed, records, writes, emptied)
        /\ QueueFits(writes, records, emptied)
        /\ refused \subseteq {"not found"}
    BY RecordsFacts
  <1>2. /\ writes' = Append(writes, w)
        /\ UNCHANGED <<records, cache, missed, refused, saves>>
    BY DEF Submitted, stored
  <1>3. PICK F : F = emptied'
    OBVIOUS
  <1>4. StoredFits(records, F)
    BY <1>1, <1>3, StoredLater
  <1>5. QueueFits(writes, records, F)
    BY <1>1, <1>3, FitsLater
  <1>6. QueueFits(Append(writes, w), records, F)
    BY <1>1, <1>3, <1>5, AppendedFits DEF AwayFrom
  <1>7. PICK q : q = page'
    OBVIOUS
  <1>8. PICK t : t = Append(writes, w)
    OBVIOUS
  <1>9. \A r : SettledIn(t, r) => SettledIn(writes, r)
    BY <1>1, <1>8, SettledQueue
  <1>10. PageFits(q, cache, missed, records, t, F)
    <2>1. LaterThan(records, writes, records, t)
      BY <1>9 DEF LaterThan
    <2>2. q.record \in {None, page.record} /\ emptied \subseteq F
      BY <1>3, <1>7
    <2>3. PICK p : p = page
      OBVIOUS
    <2>4. PageFits(p, cache, missed, records, writes, emptied) /\ q.record \in {None, p.record}
      BY <1>1, <2>2, <2>3
    <2>5. QED
      BY <2>1, <2>2, <2>4, PageAgain
  <1>11. AlertFits(None, records, t, F)
    BY DEF AlertFits
  <1>12. QED
    BY <1>1, <1>2, <1>3, <1>4, <1>6, <1>7, <1>8, <1>10, <1>11 DEF RecordsFit

\* The copy that a page has of its record.
LEMMA CopyShown ==
  ASSUME RecordsIInv, Shown
  PROVE  /\ page.record \in Records /\ records[page.record] # None
         /\ RecordOK(page.record, localRecord, emptied)
         /\ ~MayBeBehind(page.record) => localRecord = records[page.record] /\ AwayFrom(writes, page.record)
  <1>1. PageFits(page, cache, missed, records, writes, emptied) /\ page.record # None
    BY RecordsFacts DEF Shown
  <1>2. ~MayBeBehind(page.record) => AwayFrom(writes, page.record) /\ page.record \notin missed
    BY DEF MayBeBehind, Overlapping, AwayFrom
  <1>3. AwayFrom(writes, page.record) => SettledIn(writes, page.record)
    BY DEF AwayFrom, SettledIn
  <1>4. page.record \in Records /\ records[page.record] # None /\ cache[page.record] # None
    BY <1>1 DEF PageFits, PageShowsIn, Shown, localRecord
  <1>5. CopyFits(page.record, cache, missed, records, writes, emptied)
    BY <1>1, <1>4 DEF PageFits
  <1>6. QED
    BY <1>2, <1>3, <1>4, <1>5 DEF CopyFits, localRecord

\* The change that a page asks for, and what is known of it.
AskedWrite(op, of, days) == Write(page.record, op, of, days, localRecord, MayBeBehind(page.record))
IsAsked(w, op, of, days, F) ==
    /\ IsWrite(w) /\ ~w.done /\ (~w.behind => AwayFrom(writes, w.record))
    /\ w.op = op /\ w.of = of /\ w.days = days /\ w.copy = localRecord
    /\ KeepsTheRest(w) => WriteFits(w, records, F)

LEMMA AskedFor ==
  ASSUME RecordsIInv, Shown, NEW op \in Ops, NEW of, NEW days, NEW F, emptied \subseteq F,
         RecordOK(page.record, days, F), op # "record" => days # <<>>
  PROVE  IsAsked(AskedWrite(op, of, days), op, of, days, F)
  <1>1. PICK w : w = AskedWrite(op, of, days)
    OBVIOUS
  <1>2. PICK b \in BOOLEAN : b = MayBeBehind(page.record)
    BY DEF MayBeBehind, Overlapping
  <1>3. /\ IsWrite(w) /\ ~w.done
        /\ w.record = page.record /\ w.op = op /\ w.of = of /\ w.days = days /\ w.copy = localRecord
        /\ w.behind = b
    <2>1. w = Write(page.record, op, of, days, localRecord, b)
      BY <1>1, <1>2, Zenon DEF AskedWrite
    <2>2. PICK r : r = page.record
      OBVIOUS
    <2>3. PICK c : c = localRecord
      OBVIOUS
    <2>4. w = Write(r, op, of, days, c, b)
      BY <2>1, <2>2, <2>3, Zenon
    <2>5. NewWrite(w, r, op, of, days, c, b)
      BY <2>4, IsNewWrite
    <2>6. QED
      BY <2>2, <2>3, <2>5 DEF NewWrite
  <1>4. /\ page.record \in Records /\ records[page.record] # None
        /\ ~b => localRecord = records[page.record] /\ AwayFrom(writes, page.record)
    BY <1>2, CopyShown
  <1>5. KeepsTheRest(w) => WriteFits(w, records, F)
    BY <1>3, <1>4 DEF WriteFits
  <1>6. IsAsked(w, op, of, days, F)
    BY <1>3, <1>4, <1>5 DEF IsAsked
  <1>7. QED
    BY <1>1, <1>6

LEMMA EditFits ==
  ASSUME RecordsIInv, alert = None, NEW notes \in [DOMAIN localRecord -> Notes], EditSubmitted(notes)
  PROVE  RecordsFit'
  <1>1. /\ Shown /\ page' = [page EXCEPT !.saving = TRUE] /\ alert' = alert
        /\ Submitted(Write(page.record, "notes", None, WithNotes(localRecord, notes),
                           localRecord, MayBeBehind(page.record)))
        /\ emptied' = emptied \cup
              {localRecord[k].id : k \in {k \in DOMAIN localRecord : localRecord[k].visits = <<>> /\ notes[k] = ""}}
    BY DEF EditSubmitted
  <1>2. PICK F : F = emptied'
    OBVIOUS
  <1>3. /\ emptied \subseteq F
        /\ \A k \in DOMAIN localRecord : localRecord[k].visits = <<>> /\ notes[k] = "" => localRecord[k].id \in F
    BY <1>1, <1>2
  <1>4. RecordOK(page.record, localRecord, emptied)
    BY <1>1, CopyShown
  <1>5. PICK days : days = WithNotes(localRecord, notes)
    OBVIOUS
  <1>6. PICK E : E = emptied
    OBVIOUS
  <1>7. /\ RecordOK(page.record, days, F) /\ Len(days) = Len(localRecord)
        /\ WithNotes(days, [k \in DOMAIN days |-> ""]) = WithNotes(localRecord, [k \in DOMAIN localRecord |-> ""])
    <2>1. NotesCleared(localRecord, notes, F) /\ E \subseteq F
      BY <1>3, <1>6 DEF NotesCleared
    <2>2. PICK copy : copy = localRecord
      OBVIOUS
    <2>3. /\ RecordOK(page.record, copy, E) /\ NotesCleared(copy, notes, F)
          /\ notes \in [DOMAIN copy -> Notes] /\ days = WithNotes(copy, notes)
      BY <1>4, <1>5, <1>6, <2>1, <2>2
    <2>4. RecordOK(page.record, days, F) /\ SameButNotes(days, copy)
      BY <2>1, <2>3, NotedRecord
    <2>5. QED
      BY <2>2, <2>4 DEF SameButNotes
  <1>8. days # <<>>
    <2>1. Len(localRecord) \in Nat /\ localRecord # <<>> /\ DOMAIN localRecord = 1..Len(localRecord)
      BY <1>1, <1>4, RecordList DEF Shown
    <2>2. localRecord \in Seq(StoredDays(page.record))
      BY <1>4 DEF RecordOK
    <2>3. Len(localRecord) # 0
      BY <2>1, <2>2
    <2>4. QED
      BY <1>7, <2>3
  <1>9. PICK w : w = AskedWrite("notes", None, days)
    OBVIOUS
  <1>10. /\ IsWrite(w) /\ ~w.done /\ (~w.behind => AwayFrom(writes, w.record))
         /\ w.op = "notes" /\ w.of = None /\ w.days = days /\ w.copy = localRecord
         /\ KeepsTheRest(w) => WriteFits(w, records, F)
    <2>1. "notes" \in Ops
      BY DEF Ops
    <2>2. IsAsked(w, "notes", None, days, F)
      BY <1>1, <1>3, <1>7, <1>8, <1>9, <2>1, AskedFor
    <2>3. QED
      BY <2>2 DEF IsAsked
  <1>11. KeepsTheRest(w)
    BY <1>7, <1>10 DEF KeepsTheRest
  <1>12. page'.record = page.record
    BY <1>1, RecordsFacts DEF IsPage
  <1>13. Submitted(w)
    BY <1>1, <1>5, <1>9, Zenon DEF AskedWrite
  <1>14. QED
    BY <1>1, <1>2, <1>3, <1>10, <1>11, <1>12, <1>13, RecordsSubmitted

LEMMA DeleteFits ==
  ASSUME RecordsIInv, alert = None, RecordDeleteSubmitted
  PROVE  RecordsFit'
  <1>1. /\ Shown /\ page' = [page EXCEPT !.saving = TRUE] /\ alert' = alert
        /\ Submitted(Write(page.record, "record", None, <<>>, localRecord, MayBeBehind(page.record)))
        /\ emptied' = emptied
    BY DEF RecordDeleteSubmitted
  <1>2. PICK w : w = AskedWrite("record", None, <<>>)
    OBVIOUS
  <1>3. RecordOK(page.record, <<>>, emptied)
    BY NoRecord
  <1>4. /\ IsWrite(w) /\ ~w.done /\ (~w.behind => AwayFrom(writes, w.record))
        /\ w.op = "record" /\ w.of = None
        /\ KeepsTheRest(w) => WriteFits(w, records, emptied)
    <2>1. "record" \in Ops /\ emptied \subseteq emptied
      BY DEF Ops
    <2>2. IsAsked(w, "record", None, <<>>, emptied)
      BY <1>1, <1>2, <1>3, <2>1, AskedFor
    <2>3. QED
      BY <2>2 DEF IsAsked
  <1>5. KeepsTheRest(w)
    BY <1>4 DEF KeepsTheRest
  <1>6. page'.record = page.record
    BY <1>1, RecordsFacts DEF IsPage
  <1>7. Submitted(w)
    BY <1>1, <1>2, Zenon DEF AskedWrite
  <1>8. QED
    BY <1>1, <1>4, <1>5, <1>6, <1>7, RecordsSubmitted

LEMMA PlaceFits ==
  ASSUME RecordsIInv, alert = None, NEW date \in DateTexts, NEW place \in OfferedPlaces \cup {None},
         PlaceEditSubmitted(date, place)
  PROVE  RecordsFit'
  <1>1. PICK days : days = buildRecordPlaceUpdate(page.record, localRecord, page.visit, date, place)
    OBVIOUS
  <1>2. /\ Shown /\ page' = [page EXCEPT !.saving = TRUE] /\ alert' = alert /\ emptied' = emptied
        /\ isValidDateOnly(date) /\ VisitDays(localRecord, page.visit) # {}
        /\ Submitted(Write(page.record, "place", page.visit, days, localRecord, MayBeBehind(page.record)))
    BY <1>1 DEF PlaceEditSubmitted
  <1>3. RecordOK(page.record, localRecord, emptied)
    BY <1>2, CopyShown
  <1>4. isDateOnlyString(date)
    BY <1>2, ValidDates
  <1>5. RecordOK(page.record, days, emptied) /\ days # <<>> /\ KeptByPlace(days, localRecord, page.visit)
    BY <1>1, <1>2, <1>3, <1>4, UpdatedRecord
  <1>6. PICK w : w = AskedWrite("place", page.visit, days)
    OBVIOUS
  <1>7. /\ IsWrite(w) /\ ~w.done /\ (~w.behind => AwayFrom(writes, w.record))
        /\ w.op = "place" /\ w.of = page.visit /\ w.days = days /\ w.copy = localRecord
        /\ KeepsTheRest(w) => WriteFits(w, records, emptied)
    <2>1. "place" \in Ops /\ emptied \subseteq emptied
      BY DEF Ops
    <2>2. PICK v : v = page.visit
      OBVIOUS
    <2>3. IsAsked(w, "place", v, days, emptied)
      BY <1>2, <1>5, <1>6, <2>1, <2>2, AskedFor
    <2>4. QED
      BY <2>2, <2>3 DEF IsAsked
  <1>8. KeepsTheRest(w)
    BY <1>5, <1>7, PlaceKeeps
  <1>9. page'.record = page.record
    BY <1>2, RecordsFacts DEF IsPage
  <1>10. Submitted(w)
    BY <1>2, <1>6, Zenon DEF AskedWrite
  <1>11. QED
    BY <1>2, <1>7, <1>8, <1>9, <1>10, RecordsSubmitted

LEMMA AskedFits ==
  ASSUME RecordsIInv, NEW day \in DaysOf(localRecord), NEW photo \in PhotosOf(day), DeleteAsked(day, photo)
  PROVE  RecordsFit'
  <1>1. PICK b \in BOOLEAN : b = MayBeBehind(page.record)
    BY DEF MayBeBehind, Overlapping
  <1>2. PICK a : a = [record |-> page.record, copy |-> localRecord, day |-> day.id, photo |-> photo.id,
                      behind |-> b]
    OBVIOUS
  <1>3. /\ Shown /\ alert' = a
        /\ UNCHANGED <<page, saves, writes, emptied, records, cache, missed, refused>>
    BY <1>1, <1>2 DEF DeleteAsked, stored
  <1>4. /\ a.record = page.record /\ a.copy = localRecord /\ a.day = day.id /\ a.photo = photo.id
        /\ a.behind = b
    BY <1>2
  <1>5. /\ page.record \in Records /\ records[page.record] # None
        /\ RecordOK(page.record, localRecord, emptied)
        /\ ~b => localRecord = records[page.record] /\ AwayFrom(writes, page.record)
    BY <1>1, <1>3, CopyShown
  <1>6. \E d \in DaysOf(localRecord) : d.id = a.day /\ a.photo \in {p.id : p \in PhotosOf(d)}
    BY <1>4
  <1>7. AlertFits(a, records, writes, emptied)
    BY <1>4, <1>5, <1>6 DEF AlertFits
  <1>8. QED
    BY <1>3, <1>7, RecordsFacts DEF RecordsFit

LEMMA RecordsEditing ==
  ASSUME RecordsIInv, alert = None, Editing
  PROVE  RecordsFit'
  <1> USE DEF stored, changing
  <1>1. /\ IsPage(page) /\ IsQueue(writes) /\ SavesAreNew(saves, records)
        /\ StoredFits(records, emptied)
        /\ PageFits(page, cache, missed, records, writes, emptied)
    BY RecordsFacts
  <1>2. CASE OpenEdit
    <2>1. /\ page'.record = page.record
          /\ UNCHANGED <<records, emptied, refused, cache, missed, alert, saves>>
          /\ writes' = UnattendedSeq(writes)
      BY <1>2, RecordOfNew DEF OpenEdit, ArriveAt
    <2>2. PICK q : q = page'
      OBVIOUS
    <2>3. PageFits(q, cache, missed, records, writes, emptied)
      BY <1>1, <2>1, <2>2 DEF PageFits, PageShowsIn
    <2>4. QED
      BY <1>1, <2>1, <2>2, <2>3, SteadyStep
  <1>3. CASE RecordDeleteSubmitted
    BY <1>3, DeleteFits
  <1>4. ASSUME NEW r \in Records, OpenRecord(r)
        PROVE  RecordsFit'
    <2>1. /\ page'.record = r /\ Exists(r)
          /\ UNCHANGED <<records, emptied, refused, cache, missed, writes, alert, saves>>
      BY <1>4, RecordOfNew DEF OpenRecord, ArriveAt
    <2>2. PICK q : q = page'
      OBVIOUS
    <2>3. PageFits(q, cache, missed, records, writes, emptied)
      BY <1>1, <2>1, <2>2 DEF Exists, PageFits, PageShowsIn
    <2>4. QED
      BY <1>1, <2>1, <2>2, <2>3, SteadyStep
  <1>5. ASSUME NEW visit, OpenPlaceEdit(visit)
        PROVE  RecordsFit'
    <2>1. /\ page'.record = page.record
          /\ UNCHANGED <<records, emptied, refused, cache, missed, alert, saves>>
          /\ writes' = UnattendedSeq(writes)
      BY <1>5, RecordOfNew DEF OpenPlaceEdit, ArriveAt
    <2>2. PICK q : q = page'
      OBVIOUS
    <2>3. PageFits(q, cache, missed, records, writes, emptied)
      BY <1>1, <2>1, <2>2 DEF PageFits, PageShowsIn
    <2>4. QED
      BY <1>1, <2>1, <2>2, <2>3, SteadyStep
  <1>6. ASSUME NEW day \in DaysOf(localRecord), NEW photo \in PhotosOf(day), DeleteAsked(day, photo)
        PROVE  RecordsFit'
    BY <1>6, AskedFits
  <1>7. ASSUME NEW notes \in [DOMAIN localRecord -> Notes], EditSubmitted(notes)
        PROVE  RecordsFit'
    BY <1>7, EditFits
  <1>8. ASSUME NEW date \in TypedDates, NEW place \in {None} \cup Searched("keyword") \cup Searched("area"),
               PlaceEditSubmitted(date, place)
        PROVE  RecordsFit'
    <2>1. config \in Configs \cup {None}
      BY RecordsFacts DEF DraftIInv, CoordinatesIInv, DraftTypeOK
    <2>2. place \in OfferedPlaces \cup {None}
      BY <2>1, SearchedPlaces
    <2>3. date \in DateTexts
      BY PagesAssumption
    <2>4. QED
      BY <1>8, <2>2, <2>3, PlaceFits
  <1>9. QED
    BY <1>2, <1>3, <1>4, <1>5, <1>6, <1>7, <1>8 DEF Editing

LEMMA RecordsBack ==
  ASSUME RecordsIInv, Back
  PROVE  RecordsFit'
  <1>1. /\ IsPage(page) /\ SavesAreNew(saves, records) /\ DraftIInv
        /\ PageFits(page, cache, missed, records, writes, emptied)
    BY RecordsFacts
  <1>2. /\ page' = Below(page)
        /\ writes' = UnattendedSeq(writes)
        /\ saves' = IF page.at = "compose" THEN Unattended(saves) ELSE saves
        /\ UNCHANGED <<records, cache, missed, refused, alert, emptied>>
    BY DEF Back, ArriveAt, stored
  <1>3. page'.record \in {None, page.record}
    BY <1>1, <1>2, RecordBelow DEF IsPage
  <1>4. PICK q : q = page'
    OBVIOUS
  <1>6. PageFits(q, cache, missed, records, writes, emptied)
    BY <1>1, <1>3, <1>4 DEF PageFits, PageShowsIn
  <1>7. SavesAreNew(saves', records)
    <2>1. \A s \in saves : IsSave(s)
      BY <1>1, SaveParts DEF DraftIInv
    <2>2. \A t \in saves' : \E s \in saves : s.record = t.record
      BY <1>2, <2>1, LeftSaves
    <2>3. QED
      BY <1>1, <2>2, SavesNewer
  <1>8. QED
    BY <1>2, <1>4, <1>6, <1>7, SteadyStep

\* The repository takes what the pages send.
LEMMA OthersAccept ==
  ASSUME RecordsIInv, NEW r, NEW days, NEW E, RecordOK(r, days, E), days # <<>>
  PROVE  Accepts(Others(r), days)
  <1>1. StoredFits(records, emptied)
    BY RecordsFacts
  <1>2. PICK others : others = Others(r)
    OBVIOUS
  <1>3. \A o \in others : \E q : q # r /\ \E F : RecordOK(q, o, F)
    <2> SUFFICES ASSUME NEW o \in others
                 PROVE  \E q : q # r /\ \E F : RecordOK(q, o, F)
      OBVIOUS
    <2>1. PICK q \in Records \ {r} : Exists(q) /\ o = records[q]
      BY <1>2 DEF Others
    <2>2. q \in StoredIn(records)
      BY <2>1 DEF StoredIn, Exists
    <2>3. RecordOK(q, o, emptied)
      BY <1>1, <2>1, <2>2 DEF StoredFits
    <2>4. QED
      BY <2>1, <2>3
  <1>4. QED
    BY <1>2, <1>3, AcceptedRecord

LEMMA SaveFits ==
  ASSUME RecordsIInv, NEW s \in saves
  PROVE  RecordOK(s.record, SaveRow(s), emptied) /\ SaveRow(s) # <<>> /\ s.record \in Records
         /\ records[s.record] = None /\ Accepts(Others(s.record), SaveRow(s))
  <1>1. IsSave(s)
    BY RecordsFacts, SaveParts DEF DraftIInv
  <1>2. PICK photos : photos = s.photos
    OBVIOUS
  <1>3. PICK notes : notes = s.notes
    OBVIOUS
  <1>4. PICK r \in Records : r = s.record
    BY <1>1 DEF IsSave
  <1>5. photos \in Seq(SavedPhotos) /\ photos # <<>> /\ notes \in [{photos[k].date : k \in DOMAIN photos} -> Notes]
    BY <1>1, <1>2, <1>3 DEF IsSave
  <1>6. PICK days : days = savedDays(r, photos, notes)
    OBVIOUS
  <1>7. RecordOK(r, days, emptied) /\ days # <<>>
    BY <1>5, <1>6, SavedRecord
  <1>8. SaveRow(s) = days
    BY <1>2, <1>3, <1>4, <1>6 DEF SaveRow
  <1>9. Accepts(Others(r), days)
    BY <1>7, OthersAccept
  <1>10. QED
    BY <1>4, <1>7, <1>8, <1>9, RecordsFacts DEF SavesAreNew

LEMMA RecordsStored ==
  ASSUME RecordsIInv, NEW s \in saves, SaveStored(s)
  PROVE  RecordsFit'
  <1>1. /\ IsQueue(writes) /\ SavesAreNew(saves, records) /\ DraftIInv
        /\ records = [r \in Records |-> records[r]]
        /\ StoredFits(records, emptied)
        /\ AlertFits(alert, records, writes, emptied) /\ QueueFits(writes, records, emptied)
        /\ PageFits(page, cache, missed, records, writes, emptied)
        /\ refused \subseteq {"not found"}
    BY RecordsFacts
  <1>2. PICK r \in Records : r = s.record
    BY SaveFits
  <1>3. PICK days : days = SaveRow(s)
    OBVIOUS
  <1>4. RecordOK(r, days, emptied) /\ records[r] = None
    BY <1>2, <1>3, SaveFits
  <1>5. PICK Q : Q = [records EXCEPT ![r] = days]
    OBVIOUS
  <1>6. /\ records' = Q /\ page'.record = r
        /\ cache' = Reread(page.record) /\ missed' = missed \ {page.record}
        /\ saves' = Unattended(saves \ {s}) /\ writes' = UnattendedSeq(writes)
        /\ UNCHANGED <<refused, alert, emptied>>
    BY <1>2, <1>3, <1>5, RecordOfNew DEF SaveStored, ArriveAt
  <1>7. StoredFits(Q, emptied) /\ Q[r] = days /\ days # None /\ \A q \in Records : q # r => Q[q] = records[q]
    <2>1. PICK R : R = records
      OBVIOUS
    <2>2. IsTable(R) /\ StoredFits(R, emptied) /\ Q = [R EXCEPT ![r] = days]
      BY <1>1, <1>5, <2>1 DEF IsTable
    <2>3. StoredOver(Q, R, r, days, emptied)
      BY <1>4, <2>2, StoredRecord
    <2>4. QED
      BY <2>1, <2>3 DEF StoredOver
  <1>8. \A q \in Records : records[q] # None => Q[q] = records[q]
    BY <1>4, <1>7
  <1>9. PICK t : t = UnattendedSeq(writes)
    OBVIOUS
  <1>10. QueueFits(writes, Q, emptied)
    BY <1>1, <1>8, FitsLater
  <1>11. QueueFits(t, Q, emptied)
    BY <1>1, <1>9, <1>10, LeftFits
  <1>12. \A q : (AwayFrom(t, q) <=> AwayFrom(writes, q)) /\ (SettledIn(t, q) <=> SettledIn(writes, q))
    BY <1>1, <1>9, SettledQueue
  <1>13. AlertFits(alert, Q, t, emptied)
    BY <1>1, <1>8, <1>12, AlertAgain
  <1>14. PICK p : p = page'
    OBVIOUS
  <1>15. PICK D : D = cache'
    OBVIOUS
  <1>16. PICK N : N = missed'
    OBVIOUS
  <1>17. PageFits(p, D, N, Q, t, emptied)
    <2>1. D = IF page.record = None THEN cache ELSE [cache EXCEPT ![page.record] = records[page.record]]
      BY <1>6, <1>15 DEF Reread
    <2>2. p.record # None => p.record \in Records /\ Q[p.record] # None
      BY <1>6, <1>7, <1>14
    <2>3. \A q \in Records : q \notin N /\ q # page.record /\ SettledIn(t, q) =>
             q \notin missed /\ SettledIn(writes, q)
      BY <1>6, <1>12, <1>16
    <2>4. PICK o : o = page
      OBVIOUS
    <2>5. D = IF o.record = None THEN cache ELSE [cache EXCEPT ![o.record] = records[o.record]]
      BY <2>1, <2>4
    <2>6. \A q \in Records : q \notin N /\ q # o.record /\ SettledIn(t, q) =>
             q \notin missed /\ SettledIn(writes, q)
      BY <2>3, <2>4
    <2>7. PageFits(o, cache, missed, records, writes, emptied)
      BY <1>1, <2>4
    <2>8. StoredFits(Q, emptied)
      BY <1>7
    <2>9. QED
      BY <1>8, <2>2, <2>5, <2>6, <2>7, <2>8, RereadFits
  <1>18. SavesAreNew(saves', Q)
    <2>1. (\A u \in saves : IsSave(u)) /\ SavesDiffer(saves)
      BY <1>1, SaveParts DEF DraftIInv
    <2>2. ASSUME NEW u \in saves'
          PROVE  Q[u.record] = None
      <3>1. PICK v \in saves \ {s} : v.record = u.record
        BY <1>6, <2>1, LeftSaves
      <3>2. v.record # r
        BY <1>2, <2>1, <3>1 DEF SavesDiffer
      <3>3. v.record \in Records /\ records[v.record] = None
        BY <1>1, <2>1, <3>1 DEF SavesAreNew, IsSave
      <3>4. QED
        BY <1>7, <3>1, <3>2, <3>3
    <2>3. QED
      BY <2>2 DEF SavesAreNew
  <1>19. QED
    BY <1>1, <1>6, <1>7, <1>9, <1>11, <1>13, <1>14, <1>15, <1>16, <1>17, <1>18 DEF RecordsFit

LEMMA RecordsCommitted ==
  ASSUME RecordsIInv, NEW k \in DOMAIN writes, WriteCommits(k)
  PROVE  RecordsFit'
  <1>1. /\ IsQueue(writes) /\ SavesAreNew(saves, records)
        /\ records = [r \in Records |-> records[r]]
        /\ StoredFits(records, emptied) /\ PageFits(page, cache, missed, records, writes, emptied)
        /\ AlertFits(alert, records, writes, emptied) /\ QueueFits(writes, records, emptied)
        /\ refused \subseteq {"not found"}
    BY RecordsFacts
  <1>2. PICK w : w = writes[k]
    OBVIOUS
  <1>3. WriteFits(w, records, emptied)
    BY <1>1, <1>2 DEF QueueFits
  <1>4. PICK r \in Records : r = w.record
    BY <1>3 DEF WriteFits
  <1>5. PICK days : days = w.days
    OBVIOUS
  <1>6. RecordOK(r, days, emptied) /\ records[r] # None
    BY <1>3, <1>4, <1>5 DEF WriteFits
  <1>7. PICK Q : Q = [records EXCEPT ![r] = days]
    OBVIOUS
  <1>8. StoredFits(Q, emptied) /\ Q[r] = days /\ days # None /\ \A q \in Records : q # r => Q[q] = records[q]
    <2>1. PICK R : R = records
      OBVIOUS
    <2>2. IsTable(R) /\ StoredFits(R, emptied) /\ Q = [R EXCEPT ![r] = days]
      BY <1>1, <1>7, <2>1 DEF IsTable
    <2>3. StoredOver(Q, R, r, days, emptied)
      BY <1>6, <2>2, StoredRecord
    <2>4. QED
      BY <2>1, <2>3 DEF StoredOver
  <1>9. PICK t : t = [writes EXCEPT ![k].done = TRUE]
    OBVIOUS
  <1>10. /\ records' = Q /\ writes' = t /\ \A j \in 1..(k - 1) : writes[j].done
         /\ UNCHANGED <<page, saves, cache, missed, refused, alert, emptied>>
    BY <1>2, <1>4, <1>5, <1>7, <1>9 DEF WriteCommits, AtHead
  <1>11. Q = [records EXCEPT ![writes[k].record] = writes[k].days] /\ writes[k].days # None
    BY <1>2, <1>4, <1>5, <1>7, <1>8
  <1>12. QueueFits(t, Q, emptied)
    BY <1>1, <1>9, <1>10, <1>11, CommittedFits
  <1>13. \A q \in Records : records[q] # None => Q[q] # None
    BY <1>8
  <1>14. \A q : /\ SettledIn(t, q) => SettledIn(writes, q) /\ r # q
                /\ AwayFrom(writes, q) => AwayFrom(t, q) /\ r # q
    BY <1>1, <1>2, <1>4, <1>9, SettledQueue
  <1>15. PageFits(page, cache, missed, Q, t, emptied)
    <2>1. LaterThan(records, writes, Q, t)
      BY <1>8, <1>13, <1>14 DEF LaterThan
    <2>2. PICK p : p = page
      OBVIOUS
    <2>3. PageFits(p, cache, missed, records, writes, emptied) /\ p.record \in {None, p.record} /\ emptied \subseteq emptied
      BY <1>1, <2>2
    <2>4. PageFits(p, cache, missed, Q, t, emptied)
      BY <2>1, <2>3, PageAgain
    <2>5. QED
      BY <2>2, <2>4
  <1>16. AlertFits(alert, Q, t, emptied)
    BY <1>1, <1>8, <1>13, <1>14, AlertAgain
  <1>17. SavesAreNew(saves, Q)
    <2>1. \A u \in saves : u.record \in Records
      BY SaveFits
    <2>2. QED
      BY <1>1, <1>6, <1>8, <2>1 DEF SavesAreNew
  <1>18. QED
    BY <1>1, <1>8, <1>10, <1>12, <1>15, <1>16, <1>17 DEF RecordsFit

\* A change that has ended leaves the queue.
LEMMA GoneFits ==
  ASSUME RecordsIInv, NEW k \in DOMAIN writes, NEW t, t = RemoveAt(writes, k)
  PROVE  /\ IsQueue(t) /\ QueueFits(t, records, emptied) /\ AlertFits(alert, records, t, emptied)
         /\ ~writes[k].done => LaterThan(records, writes, records, t)
  <1>1. /\ IsQueue(writes) /\ PageFits(page, cache, missed, records, writes, emptied)
        /\ AlertFits(alert, records, writes, emptied) /\ QueueFits(writes, records, emptied)
    BY RecordsFacts
  <1>2. IsQueue(t)
    BY <1>1, ShortenedQueue
  <1>3. QueueFits(t, records, emptied)
    BY <1>1, RemovedFits
  <1>4. \A q : /\ ~writes[k].done => (SettledIn(t, q) => SettledIn(writes, q))
               /\ AwayFrom(writes, q) => AwayFrom(t, q)
    BY <1>1, SettledQueue
  <1>5. AlertFits(alert, records, t, emptied)
    BY <1>1, <1>4, AlertAgain
  <1>6. ~writes[k].done => LaterThan(records, writes, records, t)
    BY <1>4 DEF LaterThan
  <1>7. QED
    BY <1>2, <1>3, <1>5, <1>6

LEMMA RecordsFailed ==
  ASSUME RecordsIInv, NEW k \in DOMAIN writes, WriteFails(k)
  PROVE  RecordsFit'
  <1>1. /\ IsPage(page) /\ SavesAreNew(saves, records) /\ StoredFits(records, emptied)
        /\ QueueFits(writes, records, emptied) /\ refused \subseteq {"not found"}
    BY RecordsFacts
  <1>2. PICK t : t = RemoveAt(writes, k)
    OBVIOUS
  <1>3. /\ ~writes[k].done /\ writes' = t /\ page' = [page EXCEPT !.saving = @ /\ writes[k].left]
        /\ refused' = IF Possible(writes[k]) THEN refused
                      ELSE refused \cup {IF Exists(writes[k].record) THEN "change" ELSE "not found"}
        /\ UNCHANGED <<saves, records, cache, missed, alert, emptied>>
    BY <1>2 DEF WriteFails, AtHead
  <1>4. PICK q : q = page'
    OBVIOUS
  <1>5. q.record = page.record
    BY <1>1, <1>3, <1>4 DEF IsPage
  <1>6. /\ QueueFits(t, records, emptied) /\ AlertFits(alert, records, t, emptied)
        /\ PageFits(q, cache, missed, records, t, emptied)
    <2>1. /\ QueueFits(t, records, emptied) /\ AlertFits(alert, records, t, emptied)
          /\ LaterThan(records, writes, records, t)
      BY <1>2, <1>3, GoneFits
    <2>2. PageFits(page, cache, missed, records, writes, emptied)
      BY RecordsFacts
    <2>3. q.record \in {None, page.record}
      BY <1>5
    <2>4. QED
      BY <2>1, <2>2, <2>3, PageAgain
  <1>7. refused' \subseteq {"not found"}
    <2>1. CASE ~Possible(writes[k]) /\ Exists(writes[k].record)
      <3>1. PICK w : w = writes[k]
        OBVIOUS
      <3>2. WriteFits(w, records, emptied)
        BY <1>1, <3>1 DEF QueueFits
      <3>3. w.op # "record"
        BY <2>1, <3>1 DEF Possible
      <3>4. Accepts(Others(w.record), w.days)
        BY <3>2, <3>3, OthersAccept DEF WriteFits
      <3>5. QED
        BY <2>1, <3>1, <3>4 DEF Possible
    <2>2. CASE Possible(writes[k]) \/ ~Exists(writes[k].record)
      BY <1>1, <1>3, <2>2
    <2>3. QED
      BY <2>1, <2>2
  <1>8. QED
    BY <1>1, <1>2, <1>3, <1>4, <1>6, <1>7 DEF RecordsFit

LEMMA RecordsSettled ==
  ASSUME RecordsIInv, NEW k \in DOMAIN writes, WriteSettles(k)
  PROVE  RecordsFit'
  <1>1. /\ IsPage(page) /\ SavesAreNew(saves, records) /\ StoredFits(records, emptied) /\ DraftIInv
        /\ PageFits(page, cache, missed, records, writes, emptied) /\ IsQueue(writes)
        /\ QueueFits(writes, records, emptied) /\ refused \subseteq {"not found"}
    BY RecordsFacts
  <1>2. PICK w : w = writes[k]
    OBVIOUS
  <1>3. w.record \in Records /\ records[w.record] # None
    BY <1>1, <1>2 DEF QueueFits, WriteFits
  <1>4. PICK t : t = RemoveAt(writes, k)
    OBVIOUS
  <1>5. IsQueue(t) /\ QueueFits(t, records, emptied) /\ AlertFits(alert, records, t, emptied)
    BY <1>4, GoneFits
  <1>6. /\ page' = IF w.op = "photo" THEN page ELSE NextPage(w)
        /\ cache' = Reread(page.record) /\ missed' = (missed \cup {w.record}) \ {page.record}
        /\ writes' = IF w.op = "photo" THEN t ELSE UnattendedSeq(t)
        /\ saves' = IF w.op = "photo" THEN saves ELSE Unattended(saves)
        /\ UNCHANGED <<records, refused, alert, emptied>>
    BY <1>2, <1>4 DEF WriteSettles, ArriveAt
  <1>7. w.op \in Ops
    BY <1>1, <1>2, QueueIndexed DEF IsWrite
  <1>8. page'.record \in {None, page.record, w.record}
    <2>1. CASE w.op = "photo"
      BY <1>6, <2>1
    <2>2. CASE w.op = "record"
      <3>1. page' = Home
        BY <1>6, <2>2 DEF NextPage
      <3>2. QED
        BY <3>1, RecordOfNew DEF Home
    <2>3. CASE w.op \in {"notes", "place"}
      <3>1. page' = IF page.at = "home" THEN NewPage("detail", w.record, None) ELSE Below(page)
        BY <1>6, <2>3 DEF NextPage
      <3>2. page.at \in Pages
        BY <1>1 DEF IsPage
      <3>3. Below(page).record \in {None, page.record}
        BY <3>2, RecordBelow
      <3>4. PICK p : p = NewPage("detail", w.record, None)
        OBVIOUS
      <3>5. p.record = w.record
        BY <3>4, RecordOfNew
      <3>6. QED
        BY <3>1, <3>3, <3>4, <3>5
    <2>4. QED
      BY <1>7, <2>1, <2>2, <2>3 DEF Ops
  <1>9. PICK q : q = page'
    OBVIOUS
  <1>10. PICK D : D = cache'
    OBVIOUS
  <1>11. PICK N : N = missed'
    OBVIOUS
  <1>12. PICK s : s = writes'
    OBVIOUS
  <1>13. PageFits(q, D, N, records, s, emptied)
    <2>1. q.record # None => q.record \in Records /\ records[q.record] # None
      BY <1>1, <1>3, <1>8, <1>9 DEF PageFits, PageShowsIn
    <2>2. D = IF page.record = None THEN cache ELSE [cache EXCEPT ![page.record] = records[page.record]]
      BY <1>6, <1>10 DEF Reread
    <2>3. ASSUME NEW r \in Records, r \notin N, r # page.record, SettledIn(s, r)
          PROVE  r \notin missed /\ SettledIn(writes, r)
      <3>1. r \notin missed /\ r # w.record
        BY <1>6, <1>11, <2>3
      <3>2. SettledIn(UnattendedSeq(t), r) <=> SettledIn(t, r)
        BY <1>5, SettledQueue
      <3>3. SettledIn(t, r)
        BY <1>6, <1>12, <2>3, <3>2
      <3>4. QED
        BY <1>1, <1>2, <1>4, <3>1, <3>3, SettledQueue
    <2>4. QED
      BY <1>1, <2>1, <2>2, <2>3, RereadFits
  <1>14. QueueFits(s, records, emptied)
    BY <1>5, <1>6, <1>12, LeftFits
  <1>15. AlertFits(alert, records, s, emptied)
    <2>1. \A r : AwayFrom(UnattendedSeq(t), r) <=> AwayFrom(t, r)
      BY <1>5, SettledQueue
    <2>2. QED
      BY <1>5, <1>6, <1>12, <2>1 DEF AlertFits
  <1>16. SavesAreNew(saves', records)
    <2>1. \A u \in saves : IsSave(u)
      BY <1>1, SaveParts DEF DraftIInv
    <2>2. \A u \in saves' : \E v \in saves : v.record = u.record
      BY <1>6, <2>1, LeftSaves
    <2>3. QED
      BY <1>1, <2>2, SavesNewer
  <1>17. QED
    BY <1>1, <1>6, <1>9, <1>10, <1>11, <1>12, <1>13, <1>14, <1>15, <1>16 DEF RecordsFit

LEMMA RecordsAnswered ==
  ASSUME RecordsIInv, NEW confirmed \in BOOLEAN, DeleteAnswered(confirmed)
  PROVE  RecordsFit'
  <1> USE DEF stored
  <1>1. /\ IsPage(page) /\ SavesAreNew(saves, records)
        /\ PageFits(page, cache, missed, records, writes, emptied)
        /\ AlertFits(alert, records, writes, emptied)
    BY RecordsFacts
  <1>2. alert # None /\ alert' = None /\ page' = page /\ emptied' = emptied
    BY DEF DeleteAnswered
  <1>3. CASE ~confirmed
    <2>1. UNCHANGED <<saves, writes, records, cache, missed, refused>>
      BY <1>3 DEF DeleteAnswered
    <2>2. QED
      BY <1>1, <1>2, <2>1, SteadyStep
  <1>4. CASE confirmed
    <2>1. PICK days : days = removeRecordPhoto(alert.copy, alert.day, alert.photo)
      OBVIOUS
    <2>2. PICK b \in BOOLEAN : b = (alert.behind \/ Overlapping(alert.record))
      BY DEF Overlapping
    <2>3. PICK op \in Ops : op = IF days = <<>> THEN "record" ELSE "photo"
      BY DEF Ops
    <2>4. PICK left \in BOOLEAN : left = (page.at # "detail" \/ page.record # alert.record)
      OBVIOUS
    <2>5. PICK w : w = [Write(alert.record, op, alert.photo, days, alert.copy, b) EXCEPT !.left = left]
      OBVIOUS
    <2>6. Submitted(w)
      BY <1>4, <2>1, <2>2, <2>3, <2>4, <2>5 DEF DeleteAnswered
    <2>7. /\ IsWrite(w) /\ ~w.done
          /\ w.record = alert.record /\ w.op = op /\ w.of = alert.photo /\ w.days = days
          /\ w.copy = alert.copy /\ w.behind = b
      BY <2>5, IsWriteWrite
    <2>8. /\ alert.record \in Records /\ records[alert.record] # None
          /\ RecordOK(alert.record, alert.copy, emptied)
          /\ \E day \in DaysOf(alert.copy) : day.id = alert.day /\ alert.photo \in {p.id : p \in PhotosOf(day)}
          /\ ~alert.behind => alert.copy = records[alert.record] /\ AwayFrom(writes, alert.record)
      BY <1>1, <1>2 DEF AlertFits
    <2>9. PICK copy : copy = alert.copy
      OBVIOUS
    <2>10. /\ RecordOK(alert.record, days, emptied) /\ KeptByDelete(days, copy, alert.photo)
           /\ days = <<>> => AllPhotos(copy) = {p \in AllPhotos(copy) : p.id = alert.photo}
      <3>1. PICK i : i = alert.day
        OBVIOUS
      <3>2. PICK x : x = alert.photo
        OBVIOUS
      <3>3. \E day \in DaysOf(copy) : day.id = i /\ x \in {p.id : p \in PhotosOf(day)}
        BY <2>8, <2>9, <3>1, <3>2
      <3>4. RecordOK(alert.record, copy, emptied)
        BY <2>8, <2>9
      <3>5. days = removeRecordPhoto(copy, i, x)
        BY <2>1, <2>9, <3>1, <3>2
      <3>6. QED
        BY <3>2, <3>3, <3>4, <3>5, DeletedPhoto
    <2>11. KeepsTheRest(w)
      <3>1. CASE days = <<>>
        BY <2>3, <2>7, <2>9, <2>10, <3>1 DEF KeepsTheRest
      <3>2. CASE days # <<>>
        BY <2>3, <2>7, <2>9, <2>10, <3>2, PhotoKeeps
      <3>3. QED
        BY <3>1, <3>2
    <2>12. WriteFits(w, records, emptied)
      BY <2>2, <2>3, <2>7, <2>8, <2>10, <2>11 DEF WriteFits
    <2>13. ~w.behind => AwayFrom(writes, w.record)
      BY <2>2, <2>7, <2>8
    <2>14. QED
      BY <1>2, <2>6, <2>7, <2>12, <2>13, RecordsSubmitted
  <1>5. QED
    BY <1>3, <1>4

LEMMA RecordsElsewhere ==
  ASSUME RecordsIInv, Elsewhere
  PROVE  RecordsFit'
  <1> USE DEF stored, changing, drafting
  <1>1. /\ SavesAreNew(saves, records) /\ StoredFits(records, emptied)
        /\ PageFits(page, cache, missed, records, writes, emptied)
    BY RecordsFacts
  <1>2. ASSUME UNCHANGED <<page, records, cache, missed, refused, writes, alert, emptied>>, saves' \subseteq saves
        PROVE  RecordsFit'
    <2>1. SavesAreNew(saves', records)
      BY <1>1, <1>2 DEF SavesAreNew
    <2>2. QED
      BY <1>1, <1>2, <2>1, SteadyStep
  <1>3. CASE PickerClosed \/ SearchWidens
    BY <1>2, <1>3 DEF PickerClosed, SearchWidens
  <1>4. CASE RecordRead
    <2>1. PICK D : D = cache'
      OBVIOUS
    <2>2. PICK N : N = missed'
      OBVIOUS
    <2>3. /\ D = IF page.record = None THEN cache ELSE [cache EXCEPT ![page.record] = records[page.record]]
          /\ N = missed \ {page.record}
          /\ UNCHANGED <<page, records, refused, writes, alert, emptied, saves>>
      BY <1>4, <2>1, <2>2 DEF RecordRead, Reread
    <2>4. PICK p : p = page
      OBVIOUS
    <2>5. PageFits(p, D, N, records, writes, emptied)
      <3>1. p.record # None => p.record \in Records /\ records[p.record] # None
        BY <1>1, <2>4 DEF PageFits, PageShowsIn
      <3>2. \A r \in Records : r \notin N /\ r # p.record /\ SettledIn(writes, r) =>
               r \notin missed /\ SettledIn(writes, r)
        BY <2>3, <2>4
      <3>3. D = IF p.record = None THEN cache ELSE [cache EXCEPT ![p.record] = records[p.record]]
        BY <2>3, <2>4
      <3>4. PageFits(p, cache, missed, records, writes, emptied)
        BY <1>1, <2>4
      <3>5. QED
        BY <1>1, <3>1, <3>2, <3>3, <3>4, RereadFits
    <2>6. QED
      BY <1>1, <2>1, <2>2, <2>3, <2>4, <2>5, SteadyStep
  <1>5. ASSUME NEW r \in Records, CopyForgotten(r)
         PROVE  RecordsFit'
    <2>1. PICK D : D = cache'
      OBVIOUS
    <2>2. PICK N : N = missed'
      OBVIOUS
    <2>3. /\ D = [cache EXCEPT ![r] = None] /\ N = missed \ {r}
          /\ UNCHANGED <<page, records, refused, writes, alert, emptied, saves>>
      BY <1>5, <2>1, <2>2 DEF CopyForgotten
    <2>4. PageFits(page, D, N, records, writes, emptied)
      BY <1>1, <2>3, ForgottenFits
    <2>5. QED
      BY <1>1, <2>1, <2>2, <2>3, <2>4, SteadyStep
  <1>6. ASSUME NEW assets, PhotosPicked(assets)
        PROVE  RecordsFit'
    BY <1>2, <1>6 DEF PhotosPicked
  <1>7. ASSUME NEW c, ConfigSettles(c)
        PROVE  RecordsFit'
    BY <1>2, <1>7 DEF ConfigSettles
  <1>8. ASSUME NEW end, SearchEnds(end)
        PROVE  RecordsFit'
    BY <1>2, <1>8 DEF SearchEnds
  <1>9. ASSUME NEW s \in saves, SaveFails(s)
        PROVE  RecordsFit'
    <2>1. /\ UNCHANGED <<page, records, cache, missed, writes, alert, emptied>> /\ saves' \subseteq saves
          /\ refused' = IF Accepts(Others(s.record), SaveRow(s)) THEN refused ELSE refused \cup {"save"}
      BY <1>9 DEF SaveFails
    <2>2. Accepts(Others(s.record), SaveRow(s))
      BY SaveFits
    <2>3. QED
      BY <1>2, <2>1, <2>2
  <1>10. QED
    BY <1>3, <1>4, <1>5, <1>6, <1>7, <1>8, <1>9, RecordsStored, RecordsCommitted, RecordsFailed,
       RecordsSettled, RecordsAnswered DEF Elsewhere

LEMMA RecordsStep ==
  ASSUME RecordsIInv, [Next]_vars
  PROVE  RecordsIInv'
  <1>1. DraftIInv'
    BY RecordsFacts, DraftStep
  <1>2. RecordsFit'
    <2>1. CASE UNCHANGED vars
      BY <2>1, RecordsFacts DEF vars, RecordsFit
    <2>2. CASE Next
      BY <2>2, RecordsDrafting, RecordsEditing, RecordsBack, RecordsElsewhere DEF Next
    <2>3. QED
      BY <2>1, <2>2
  <1>3. (RecordsIInv <=> DraftIInv /\ RecordsFit)'
    BY RecordsParts, PTL
  <1>4. QED
    BY <1>1, <1>2, <1>3

LEMMA RecordsInit == Init => RecordsIInv
  <1> SUFFICES ASSUME Init
               PROVE  RecordsIInv
    OBVIOUS
  <1>1. DraftIInv
    BY DraftInit
  <1>2. /\ records = [r \in Records |-> None] /\ saves = {} /\ writes = <<>> /\ alert = None
        /\ page = Home /\ refused = {} /\ cache = [r \in Records |-> None]
    BY DEF Init
  <1>3. StoredIn(records) = {}
    BY <1>2 DEF StoredIn
  <1>4. StoredFits(records, emptied)
    BY <1>3, FS_EmptySet DEF StoredFits
  <1>5. page.record = None
    BY <1>2, RecordOfNew DEF Home
  <1>6. QueueFits(writes, records, emptied)
    <2>1. DOMAIN <<>> = {}
      OBVIOUS
    <2>2. QED
      BY <1>2, <2>1 DEF QueueFits, Overlaps
  <1>7. RecordsFit
    BY <1>2, <1>4, <1>5, <1>6 DEF RecordsFit, SavesAreNew, PageFits, PageShowsIn, IsTable, CopyFits, AlertFits
  <1>8. QED
    BY <1>1, <1>7, RecordsParts

(***************************************************************************)
(* Counting.                                                               *)
(***************************************************************************)
LEMMA SameSize ==
  ASSUME NEW S, IsFiniteSet(S), NEW T, NEW f, \A x \in S : f[x] \in T,
         \A y \in T : \E x \in S : f[x] = y, \A x, y \in S : f[x] = f[y] => x = y
  PROVE  IsFiniteSet(T) /\ Cardinality(T) = Cardinality(S)
  <1> DEFINE g == [x \in S |-> f[x]]
  <1>1. g \in Bijection(S, T)
    BY DEF Bijection, Injection, Surjection, IsInjective
  <1>2. ExistsBijection(S, T)
    BY <1>1 DEF ExistsBijection
  <1>3. QED
    BY <1>2, FS_Bijection

LEMMA ImageIsFinite ==
  ASSUME NEW S, IsFiniteSet(S), NEW T, NEW f, \A y \in T : \E x \in S : f[x] = y
  PROVE  IsFiniteSet(T)
  <1> DEFINE K == {x \in S : f[x] \in T}
             g == [x \in K |-> f[x]]
  <1>1. IsFiniteSet(K)
    BY FS_Subset
  <1>2. g \in Surjection(K, T)
    BY DEF Surjection
  <1>3. QED
    BY <1>1, <1>2, FS_Surjection

LEMMA UnionIsFinite ==
  ASSUME NEW S, IsFiniteSet(S), NEW F, \A x \in S : IsFiniteSet(F[x]),
         NEW U, \A y \in U : \E x \in S : y \in F[x]
  PROVE  IsFiniteSet(U)
  <1> DEFINE T == {F[x] : x \in S}
  <1>1. IsFiniteSet(T)
    <2>1. \A y \in T : \E x \in S : F[x] = y
      OBVIOUS
    <2> HIDE DEF T
    <2>2. QED
      BY <2>1, ImageIsFinite
  <1>2. \A t \in T : IsFiniteSet(t)
    OBVIOUS
  <1>3. U \subseteq UNION T
    OBVIOUS
  <1> HIDE DEF T
  <1>4. IsFiniteSet(UNION T)
    BY <1>1, <1>2, FS_UNION
  <1>5. QED
    BY <1>3, <1>4, FS_Subset

\* The F[x] divide U, and P has a pair for each member of each of them.
AreParts(F, S, U) ==
    /\ IsFiniteSet(U) /\ \A x \in S : IsFiniteSet(F[x])
    /\ \A x, y \in S : x # y => F[x] \cap F[y] = {}
    /\ \A y : y \in U <=> \E x \in S : y \in F[x]
ArePairs(P, F, S) == \A z : z \in P <=> \E x \in S : \E i \in 1..Cardinality(F[x]) : z = <<x, i>>

\* A total over the parts of a set counts the set.
LEMMA TotalOfParts ==
  ASSUME NEW S, NEW F, NEW U, AreParts(F, S, U), NEW P, ArePairs(P, F, S)
  PROVE  Cardinality(P) = Cardinality(U)
  <1> USE DEF AreParts, ArePairs
  <1> DEFINE e == [x \in S |-> CHOOSE b : b \in Bijection(1..Cardinality(F[x]), F[x])]
             f == [z \in P |-> e[z[1]][z[2]]]
  <1>1. ASSUME NEW x \in S
        PROVE  e[x] \in Bijection(1..Cardinality(F[x]), F[x])
    <2>1. ExistsBijection(1..Cardinality(F[x]), F[x])
      BY FS_CardinalityType
    <2>2. \E b : b \in Bijection(1..Cardinality(F[x]), F[x])
      BY <2>1 DEF ExistsBijection
    <2>3. QED
      BY <2>2
  <1> HIDE DEF e
  <1>2. ASSUME NEW x \in S
        PROVE  /\ \A i \in 1..Cardinality(F[x]) : e[x][i] \in F[x]
               /\ \A i, j \in 1..Cardinality(F[x]) : e[x][i] = e[x][j] => i = j
               /\ \A y \in F[x] : \E i \in 1..Cardinality(F[x]) : e[x][i] = y
    <2>1. PICK n : n = Cardinality(F[x])
      OBVIOUS
    <2>2. PICK T : T = F[x]
      OBVIOUS
    <2>3. PICK b : b = e[x]
      OBVIOUS
    <2>4. b \in Bijection(1..n, T)
      BY <1>1, <2>1, <2>2, <2>3
    <2>5. (\A i \in 1..n : b[i] \in T) /\ (\A i, j \in 1..n : b[i] = b[j] => i = j)
          /\ \A y \in T : \E i \in 1..n : b[i] = y
      BY <2>4 DEF Bijection, Injection, Surjection, IsInjective
    <2>6. QED
      BY <2>1, <2>2, <2>3, <2>5
  <1>3. \A x \in S : \A i \in 1..Cardinality(F[x]) : <<x, i>> \in P /\ f[<<x, i>>] = e[x][i]
    OBVIOUS
  <1>4. \A z \in P : \E x \in S : \E i \in 1..Cardinality(F[x]) : z = <<x, i>> /\ f[z] = e[x][i]
    BY <1>3
  <1>5. f = [z \in P |-> f[z]]
    OBVIOUS
  <1> HIDE DEF f
  <1>6. \A z \in P : f[z] \in U
    BY <1>2, <1>4
  <1>7. \A y \in U : \E z \in P : f[z] = y
    <2> SUFFICES ASSUME NEW y \in U
                 PROVE  \E z \in P : f[z] = y
      OBVIOUS
    <2>1. PICK x \in S : y \in F[x]
      OBVIOUS
    <2>2. PICK i \in 1..Cardinality(F[x]) : e[x][i] = y
      BY <1>2, <2>1
    <2>3. <<x, i>> \in P /\ f[<<x, i>>] = y
      BY <1>3, <2>2
    <2>4. QED
      BY <2>3
  <1>8. ASSUME NEW z \in P, NEW w \in P, f[z] = f[w]
        PROVE  z = w
    <2>1. PICK x \in S : \E i \in 1..Cardinality(F[x]) : z = <<x, i>> /\ f[z] = e[x][i]
      BY <1>4
    <2>2. PICK i \in 1..Cardinality(F[x]) : z = <<x, i>> /\ f[z] = e[x][i]
      BY <2>1
    <2>3. PICK y \in S : \E j \in 1..Cardinality(F[y]) : w = <<y, j>> /\ f[w] = e[y][j]
      BY <1>4
    <2>4. PICK j \in 1..Cardinality(F[y]) : w = <<y, j>> /\ f[w] = e[y][j]
      BY <2>3
    <2>5. f[z] \in F[x] /\ f[w] \in F[y]
      BY <1>2, <2>2, <2>4
    <2>6. x = y
      BY <1>8, <2>5
    <2>7. i = j
      BY <1>2, <1>8, <2>2, <2>4, <2>6
    <2>8. QED
      BY <2>2, <2>4, <2>6, <2>7
  <1>9. f \in Injection(P, U) /\ f \in Surjection(P, U)
    BY <1>5, <1>6, <1>7, <1>8 DEF Injection, Surjection, IsInjective
  <1>10. QED
    BY <1>9, FS_Injection

(***************************************************************************)
(* The first and the last of some dates.                                   *)
(***************************************************************************)
LEMMA FirstAndLast ==
  ASSUME NEW S \in SUBSET DateTexts, IsFiniteSet(S), S # {}
  PROVE  /\ Earliest(S) \in S /\ \A e \in S : ~Before(e, Earliest(S))
         /\ Latest(S) \in S /\ \A e \in S : ~Before(Latest(S), e)
  <1>1. PICK s : s = Ordered(S, Before)
    OBVIOUS
  <1>2. PICK n : n = Cardinality(S)
    OBVIOUS
  <1>3. /\ n \in Nat /\ s \in [1..n -> S]
        /\ \A k, l \in 1..n : k < l <=> Before(s[k], s[l])
        /\ \A x \in S : \E k \in 1..n : s[k] = x
    BY <1>1, <1>2, DateList
  <1>4. 1 \in 1..n /\ n \in 1..n
    BY <1>3
  <1>5. \A e \in S : ~Before(e, s[1])
    BY <1>3, <1>4
  <1>6. \A e \in S : ~Before(s[n], e)
    BY <1>3, <1>4
  <1>7. Earliest(S) \in S /\ \A e \in S : ~Before(e, Earliest(S))
    BY <1>3, <1>4, <1>5 DEF Earliest
  <1>8. Latest(S) \in S /\ \A e \in S : ~Before(Latest(S), e)
    BY <1>3, <1>4, <1>6 DEF Latest
  <1>9. QED
    BY <1>7, <1>8

LEMMA NotAfter ==
  ASSUME NEW d \in DateTexts, NEW e \in DateTexts, NEW f \in DateTexts, ~Before(e, d), ~Before(f, e)
  PROVE  ~Before(f, d)
  BY BeforeOrder

(***************************************************************************)
(* The rows of a record and of all.                                        *)
(***************************************************************************)
LEMMA RecordSets ==
  ASSUME NEW r, NEW days, NEW E, RecordOK(r, days, E)
  PROVE  /\ IsFiniteSet(AllPhotos(days)) /\ IsFiniteSet(AllVisits(days))
         /\ \A p \in AllPhotos(days) : p.id[1] = r
         /\ \A v \in AllVisits(days) : /\ v.id[1] = r /\ v.place \in OfferedPlaces /\ v.at \in DateTexts
                                       /\ \E day \in DaysOf(days) : v.at = day.date
  <1>1. /\ \A day \in DaysOf(days) : IsDay(r, day) /\ DayOK(day, E)
        /\ IsFiniteSet(DaysOf(days))
    BY RecordList
  <1>2. ASSUME NEW T, NEW s \in Seq(T)
        PROVE  IsFiniteSet(Range(s))
    <2>1. Len(s) \in Nat /\ \A x \in Range(s) : \E k \in 1..Len(s) : s[k] = x
      BY Members
    <2>2. IsFiniteSet(1..Len(s))
      BY <2>1, UpTo
    <2>3. QED
      BY <2>1, <2>2, ImageIsFinite
  <1>3. \A day \in DaysOf(days) : IsFiniteSet(PhotosOf(day)) /\ IsFiniteSet(VisitsOf(day))
    BY <1>1, <1>2, DayFields DEF PhotosOf, VisitsOf
  <1>4. IsFiniteSet(AllPhotos(days))
    <2>1. PICK D : D = DaysOf(days)
      OBVIOUS
    <2>2. PICK F : F = [day \in D |-> PhotosOf(day)]
      OBVIOUS
    <2>3. \A day \in D : IsFiniteSet(F[day])
      BY <1>3, <2>1, <2>2
    <2>4. \A p \in AllPhotos(days) : \E day \in D : p \in F[day]
      BY <2>1, <2>2, RowsOf
    <2>5. QED
      BY <1>1, <2>1, <2>3, <2>4, UnionIsFinite
  <1>5. IsFiniteSet(AllVisits(days))
    <2>1. PICK D : D = DaysOf(days)
      OBVIOUS
    <2>2. PICK F : F = [day \in D |-> VisitsOf(day)]
      OBVIOUS
    <2>3. \A day \in D : IsFiniteSet(F[day])
      BY <1>3, <2>1, <2>2
    <2>4. \A v \in AllVisits(days) : \E day \in D : v \in F[day]
      BY <2>1, <2>2, RowsOf
    <2>5. QED
      BY <1>1, <2>1, <2>3, <2>4, UnionIsFinite
  <1>6. ASSUME NEW p \in AllPhotos(days)
        PROVE  p.id[1] = r
    BY <1>1, RowsOf, RowFields
  <1>7. ASSUME NEW v \in AllVisits(days)
        PROVE  /\ v.id[1] = r /\ v.place \in OfferedPlaces /\ v.at \in DateTexts
               /\ \E day \in DaysOf(days) : v.at = day.date
    <2>1. PICK day \in DaysOf(days) : v \in VisitsOf(day)
      BY RowsOf
    <2>2. v.id[1] = r /\ v.place \in OfferedPlaces /\ v.at \in DateTexts
      BY <1>1, <2>1, RowFields
    <2>3. v.at = day.date
      BY <1>1, <2>1 DEF DayOK
    <2>4. QED
      BY <2>2, <2>3
  <1>8. QED
    BY <1>4, <1>5, <1>6, <1>7

(***************************************************************************)
(* The rows of getRegionProgress.                                          *)
(***************************************************************************)
Counts(all, scope) == {v \in VisitsIn(all) : scope = "area" \/ v.place.sigungu # NoValue}
GroupOf(V, scope, g) == {v \in V : RegionOf(v, scope) = g}
DatesOf(V, scope, g) == {v.at : v \in GroupOf(V, scope, g)}
RegionRow(V, scope, g) ==
    [region |-> g, visitCount |-> Cardinality(GroupOf(V, scope, g)),
     first |-> Earliest(DatesOf(V, scope, g)), last |-> Latest(DatesOf(V, scope, g))]

RowsAreOf(rows, V, scope) ==
    /\ IsFiniteSet(rows)
    /\ \A g \in rows : /\ g.visitCount = Cardinality(GroupOf(V, scope, g.region))
                       /\ \E v \in V : RegionOf(v, scope) = g.region
                       /\ g.first \in DateTexts /\ g.last \in DateTexts
    /\ \A v \in V : \E g \in rows : g.region = RegionOf(v, scope)
    /\ \A g, h \in rows : g.region = h.region => g = h
    /\ \A g \in rows, v \in V : RegionOf(v, scope) = g.region =>
          ~Before(v.at, g.first) /\ ~Before(g.last, v.at)

LEMMA RegionRows ==
  ASSUME NEW all, NEW scope, NEW x
  PROVE  x \in getRegionProgress(all, scope) <=>
            \E v \in Counts(all, scope) : x = RegionRow(Counts(all, scope), scope, RegionOf(v, scope))
  <1> DEFINE V == Counts(all, scope)
             G == {RegionOf(v, scope) : v \in V}
             group == [g \in G |-> {v \in V : RegionOf(v, scope) = g}]
             dates == [g \in G |-> {v.at : v \in group[g]}]
             row(g) == [region |-> g, visitCount |-> Cardinality(group[g]),
                        first |-> Earliest(dates[g]), last |-> Latest(dates[g])]
  <1>1. getRegionProgress(all, scope) = {row(g) : g \in G}
    BY DEF getRegionProgress, Counts
  <1>2. ASSUME NEW g \in G
        PROVE  row(g) = RegionRow(V, scope, g)
    <2>1. group[g] = GroupOf(V, scope, g)
      BY DEF GroupOf
    <2>2. dates[g] = DatesOf(V, scope, g)
      BY <2>1 DEF DatesOf
    <2>3. QED
      BY <2>1, <2>2 DEF RegionRow
  <1>3. \A g : g \in G <=> \E v \in V : g = RegionOf(v, scope)
    OBVIOUS
  <1> HIDE DEF V, G, group, dates
  <1>4. x \in getRegionProgress(all, scope) <=> \E g \in G : x = RegionRow(V, scope, g)
    BY <1>1, <1>2
  <1>5. QED
    BY <1>3, <1>4 DEF V

LEMMA RegionRowsOK ==
  ASSUME NEW all, NEW scope, NEW V, V = Counts(all, scope), IsFiniteSet(V), \A v \in V : v.at \in DateTexts
  PROVE  RowsAreOf(getRegionProgress(all, scope), V, scope)
  <1>1. PICK rows : rows = getRegionProgress(all, scope)
    OBVIOUS
  <1>2. \A x : x \in rows <=> \E v \in V : x = RegionRow(V, scope, RegionOf(v, scope))
    BY <1>1, RegionRows
  <1>3. IsFiniteSet(rows)
    <2>1. PICK f : f = [v \in V |-> RegionRow(V, scope, RegionOf(v, scope))]
      OBVIOUS
    <2>2. \A x \in rows : \E v \in V : f[v] = x
      BY <1>2, <2>1
    <2>3. QED
      BY <2>2, ImageIsFinite
  <1>4. ASSUME NEW v \in V
        PROVE  LET g == RegionOf(v, scope)
                   D == DatesOf(V, scope, g)
               IN  /\ Earliest(D) \in DateTexts /\ Latest(D) \in DateTexts
                   /\ \A w \in V : RegionOf(w, scope) = g =>
                         ~Before(w.at, Earliest(D)) /\ ~Before(Latest(D), w.at)
    <2>1. PICK g : g = RegionOf(v, scope)
      OBVIOUS
    <2>2. PICK D : D = DatesOf(V, scope, g)
      OBVIOUS
    <2>3. v.at \in D /\ D \subseteq DateTexts /\ \A w \in V : RegionOf(w, scope) = g => w.at \in D
      BY <2>1, <2>2 DEF DatesOf, GroupOf
    <2>4. IsFiniteSet(D)
      <3>1. PICK f : f = [w \in V |-> w.at]
        OBVIOUS
      <3>2. \A d \in D : \E w \in V : f[w] = d
        BY <2>2, <3>1 DEF DatesOf, GroupOf
      <3>3. QED
        BY <3>2, ImageIsFinite
    <2>5. /\ Earliest(D) \in D /\ \A e \in D : ~Before(e, Earliest(D))
          /\ Latest(D) \in D /\ \A e \in D : ~Before(Latest(D), e)
      BY <2>3, <2>4, FirstAndLast
    <2>6. QED
      BY <2>1, <2>2, <2>3, <2>5
  <1>5. ASSUME NEW g \in rows
        PROVE  \E v \in V : /\ g.region = RegionOf(v, scope) /\ g = RegionRow(V, scope, g.region)
                            /\ g.visitCount = Cardinality(GroupOf(V, scope, g.region))
                            /\ g.first = Earliest(DatesOf(V, scope, g.region))
                            /\ g.last = Latest(DatesOf(V, scope, g.region))
    <2>1. PICK v \in V : g = RegionRow(V, scope, RegionOf(v, scope))
      BY <1>2
    <2>2. QED
      BY <2>1 DEF RegionRow
  <1>6. \A g \in rows : /\ g.visitCount = Cardinality(GroupOf(V, scope, g.region))
                        /\ \E v \in V : RegionOf(v, scope) = g.region
                        /\ g.first \in DateTexts /\ g.last \in DateTexts
    BY <1>4, <1>5
  <1>7. ASSUME NEW v \in V
        PROVE  \E g \in rows : g.region = RegionOf(v, scope)
    <2>1. PICK g : g = RegionRow(V, scope, RegionOf(v, scope))
      OBVIOUS
    <2>2. g \in rows /\ g.region = RegionOf(v, scope)
      BY <1>2, <2>1 DEF RegionRow
    <2>3. QED
      BY <2>2
  <1>8. \A g, h \in rows : g.region = h.region => g = h
    BY <1>5
  <1>9. ASSUME NEW g \in rows, NEW v \in V, RegionOf(v, scope) = g.region
        PROVE  ~Before(v.at, g.first) /\ ~Before(g.last, v.at)
    BY <1>4, <1>5, <1>9
  <1>10. QED
    BY <1>1, <1>3, <1>6, <1>7, <1>8, <1>9 DEF RowsAreOf

\* The visits of the rows add up.
LEMMA RegionTotal ==
  ASSUME NEW V, IsFiniteSet(V), NEW scope, NEW rows, RowsAreOf(rows, V, scope)
  PROVE  Total(rows, LAMBDA g : g.visitCount) = Cardinality(V)
  <1>1. PICK F : F = [g \in rows |-> GroupOf(V, scope, g.region)]
    OBVIOUS
  <1>2. \A g \in rows : IsFiniteSet(F[g]) /\ Cardinality(F[g]) = g.visitCount
    <2> SUFFICES ASSUME NEW g \in rows
                 PROVE  IsFiniteSet(F[g]) /\ Cardinality(F[g]) = g.visitCount
      OBVIOUS
    <2>1. GroupOf(V, scope, g.region) \subseteq V
      BY DEF GroupOf
    <2>2. IsFiniteSet(GroupOf(V, scope, g.region))
      BY <2>1, FS_Subset
    <2>3. QED
      BY <1>1, <2>2 DEF RowsAreOf
  <1>3. \A g, h \in rows : g # h => F[g] \cap F[h] = {}
    BY <1>1 DEF RowsAreOf, GroupOf
  <1>4. \A v : v \in V <=> \E g \in rows : v \in F[g]
    BY <1>1 DEF RowsAreOf, GroupOf
  <1>5. PICK P : P = UNION {{g} \X (1..g.visitCount) : g \in rows}
    OBVIOUS
  <1>6. \A z : z \in P <=> \E g \in rows : \E i \in 1..Cardinality(F[g]) : z = <<g, i>>
    BY <1>2, <1>5
  <1>7. Cardinality(P) = Cardinality(V)
    <2>1. AreParts(F, rows, V)
      BY <1>2, <1>3, <1>4 DEF AreParts
    <2>2. ArePairs(P, F, rows)
      BY <1>6 DEF ArePairs
    <2>3. QED
      BY <2>1, <2>2, TotalOfParts
  <1>8. QED
    BY <1>5, <1>7 DEF Total

(***************************************************************************)
(* The records of an owner.                                                *)
(***************************************************************************)
Collection(all, E) ==
    /\ IsFiniteSet(all)
    /\ \A o \in all : o # <<>> /\ \E r : RecordOK(r, o, E)
    /\ \A o, p \in all : o # p => \E r, q : r # q /\ RecordOK(r, o, E) /\ RecordOK(q, p, E)

LEMMA StoredCollection ==
  ASSUME StoredFits(records, emptied)
  PROVE  Collection({records[r] : r \in {r \in Records : Exists(r)}}, emptied)
  <1> DEFINE all == {records[r] : r \in {r \in Records : Exists(r)}}
  <1>1. \A o : o \in all <=> \E r \in Records : Exists(r) /\ o = records[r]
    OBVIOUS
  <1> HIDE DEF all
  <1>2. ASSUME NEW o \in all
        PROVE  \E r \in StoredIn(records) : o = records[r] /\ o # <<>> /\ RecordOK(r, o, emptied)
    <2>1. PICK r \in Records : Exists(r) /\ o = records[r]
      BY <1>1
    <2>2. r \in StoredIn(records) /\ o # <<>>
      BY <2>1 DEF Exists, StoredIn
    <2>3. QED
      BY <2>1, <2>2 DEF StoredFits
  <1>3. IsFiniteSet(all)
    <2>1. \A o \in all : \E r \in StoredIn(records) : records[r] = o
      BY <1>2
    <2>2. QED
      BY <2>1, ImageIsFinite DEF StoredFits
  <1>4. ASSUME NEW o \in all, NEW p \in all, o # p
        PROVE  \E r, q : r # q /\ RecordOK(r, o, emptied) /\ RecordOK(q, p, emptied)
    BY <1>2, <1>4
  <1>5. Collection(all, emptied)
    BY <1>2, <1>3, <1>4 DEF Collection
  <1>6. QED
    BY <1>5 DEF all

LEMMA CollectionRows ==
  ASSUME NEW all, NEW E, Collection(all, E)
  PROVE  /\ \A o \in all : IsFiniteSet(AllPhotos(o)) /\ IsFiniteSet(AllVisits(o))
         /\ \A o, p \in all : o # p => AllPhotos(o) \cap AllPhotos(p) = {} /\ AllVisits(o) \cap AllVisits(p) = {}
         /\ \A v : v \in VisitsIn(all) <=> \E o \in all : v \in AllVisits(o)
         /\ IsFiniteSet(VisitsIn(all)) /\ IsFiniteSet(UNION {AllPhotos(o) : o \in all})
         /\ \A v \in VisitsIn(all) : v.place \in OfferedPlaces /\ v.at \in DateTexts
  <1>1. ASSUME NEW o \in all
        PROVE  /\ IsFiniteSet(AllPhotos(o)) /\ IsFiniteSet(AllVisits(o))
               /\ \A v \in AllVisits(o) : v.place \in OfferedPlaces /\ v.at \in DateTexts
    BY RecordSets DEF Collection
  <1>2. ASSUME NEW o \in all, NEW p \in all, o # p
        PROVE  AllPhotos(o) \cap AllPhotos(p) = {} /\ AllVisits(o) \cap AllVisits(p) = {}
    <2>1. PICK r, q : r # q /\ RecordOK(r, o, E) /\ RecordOK(q, p, E)
      BY <1>2 DEF Collection
    <2>2. /\ \A x \in AllPhotos(o) : x.id[1] = r
          /\ \A x \in AllVisits(o) : x.id[1] = r
      BY <2>1, RecordSets
    <2>3. /\ \A x \in AllPhotos(p) : x.id[1] = q
          /\ \A x \in AllVisits(p) : x.id[1] = q
      BY <2>1, RecordSets
    <2>4. QED
      BY <2>1, <2>2, <2>3
  <1>3. \A v : v \in VisitsIn(all) <=> \E o \in all : v \in AllVisits(o)
    BY DEF VisitsIn
  <1>4. IsFiniteSet(VisitsIn(all))
    <2>1. PICK F : F = [o \in all |-> AllVisits(o)]
      OBVIOUS
    <2>2. (\A o \in all : IsFiniteSet(F[o])) /\ \A v \in VisitsIn(all) : \E o \in all : v \in F[o]
      BY <1>1, <1>3, <2>1
    <2>3. QED
      BY <2>2, UnionIsFinite DEF Collection
  <1>5. IsFiniteSet(UNION {AllPhotos(o) : o \in all})
    <2>1. PICK F : F = [o \in all |-> AllPhotos(o)]
      OBVIOUS
    <2>2. PICK U : U = UNION {AllPhotos(o) : o \in all}
      OBVIOUS
    <2>3. (\A o \in all : IsFiniteSet(F[o])) /\ \A p \in U : \E o \in all : p \in F[o]
      BY <1>1, <2>1, <2>2
    <2>4. IsFiniteSet(U)
      BY <2>3, UnionIsFinite DEF Collection
    <2>5. QED
      BY <2>2, <2>4
  <1>6. QED
    BY <1>1, <1>2, <1>3, <1>4, <1>5

\* The photos and the visits of the records add up.
PhotosTally(all, summary) ==
    Total(all, LAMBDA days : summary[days].photoCount) = Cardinality(UNION {AllPhotos(o) : o \in all})
VisitsTally(all, summary) ==
    Total(all, LAMBDA days : summary[days].visitCount) = Cardinality(VisitsIn(all))
RegionsTally(all, areas) == Total(areas, LAMBDA g : g.visitCount) = Cardinality(VisitsIn(all))

LEMMA CollectionTotals ==
  ASSUME NEW all, NEW E, Collection(all, E), NEW summary, summary = [days \in all |-> Summary(days)]
  PROVE  PhotosTally(all, summary) /\ VisitsTally(all, summary)
  <1>1. \A o \in all : /\ summary[o].photoCount = Cardinality(AllPhotos(o))
                       /\ summary[o].visitCount = Cardinality(AllVisits(o))
    BY DEF Summary
  <1>2. Total(all, LAMBDA days : summary[days].photoCount) = Cardinality(UNION {AllPhotos(o) : o \in all})
    <2>1. PICK F : F = [o \in all |-> AllPhotos(o)]
      OBVIOUS
    <2>2. PICK P : P = UNION {{o} \X (1..summary[o].photoCount) : o \in all}
      OBVIOUS
    <2>3. \A z : z \in P <=> \E o \in all : \E i \in 1..Cardinality(F[o]) : z = <<o, i>>
      BY <1>1, <2>1, <2>2
    <2>4. PICK U : U = UNION {AllPhotos(o) : o \in all}
      OBVIOUS
    <2>5. /\ \A o \in all : IsFiniteSet(F[o])
          /\ \A o, p \in all : o # p => F[o] \cap F[p] = {}
          /\ IsFiniteSet(U) /\ \A y : y \in U <=> \E o \in all : y \in F[o]
      BY <2>1, <2>4, CollectionRows
    <2>6. Cardinality(P) = Cardinality(U)
      <3>1. AreParts(F, all, U)
        BY <2>5 DEF AreParts
      <3>2. ArePairs(P, F, all)
        BY <2>3 DEF ArePairs
      <3>3. QED
        BY <3>1, <3>2, TotalOfParts
    <2>7. QED
      BY <2>2, <2>4, <2>6 DEF Total
  <1>3. Total(all, LAMBDA days : summary[days].visitCount) = Cardinality(VisitsIn(all))
    <2>1. PICK F : F = [o \in all |-> AllVisits(o)]
      OBVIOUS
    <2>2. PICK P : P = UNION {{o} \X (1..summary[o].visitCount) : o \in all}
      OBVIOUS
    <2>3. \A z : z \in P <=> \E o \in all : \E i \in 1..Cardinality(F[o]) : z = <<o, i>>
      BY <1>1, <2>1, <2>2
    <2>4. PICK U : U = VisitsIn(all)
      OBVIOUS
    <2>5. /\ \A o \in all : IsFiniteSet(F[o])
          /\ \A o, p \in all : o # p => F[o] \cap F[p] = {}
          /\ IsFiniteSet(U) /\ \A y : y \in U <=> \E o \in all : y \in F[o]
      BY <2>1, <2>4, CollectionRows
    <2>6. Cardinality(P) = Cardinality(U)
      <3>1. AreParts(F, all, U)
        BY <2>5 DEF AreParts
      <3>2. ArePairs(P, F, all)
        BY <2>3 DEF ArePairs
      <3>3. QED
        BY <3>1, <3>2, TotalOfParts
    <2>7. QED
      BY <2>2, <2>4, <2>6 DEF Total
  <1>4. QED
    BY <1>2, <1>3 DEF PhotosTally, VisitsTally

LEMMA CollectionRegions ==
  ASSUME NEW all, NEW E, Collection(all, E), NEW scope
  PROVE  /\ IsFiniteSet(Counts(all, scope))
         /\ RowsAreOf(getRegionProgress(all, scope), Counts(all, scope), scope)
  <1>1. PICK V : V = Counts(all, scope)
    OBVIOUS
  <1>2. V \subseteq VisitsIn(all)
    BY <1>1 DEF Counts
  <1>3. IsFiniteSet(V) /\ \A v \in V : v.at \in DateTexts
    BY <1>2, CollectionRows, FS_Subset
  <1>4. QED
    BY <1>1, <1>3, RegionRowsOK

\* The statistics count the rows of the regions.
LEMMA CollectionStats ==
  ASSUME NEW all, NEW E, Collection(all, E), NEW areas, areas = getRegionProgress(all, "area"),
         NEW sigungus, sigungus = getRegionProgress(all, "sigungu")
  PROVE  /\ getStats(all).areas = Cardinality(areas)
         /\ getStats(all).sigungus = Cardinality(sigungus)
         /\ RegionsTally(all, areas)
  <1>1. Counts(all, "area") = VisitsIn(all)
    BY DEF Counts
  <1>2. IsFiniteSet(VisitsIn(all)) /\ RowsAreOf(areas, VisitsIn(all), "area")
    BY <1>1, CollectionRegions
  <1>3. Total(areas, LAMBDA g : g.visitCount) = Cardinality(VisitsIn(all))
    BY <1>2, RegionTotal
  <1>4. getStats(all).areas = Cardinality(areas)
    <2>1. PICK T : T = {v.place.area : v \in VisitsIn(all)}
      OBVIOUS
    <2>2. PICK f : f = [g \in areas |-> g.region[1]]
      OBVIOUS
    <2>3. \A g \in areas : \E v \in VisitsIn(all) : g.region = <<v.place.area>>
      BY <1>2 DEF RowsAreOf, RegionOf
    <2>4. \A g \in areas : f[g] \in T
      BY <2>1, <2>2, <2>3
    <2>5. \A y \in T : \E g \in areas : f[g] = y
      BY <1>2, <2>1, <2>2 DEF RowsAreOf, RegionOf
    <2>6. \A g, h \in areas : f[g] = f[h] => g.region = h.region
      BY <2>2, <2>3
    <2>7. \A g, h \in areas : f[g] = f[h] => g = h
      BY <1>2, <2>6 DEF RowsAreOf
    <2>8. IsFiniteSet(areas)
      BY <1>2 DEF RowsAreOf
    <2>9. Cardinality(T) = Cardinality(areas)
      BY <2>4, <2>5, <2>7, <2>8, SameSize
    <2>10. QED
      BY <2>1, <2>9 DEF getStats
  <1>5. getStats(all).sigungus = Cardinality(sigungus)
    <2>1. PICK V : V = Counts(all, "sigungu")
      OBVIOUS
    <2>2. RowsAreOf(sigungus, V, "sigungu")
      BY <2>1, CollectionRegions
    <2>3. PICK T : T = {<<v.place.area, v.place.sigungu>> :
                         v \in {w \in VisitsIn(all) : w.place.sigungu # NoValue}}
      OBVIOUS
    <2>4. \A x : x \in T <=> \E v \in V : x = RegionOf(v, "sigungu")
      BY <2>1, <2>3 DEF Counts, RegionOf
    <2>5. PICK f : f = [g \in sigungus |-> g.region]
      OBVIOUS
    <2>6. \A g \in sigungus : f[g] \in T
      BY <2>2, <2>4, <2>5 DEF RowsAreOf
    <2>7. \A y \in T : \E g \in sigungus : f[g] = y
      BY <2>2, <2>4, <2>5 DEF RowsAreOf
    <2>8. \A g, h \in sigungus : f[g] = f[h] => g = h
      BY <2>2, <2>5 DEF RowsAreOf
    <2>9. IsFiniteSet(sigungus)
      BY <2>2 DEF RowsAreOf
    <2>10. Cardinality(T) = Cardinality(sigungus)
      BY <2>6, <2>7, <2>8, <2>9, SameSize
    <2>11. QED
      BY <2>3, <2>10 DEF getStats
  <1>6. RegionsTally(all, areas)
    BY <1>3 DEF RegionsTally
  <1>7. QED
    BY <1>4, <1>5, <1>6

LEMMA CollectionCounts ==
  ASSUME NEW all, NEW E, Collection(all, E), NEW summary, summary = [days \in all |-> Summary(days)],
         NEW areas, areas = getRegionProgress(all, "area"),
         NEW sigungus, sigungus = getRegionProgress(all, "sigungu")
  PROVE  CountsAgree(all, summary, areas, sigungus)
  <1>1. PhotosTally(all, summary) /\ VisitsTally(all, summary)
    BY CollectionTotals
  <1>2. /\ getStats(all).areas = Cardinality(areas) /\ getStats(all).sigungus = Cardinality(sigungus)
        /\ RegionsTally(all, areas)
    BY CollectionStats
  <1>3. /\ getStats(all).recordCount = Cardinality(all)
        /\ getStats(all).photoCount = Cardinality(UNION {AllPhotos(days) : days \in all})
    BY DEF getStats
  <1> HIDE DEF getStats
  <1>4. getStats(all).photoCount = Total(all, LAMBDA days : summary[days].photoCount)
    BY <1>1, <1>3 DEF PhotosTally, Total
  <1>5. Total(areas, LAMBDA g : g.visitCount) = Total(all, LAMBDA days : summary[days].visitCount)
    BY <1>1, <1>2 DEF VisitsTally, RegionsTally, Total
  <1>6. QED
    BY <1>2, <1>3, <1>4, <1>5 DEF CountsAgree, Total

\* The map shows what the rows name.
LEMMA CollectionMap ==
  ASSUME NEW all, NEW E, Collection(all, E), NEW areas, areas = getRegionProgress(all, "area"),
         NEW sigungus, sigungus = getRegionProgress(all, "sigungu"),
         NEW home, home = HomeMap({g.region : g \in areas}, {g.region : g \in sigungus})
  PROVE  MapAgrees(all, home)
  <1>1. PICK A : A = {g.region : g \in areas}
    OBVIOUS
  <1>2. PICK S : S = {g.region : g \in sigungus}
    OBVIOUS
  <1>3. \A x : x \in A <=> \E v \in VisitsIn(all) : x = <<v.place.area>>
    <2>1. RowsAreOf(areas, VisitsIn(all), "area")
      <3>1. Counts(all, "area") = VisitsIn(all)
        BY DEF Counts
      <3>2. QED
        BY <3>1, CollectionRegions
    <2>2. \A v : RegionOf(v, "area") = <<v.place.area>>
      BY DEF RegionOf
    <2>3. \A x : x \in A <=> \E v \in VisitsIn(all) : x = RegionOf(v, "area")
      BY <1>1, <2>1 DEF RowsAreOf
    <2>4. QED
      BY <2>2, <2>3, Zenon
  <1>4. \A x : x \in S <=> \E v \in VisitsIn(all) : v.place.sigungu # None
                                /\ x = <<v.place.area, v.place.sigungu>>
    <2>1. RowsAreOf(sigungus, Counts(all, "sigungu"), "sigungu")
      BY CollectionRegions
    <2>2. \A v : v \in Counts(all, "sigungu") <=> v \in VisitsIn(all) /\ v.place.sigungu # None
      BY PagesAssumption DEF Counts
    <2>3. \A v : RegionOf(v, "sigungu") = <<v.place.area, v.place.sigungu>>
      BY DEF RegionOf
    <2>4. \A x : x \in S <=> \E v \in Counts(all, "sigungu") : x = RegionOf(v, "sigungu")
      BY <1>2, <2>1 DEF RowsAreOf
    <2>5. ASSUME NEW x \in S
          PROVE  \E v \in VisitsIn(all) : v.place.sigungu # None /\ x = <<v.place.area, v.place.sigungu>>
      <3>1. PICK v \in Counts(all, "sigungu") : x = RegionOf(v, "sigungu")
        BY <2>4
      <3>2. v \in VisitsIn(all) /\ v.place.sigungu # None
        BY <2>2
      <3>3. QED
        BY <2>3, <3>1, <3>2
    <2>6. ASSUME NEW v \in VisitsIn(all), v.place.sigungu # None
          PROVE  <<v.place.area, v.place.sigungu>> \in S
      <3>1. RegionOf(v, "sigungu") \in S
        BY <2>2, <2>4, <2>6
      <3>2. QED
        BY <2>3, <3>1
    <2>7. QED
      BY <2>5, <2>6
  <1>5. \A a : a \in home.visitedAreaCodes <=> isKtoAreaCode(a) /\ \E x \in A : x[1] = a
    <2>1. home.visitedAreaCodes = {x[1] : x \in {q \in A : isKtoAreaCode(q[1])}}
      BY <1>1, <1>2 DEF HomeMap, collectVisitedAreaCodes
    <2>2. QED
      BY <2>1
  <1>6. home.visitedSigunguKeys = {x \in S : HasSigunguKey(x)}
    BY <1>1, <1>2 DEF HomeMap, collectVisitedSigunguKeys
  <1>7. home.visitedCityCountyKeys = {x \in S : isTravelCityCountyKey(x)}
    BY <1>1, <1>2 DEF HomeMap, collectVisitedCityCountyKeys
  <1>8. ASSUME NEW v \in VisitsIn(all), isKtoAreaCode(v.place.area)
        PROVE  isDistrictVisited(v.place.area, v.place.sigungu, home.visitedAreaCodes, home.visitedSigunguKeys)
    <2>1. v.place.area \in home.visitedAreaCodes
      <3>1. PICK a : a = v.place.area
        OBVIOUS
      <3>2. <<a>> \in A
        BY <1>3, <3>1
      <3>3. <<a>>[1] = a
        OBVIOUS
      <3>4. QED
        BY <1>5, <1>8, <3>1, <3>2, <3>3
    <2>2. CASE v.place.sigungu # None
      <3>1. <<v.place.area, v.place.sigungu>> \in S
        BY <1>4, <2>2
      <3>2. QED
        BY <1>6, <1>8, <2>2, <3>1 DEF isDistrictVisited, HasSigunguKey
    <2>3. QED
      BY <2>1, <2>2 DEF isDistrictVisited
  <1>9. home.visitedCityCountyKeys = home.visitedSigunguKeys \cap CityCountyKeys
    <2>1. ASSUME NEW x \in S, HasSigunguKey(x)
          PROVE  isTravelCityCountyKey(x) <=> x \in CityCountyKeys
      <3>1. PICK a, s : x = <<a, s>>
        BY <1>4
      <3>2. isTravelCityCountyKey(x) <=>
               (a \in DOMAIN PROVINCE_CITY_COUNTY_CODES /\ s \in PROVINCE_CITY_COUNTY_CODES[a])
                  \/ x \in METROPOLITAN_COUNTY_KEYS
        BY <2>1, <3>1 DEF isTravelCityCountyKey
      <3>3. PICK C : C = PROVINCE_CITY_COUNTY_CODES
        OBVIOUS
      <3>4. x \in UNION {{b} \X C[b] : b \in DOMAIN C} <=> a \in DOMAIN C /\ s \in C[a]
        BY <3>1
      <3>5. QED
        BY <3>2, <3>3, <3>4 DEF CityCountyKeys
    <2>2. \A x : isTravelCityCountyKey(x) => HasSigunguKey(x)
      BY DEF isTravelCityCountyKey
    <2>3. QED
      BY <1>6, <1>7, <2>1, <2>2
  <1>10. ASSUME NEW key \in home.visitedSigunguKeys
         PROVE  key[1] \in home.visitedAreaCodes
    <2>1. key \in S /\ isKtoAreaCode(key[1])
      BY <1>6 DEF HasSigunguKey
    <2>2. PICK v \in VisitsIn(all) : key = <<v.place.area, v.place.sigungu>>
      BY <1>4, <2>1
    <2>3. <<v.place.area>> \in A /\ key[1] = v.place.area
      BY <1>3, <2>2
    <2>4. QED
      BY <1>5, <2>1, <2>3
  <1>11. {key[1] : key \in home.visitedSigunguKeys} \subseteq home.visitedAreaCodes
    BY <1>10
  <1>12. QED
    BY <1>8, <1>9, <1>11, Zenon DEF MapAgrees

\* What a record itself shows agrees with its row of the list.
LEMMA RecordDates ==
  ASSUME NEW r, NEW days, NEW E, RecordOK(r, days, E), days # <<>>
  PROVE  /\ Summary(days).startDate \in DateTexts /\ Summary(days).endDate \in DateTexts
         /\ \A day \in DaysOf(days) : ~Before(day.date, Summary(days).startDate)
                                      /\ ~Before(Summary(days).endDate, day.date)
         /\ ~Before(Summary(days).endDate, Summary(days).startDate)
  <1>1. /\ Len(days) \in Nat /\ \A k \in 1..Len(days) : days[k] \in DaysOf(days)
        /\ \A day \in DaysOf(days) : IsDay(r, day)
        /\ IsFiniteSet(DaysOf(days))
    BY RecordList
  <1>2. PICK S : S = {day.date : day \in DaysOf(days)}
    OBVIOUS
  <1>3. Summary(days).startDate = Earliest(S) /\ Summary(days).endDate = Latest(S)
    BY <1>2 DEF Summary
  <1>4. S \subseteq DateTexts
    <2>1. \A day \in DaysOf(days) : day.date \in DateTexts
      BY <1>1, DayFields
    <2>2. QED
      BY <1>2, <2>1
  <1>5. IsFiniteSet(S)
    <2>1. PICK f : f = [day \in DaysOf(days) |-> day.date]
      OBVIOUS
    <2>2. \A d \in S : \E day \in DaysOf(days) : f[day] = d
      BY <1>2, <2>1
    <2>3. QED
      BY <1>1, <2>2, ImageIsFinite
  <1>6. S # {}
    <2>1. days \in Seq(StoredDays(r))
      BY DEF RecordOK
    <2>2. 1 \in 1..Len(days)
      BY <1>1, <2>1
    <2>3. days[1].date \in S
      BY <1>1, <1>2, <2>2
    <2>4. QED
      BY <2>3
  <1>7. /\ Earliest(S) \in S /\ \A e \in S : ~Before(e, Earliest(S))
        /\ Latest(S) \in S /\ \A e \in S : ~Before(Latest(S), e)
    BY <1>4, <1>5, <1>6, FirstAndLast
  <1>8. QED
    BY <1>2, <1>3, <1>4, <1>7

LEMMA RecordDisplay ==
  ASSUME NEW r, NEW days, NEW E, RecordOK(r, days, E), days # <<>>
  PROVE  /\ Len(mapLocalRecordToDisplay(days).days) = Summary(days).dayCount
         /\ mapLocalRecordToDisplay(days).photo \in {None, Summary(days).cover}
  <1>1. days \in Seq(StoredDays(r)) /\ Len(days) \in Nat /\ DOMAIN days = 1..Len(days)
    BY RecordList DEF RecordOK
  <1>2. Len(mapLocalRecordToDisplay(days).days) = Summary(days).dayCount
    <2>1. PICK s : s = [k \in DOMAIN days |-> [day |-> k, id |-> days[k].id, photos |-> days[k].photos]]
      OBVIOUS
    <2>2. Len(s) = Len(days)
      BY <1>1, <2>1
    <2>3. QED
      BY <2>1, <2>2 DEF mapLocalRecordToDisplay, Summary
  <1>3. CASE days[1].photos = <<>>
    <2>1. mapLocalRecordToDisplay(days).photo = None
      BY <1>3, PagesAssumption DEF mapLocalRecordToDisplay
    <2>2. QED
      BY <1>2, <2>1
  <1>4. CASE days[1].photos # <<>>
    <2>1. PICK K : K = {k \in DOMAIN days : days[k].photos # <<>>}
      OBVIOUS
    <2>2. PICK at : at = Ascending(K)
      OBVIOUS
    <2>3. PICK s : s = Kept(days, K)
      OBVIOUS
    <2>4. PICK n : n = Cardinality(K)
      OBVIOUS
    <2>5. /\ n \in Nat /\ at \in [1..n -> K]
          /\ \A k, l \in 1..n : k < l <=> at[k] < at[l]
          /\ \A k \in K : \E l \in 1..n : at[l] = k
          /\ s \in Seq(StoredDays(r)) /\ Len(s) = n
          /\ \A l \in 1..n : s[l] = days[at[l]]
      <3>1. K \in SUBSET DOMAIN days
        BY <2>1
      <3>2. PICK T : T = StoredDays(r)
        OBVIOUS
      <3>3. days \in Seq(T)
        BY <1>1, <3>2
      <3>4. QED
        BY <2>2, <2>3, <2>4, <3>1, <3>2, <3>3, KeptList
    <2>6. 1 \in K /\ K \subseteq 1..Len(days)
      BY <1>1, <1>4, <2>1
    <2>7. PICK l \in 1..n : at[l] = 1
      BY <2>5, <2>6
    <2>8. 1 \in 1..n /\ l = 1
      <3>1. n >= 1 /\ 1 \in 1..n
        BY <2>5, <2>7
      <3>2. at[1] \in Nat /\ at[1] >= 1
        <4>1. at[1] \in K
          BY <2>5, <3>1
        <4>2. at[1] \in 1..Len(days)
          BY <2>6, <4>1
        <4>3. QED
          BY <1>1, <4>2
      <3>3. ~(1 < l)
        BY <2>5, <2>7, <3>1, <3>2
      <3>4. QED
        BY <2>5, <3>1, <3>3
    <2>9. s[1] = days[1] /\ s # <<>>
      BY <2>5, <2>7, <2>8
    <2>10. s = Selected(days, LAMBDA day : day.photos # <<>>)
      BY <2>1, <2>3 DEF Selected
    <2>11. Summary(days).cover = days[1].photos[1].id
      BY <2>9, <2>10 DEF Summary
    <2>12. mapLocalRecordToDisplay(days).photo = days[1].photos[1].id
      BY <1>4, <2>9 DEF mapLocalRecordToDisplay
    <2>13. QED
      BY <1>2, <2>11, <2>12
  <1>5. QED
    BY <1>2, <1>3, <1>4

\* The dates of a record that a region names overlap those of the region.
LEMMA RegionDates ==
  ASSUME NEW all, NEW E, Collection(all, E), NEW areas, areas = getRegionProgress(all, "area"),
         NEW days \in all, NEW g \in areas, g.region[1] \in Summary(days).areas
  PROVE  ~Before(Summary(days).endDate, g.first) /\ ~Before(g.last, Summary(days).startDate)
  <1>1. Counts(all, "area") = VisitsIn(all)
    BY DEF Counts
  <1>2. RowsAreOf(areas, VisitsIn(all), "area")
    BY <1>1, CollectionRegions
  <1>3. Summary(days).areas = {v.place.area : v \in AllVisits(days)}
    BY DEF Summary
  <1>4. PICK v \in AllVisits(days) : g.region[1] = v.place.area
    BY <1>3
  <1>5. v \in VisitsIn(all)
    BY <1>4, CollectionRows
  <1>6. g.region = RegionOf(v, "area")
    BY <1>2, <1>4 DEF RowsAreOf, RegionOf
  <1>7. /\ g.first \in DateTexts /\ g.last \in DateTexts
        /\ ~Before(v.at, g.first) /\ ~Before(g.last, v.at)
    BY <1>2, <1>5, <1>6 DEF RowsAreOf
  <1>8. PICK r : days # <<>> /\ RecordOK(r, days, E)
    BY DEF Collection
  <1>9. v.at \in DateTexts /\ \E day \in DaysOf(days) : v.at = day.date
    BY <1>4, <1>8, RecordSets
  <1>10. /\ Summary(days).startDate \in DateTexts /\ Summary(days).endDate \in DateTexts
         /\ ~Before(v.at, Summary(days).startDate) /\ ~Before(Summary(days).endDate, v.at)
    BY <1>8, <1>9, RecordDates
  <1>11. QED
    BY <1>7, <1>9, <1>10, NotAfter

\* The areas of the rows are those of the records.
LEMMA CollectionAreas ==
  ASSUME NEW all, NEW E, Collection(all, E), NEW areas, areas = getRegionProgress(all, "area"),
         NEW summary, summary = [days \in all |-> Summary(days)]
  PROVE  {g.region[1] : g \in areas} = UNION {summary[days].areas : days \in all}
  <1>1. Counts(all, "area") = VisitsIn(all)
    BY DEF Counts
  <1>2. RowsAreOf(areas, VisitsIn(all), "area")
    BY <1>1, CollectionRegions
  <1>3. \A a : (\E g \in areas : g.region[1] = a) <=> \E v \in VisitsIn(all) : v.place.area = a
    <2>1. \A g \in areas : \E v \in VisitsIn(all) : g.region = <<v.place.area>>
      BY <1>2 DEF RowsAreOf, RegionOf
    <2>2. \A v \in VisitsIn(all) : \E g \in areas : g.region = <<v.place.area>>
      BY <1>2 DEF RowsAreOf, RegionOf
    <2>3. QED
      BY <2>1, <2>2
  <1>4. \A days \in all : summary[days].areas = {v.place.area : v \in AllVisits(days)}
    BY DEF Summary
  <1>5. \A a : (\E days \in all : a \in summary[days].areas) <=> \E v \in VisitsIn(all) : v.place.area = a
    <2>1. \A v : v \in VisitsIn(all) <=> \E o \in all : v \in AllVisits(o)
      BY CollectionRows
    <2>2. ASSUME NEW a
          PROVE  (\E days \in all : a \in summary[days].areas) <=> \E v \in VisitsIn(all) : v.place.area = a
      BY <1>4, <2>1
    <2>3. QED
      BY <2>2
  <1>6. \A a : a \in {g.region[1] : g \in areas} <=> \E g \in areas : g.region[1] = a
    OBVIOUS
  <1>7. \A a : a \in UNION {summary[days].areas : days \in all} <=> \E days \in all : a \in summary[days].areas
    OBVIOUS
  <1>8. \A a : a \in {g.region[1] : g \in areas} <=> a \in UNION {summary[days].areas : days \in all}
    BY <1>3, <1>5, <1>6, <1>7, Zenon
  <1>9. QED
    BY <1>8, Zenon

LEMMA AgreedLists ==
  ASSUME RecordsFit
  PROVE  ListsAgree
  <1>1. PICK all : all = {records[r] : r \in {r \in Records : Exists(r)}}
    OBVIOUS
  <1>2. Collection(all, emptied)
    BY <1>1, StoredCollection DEF RecordsFit
  <1>3. PICK areas : areas = getRegionProgress(all, "area")
    OBVIOUS
  <1>4. PICK sigungus : sigungus = getRegionProgress(all, "sigungu")
    OBVIOUS
  <1>5. PICK summary : summary = [days \in all |-> Summary(days)]
    OBVIOUS
  <1>6. PICK home : home = HomeMap({g.region : g \in areas}, {g.region : g \in sigungus})
    OBVIOUS
  <1>7. CountsAgree(all, summary, areas, sigungus)
    BY <1>2, <1>3, <1>4, <1>5, CollectionCounts
  <1>8. {g.region[1] : g \in areas} = UNION {summary[days].areas : days \in all}
    BY <1>2, <1>3, <1>5, CollectionAreas
  <1>9. MapAgrees(all, home)
    BY <1>2, <1>3, <1>4, <1>6, CollectionMap
  <1>10. ASSUME NEW days \in all
         PROVE  RowAgrees(mapLocalRecordToDisplay(days), summary[days], areas)
    <2>1. summary[days] = Summary(days)
      BY <1>5
    <2>2. PICK r : days # <<>> /\ RecordOK(r, days, emptied)
      BY <1>2 DEF Collection
    <2>3. /\ Len(mapLocalRecordToDisplay(days).days) = Summary(days).dayCount
          /\ mapLocalRecordToDisplay(days).photo \in {None, Summary(days).cover}
      BY <2>2, RecordDisplay
    <2>4. ~Before(Summary(days).endDate, Summary(days).startDate)
      BY <2>2, RecordDates
    <2>5. \A g \in areas : g.region[1] \in Summary(days).areas =>
             ~Before(Summary(days).endDate, g.first) /\ ~Before(g.last, Summary(days).startDate)
      BY <1>2, <1>3, RegionDates
    <2>6. PICK row : row = Summary(days)
      OBVIOUS
    <2>7. PICK display : display = mapLocalRecordToDisplay(days)
      OBVIOUS
    <2>8. RowAgrees(display, row, areas)
      BY <2>3, <2>4, <2>5, <2>6, <2>7 DEF RowAgrees
    <2>9. QED
      BY <2>1, <2>6, <2>7, <2>8
  <1>11. QED
    BY <1>1, <1>3, <1>4, <1>5, <1>6, <1>7, <1>8, <1>9, <1>10, Zenon DEF ListsAgree

(***************************************************************************)
(* Every record that the pages make and change together is sound, the       *)
(* repository refuses only a change of a deleted record, and the lists and  *)
(* the map of the home page agree with the records.  A change keeps the     *)
(* rest of the copy it was made from, and that copy is the stored record    *)
(* unless, when it was asked for, another change of the record was under    *)
(* way or one had ended since its page last read it (saveLocalRecordDraft,  *)
(* updateRecordPlace, removeRecordPhoto, localRecordRepository, the         *)
(* invalidation of the queries).                                            *)
(***************************************************************************)
THEOREM RecordsSound == Spec => []RecordsAreSound
  <1>1. ASSUME RecordsIInv
        PROVE  RecordsAreSound
    <2>1. RecordsFit
      BY <1>1, RecordsParts
    <2>2. ASSUME NEW r \in Records, Exists(r)
          PROVE  Sound(records[r])
      <3>1. RecordOK(r, records[r], emptied)
        BY <2>1, <2>2 DEF RecordsFit, StoredFits, StoredIn, Exists
      <3>2. QED
        BY <3>1, SoundRecord
    <2>3. ASSUME NEW k \in DOMAIN writes
          PROVE  /\ KeepsTheRest(writes[k])
                 /\ AtHead(k) /\ ~writes[k].behind => writes[k].copy = records[writes[k].record]
      BY <2>1 DEF RecordsFit, QueueFits, WriteFits, AtHead
    <2>4. refused \subseteq {"not found"}
      BY <2>1 DEF RecordsFit
    <2>5. QED
      BY <2>1, <2>2, <2>3, <2>4, AgreedLists DEF RecordsAreSound
  <1>2. QED
    BY <1>1, RecordsInit, RecordsStep, PTL DEF Spec
=============================================================================
