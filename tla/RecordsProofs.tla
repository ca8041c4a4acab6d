---------------------------- MODULE RecordsProofs ----------------------------
(***************************************************************************)
(* Proofs about Records, for any sets of users, records, photos, places    *)
(* and KTO contents, any quota and any finite number of requests.          *)
(***************************************************************************)
EXTENDS Records, FiniteSetTheorems, TLAPS

(***************************************************************************)
(* Lists in an order, and counting.                                        *)
(***************************************************************************)
\* B[x] is what precedes x in a strict order of finite set S.
IsOrder(S, B) ==
    /\ IsFiniteSet(S) /\ B \in [S -> SUBSET S]
    /\ \A x \in S : x \notin B[x]
    /\ \A x, y \in S : x # y => x \in B[y] \/ y \in B[x]
    /\ \A x, y, z \in S : x \in B[y] /\ y \in B[z] => x \in B[z]

\* The n-th member of s is the one that n - 1 members precede, if there is one.
ByRank(S, B, s) ==
    \A n \in 1..Cardinality(S) :
        (\E x \in S : Cardinality(B[x]) = n - 1) => s[n] \in S /\ Cardinality(B[s[n]]) = n - 1

InOrderOf(S, B, s) ==
    /\ Cardinality(S) \in Nat
    /\ \A n \in 1..Cardinality(S) : s[n] \in S
    /\ \A m, n \in 1..Cardinality(S) : m < n <=> s[m] \in B[s[n]]
    /\ \A x \in S : \E n \in 1..Cardinality(S) : s[n] = x

LEMMA Ranks ==
  ASSUME NEW S, NEW B, IsOrder(S, B)
  PROVE  /\ \A x \in S : IsFiniteSet(B[x]) /\ Cardinality(B[x]) \in 0..(Cardinality(S) - 1)
         /\ \A x, y \in S : x \in B[y] <=> Cardinality(B[x]) < Cardinality(B[y])
         /\ \A n \in 1..Cardinality(S) : \E x \in S : Cardinality(B[x]) = n - 1
  <1> DEFINE rank == [x \in S |-> Cardinality(B[x])]
             N == 0..(Cardinality(S) - 1)
  <1> USE DEF IsOrder
  <1>1. Cardinality(S) \in Nat
    BY FS_CardinalityType
  <1>2. ASSUME NEW x \in S
        PROVE  IsFiniteSet(B[x]) /\ Cardinality(B[x]) \in N
    <2>1. B[x] \in SUBSET S /\ B[x] # S
      OBVIOUS
    <2>2. IsFiniteSet(B[x]) /\ Cardinality(B[x]) <= Cardinality(S) /\ Cardinality(B[x]) # Cardinality(S)
      BY <2>1, FS_Subset
    <2>3. Cardinality(B[x]) \in Nat
      BY <2>2, FS_CardinalityType
    <2>4. QED
      BY <1>1, <2>2, <2>3
  <1>3. ASSUME NEW x \in S, NEW y \in S, x \in B[y]
        PROVE  Cardinality(B[x]) < Cardinality(B[y])
    <2>1. B[x] \in SUBSET B[y] /\ B[x] # B[y]
      BY <1>3
    <2>2. Cardinality(B[x]) <= Cardinality(B[y]) /\ Cardinality(B[x]) # Cardinality(B[y])
      BY <2>1, <1>2, FS_Subset
    <2>3. QED
      BY <2>2, <1>2, <1>1
  <1>4. \A x, y \in S : x \in B[y] <=> Cardinality(B[x]) < Cardinality(B[y])
    <2> SUFFICES ASSUME NEW x \in S, NEW y \in S, Cardinality(B[x]) < Cardinality(B[y])
                 PROVE  x \in B[y]
      BY <1>3
    <2>1. x # y /\ ~(Cardinality(B[y]) < Cardinality(B[x]))
      BY <1>1, <1>2
    <2>2. QED
      BY <2>1, <1>3
  <1>5. rank \in Injection(S, N)
    <2>1. rank \in [S -> N]
      BY <1>2
    <2>2. ASSUME NEW x \in S, NEW y \in S, rank[x] = rank[y]
          PROVE  x = y
      <3>1. ~(Cardinality(B[x]) < Cardinality(B[y])) /\ ~(Cardinality(B[y]) < Cardinality(B[x]))
        BY <1>1, <1>2, <2>2
      <3>2. QED
        BY <3>1, <1>4
    <2>3. QED
      BY <2>1, <2>2 DEF Injection, IsInjective
  <1>6. IsFiniteSet(N) /\ Cardinality(N) = Cardinality(S)
    BY <1>1, FS_Interval
  <1>7. rank \in Surjection(S, N)
    BY <1>5, <1>6, FS_Injection
  <1>8. ASSUME NEW n \in 1..Cardinality(S)
        PROVE  \E x \in S : Cardinality(B[x]) = n - 1
    <2>1. n - 1 \in N
      BY <1>1
    <2>2. \E x \in S : rank[x] = n - 1
      BY <2>1, <1>7 DEF Surjection
    <2>3. QED
      BY <2>2
  <1>9. QED
    BY <1>2, <1>4, <1>8

LEMMA RankedList ==
  ASSUME NEW S, NEW B, NEW s, IsOrder(S, B), ByRank(S, B, s)
  PROVE  InOrderOf(S, B, s)
  <1>1. /\ \A x \in S : IsFiniteSet(B[x]) /\ Cardinality(B[x]) \in 0..(Cardinality(S) - 1)
        /\ \A x, y \in S : x \in B[y] <=> Cardinality(B[x]) < Cardinality(B[y])
        /\ \A n \in 1..Cardinality(S) : \E x \in S : Cardinality(B[x]) = n - 1
    BY Ranks
  <1>2. Cardinality(S) \in Nat
    BY FS_CardinalityType DEF IsOrder
  <1>3. \A n \in 1..Cardinality(S) : s[n] \in S /\ Cardinality(B[s[n]]) = n - 1
    BY <1>1 DEF ByRank
  <1>4. ASSUME NEW m \in 1..Cardinality(S), NEW n \in 1..Cardinality(S)
        PROVE  m < n <=> s[m] \in B[s[n]]
    <2>1. s[m] \in B[s[n]] <=> Cardinality(B[s[m]]) < Cardinality(B[s[n]])
      BY <1>1, <1>3
    <2>2. QED
      BY <2>1, <1>2, <1>3
  <1>5. ASSUME NEW x \in S
        PROVE  \E n \in 1..Cardinality(S) : s[n] = x
    <2> DEFINE n == Cardinality(B[x]) + 1
    <2>1. n \in 1..Cardinality(S) /\ n - 1 = Cardinality(B[x])
      BY <1>1, <1>2
    <2> HIDE DEF n
    <2>2. s[n] \in S /\ Cardinality(B[s[n]]) = Cardinality(B[x])
      BY <2>1, <1>3
    <2>3. s[n] \notin B[x] /\ x \notin B[s[n]]
      BY <1>1, <2>1, <2>2, <1>2
    <2>4. s[n] = x
      BY <2>2, <2>3 DEF IsOrder
    <2>5. QED
      BY <2>1, <2>4
  <1>6. QED
    BY <1>2, <1>3, <1>4, <1>5 DEF InOrderOf

LEMMA AscendingList ==
  ASSUME NEW K \in SUBSET Nat, IsFiniteSet(K)
  PROVE  LET s == Ascending(K)
         IN  /\ Cardinality(K) \in Nat
             /\ s \in [1..Cardinality(K) -> K]
             /\ \A m, n \in 1..Cardinality(K) : m < n <=> s[m] < s[n]
             /\ \A k \in K : \E n \in 1..Cardinality(K) : s[n] = k
  <1> DEFINE B == [x \in K |-> {y \in K : y < x}]
             s == Ascending(K)
  <1>1. s = [n \in 1..Cardinality(K) |-> CHOOSE x \in K : Cardinality({y \in K : y < x}) = n - 1]
    BY DEF Ascending, Ordered
  <1>2. \A x \in K : B[x] = {y \in K : y < x}
    OBVIOUS
  <1>3. ByRank(K, B, s)
    <2> SUFFICES ASSUME NEW n \in 1..Cardinality(K), \E x \in K : Cardinality(B[x]) = n - 1
                 PROVE  s[n] \in K /\ Cardinality(B[s[n]]) = n - 1
      BY DEF ByRank
    <2> DEFINE P(x) == Cardinality({y \in K : y < x}) = n - 1
    <2>1. \E x \in K : P(x)
      BY <1>2
    <2>2. s[n] = CHOOSE x \in K : P(x)
      BY <1>1
    <2>3. s[n] \in K /\ P(s[n])
      BY <2>1, <2>2
    <2>4. QED
      BY <1>2, <2>3
  <1>4. IsOrder(K, B)
    BY DEF IsOrder
  <1>5. InOrderOf(K, B, s)
    <2> HIDE DEF B, s
    <2>1. QED
      BY <1>3, <1>4, RankedList
  <1>6. \A m, n \in 1..Cardinality(K) : m < n <=> s[m] < s[n]
    BY <1>5 DEF InOrderOf
  <1>7. s \in [1..Cardinality(K) -> K]
    BY <1>1, <1>5 DEF InOrderOf
  <1>8. QED
    BY <1>5, <1>6, <1>7 DEF InOrderOf

LEMMA UpTo ==
  ASSUME NEW n \in Nat
  PROVE  IsFiniteSet(1..n) /\ Cardinality(1..n) = n
  <1>1. IsFiniteSet(1..n) /\ Cardinality(1..n) = IF 1 > n THEN 0 ELSE n - 1 + 1
    BY FS_Interval
  <1>2. QED
    BY <1>1

LEMMA KeptList ==
  ASSUME NEW T, NEW s \in Seq(T), NEW K \in SUBSET DOMAIN s
  PROVE  LET at == Ascending(K)
         IN  /\ IsFiniteSet(K) /\ Cardinality(K) \in Nat /\ Cardinality(K) <= Len(s)
             /\ at \in [1..Cardinality(K) -> K]
             /\ \A m, n \in 1..Cardinality(K) : m < n <=> at[m] < at[n]
             /\ \A k \in K : \E n \in 1..Cardinality(K) : at[n] = k
             /\ Kept(s, K) \in Seq(T) /\ Len(Kept(s, K)) = Cardinality(K)
             /\ \A n \in 1..Cardinality(K) : Kept(s, K)[n] = s[at[n]]
             /\ Range(Kept(s, K)) = {s[k] : k \in K}
  <1> DEFINE at == Ascending(K)
  <1>1. DOMAIN s = 1..Len(s) /\ Len(s) \in Nat
    OBVIOUS
  <1>2. IsFiniteSet(K) /\ Cardinality(K) <= Len(s)
    <2>1. IsFiniteSet(1..Len(s)) /\ Cardinality(1..Len(s)) = Len(s)
      BY <1>1, UpTo
    <2>2. K \in SUBSET (1..Len(s))
      BY <1>1
    <2>3. QED
      BY <2>1, <2>2, FS_Subset
  <1>3. /\ Cardinality(K) \in Nat
        /\ at \in [1..Cardinality(K) -> K]
        /\ \A m, n \in 1..Cardinality(K) : m < n <=> at[m] < at[n]
        /\ \A k \in K : \E n \in 1..Cardinality(K) : at[n] = k
    BY <1>1, <1>2, AscendingList
  <1>4. Kept(s, K) = [n \in 1..Cardinality(K) |-> s[at[n]]]
    BY <1>3 DEF Kept
  <1> HIDE DEF at
  <1>5. \A n \in 1..Cardinality(K) : s[at[n]] \in T
    BY <1>1, <1>3
  <1>6. Kept(s, K) \in Seq(T) /\ Len(Kept(s, K)) = Cardinality(K)
    BY <1>3, <1>4, <1>5
  <1>7. Range(Kept(s, K)) = {s[k] : k \in K}
    BY <1>3, <1>4 DEF Range
  <1>8. QED
    BY <1>2, <1>3, <1>4, <1>6, <1>7 DEF at

LEMMA FirstList ==
  ASSUME NEW T, NEW s \in Seq(T), NEW n \in Nat
  PROVE  /\ First(n, s) \in Seq(T) /\ Len(First(n, s)) = SmallerOf(n, Len(s))
         /\ \A k \in 1..SmallerOf(n, Len(s)) : First(n, s)[k] = s[k]
         /\ Range(First(n, s)) \subseteq Range(s)
  <1> DEFINE m == SmallerOf(n, Len(s))
  <1>1. Len(s) \in Nat /\ m \in 0..Len(s) /\ DOMAIN s = 1..Len(s)
    BY DEF SmallerOf
  <1>2. First(n, s) = [k \in 1..m |-> s[k]]
    <2>1. First(n, s) = SubSeq(s, 1, m)
      BY DEF First
    <2>2. SubSeq(s, 1, m) = [k \in 1..m |-> s[k]]
      BY <1>1 
    <2>3. QED
      BY <2>1, <2>2
  <1>3. First(n, s) \in Seq(T) /\ Len(First(n, s)) = m
    BY <1>1, <1>2
  <1>4. Range(First(n, s)) \subseteq Range(s)
    BY <1>1, <1>2 DEF Range
  <1>5. QED
    BY <1>2, <1>3, <1>4

LEMMA SameSize ==
  ASSUME NEW S, IsFiniteSet(S), NEW T, NEW f, \A x \in S : f[x] \in T,
         \A y \in T : \E x \in S : f[x] = y, \A x, y \in S : f[x] = f[y] => x = y
  PROVE  IsFiniteSet(T) /\ Cardinality(T) = Cardinality(S)
  <1> DEFINE g == [x \in S |-> f[x]]
  <1>1. g \in Bijection(S, T)
    BY DEF Bijection, Injection, Surjection, IsInjective
  <1>2. ExistsBijection(S, T)
    BY <1>1 DEF ExistsBijection
  <1>3. QED
    BY <1>2, FS_Bijection

LEMMA ImageIsFinite ==
  ASSUME NEW S, IsFiniteSet(S), NEW T, NEW f, \A y \in T : \E x \in S : f[x] = y
  PROVE  IsFiniteSet(T)
  <1> DEFINE K == {x \in S : f[x] \in T}
             g == [x \in K |-> f[x]]
  <1>1. IsFiniteSet(K)
    BY FS_Subset
  <1>2. g \in Surjection(K, T)
    BY DEF Surjection
  <1>3. QED
    BY <1>1, <1>2, FS_Surjection

\* The F[x] divide U, and P has a pair for each member of each of them.
AreParts(F, S, U) ==
    /\ IsFiniteSet(U) /\ \A x \in S : IsFiniteSet(F[x])
    /\ \A x, y \in S : x # y => F[x] \cap F[y] = {}
    /\ \A y : y \in U <=> \E x \in S : y \in F[x]
ArePairs(P, F, S) == \A z : z \in P <=> \E x \in S : \E i \in 1..Cardinality(F[x]) : z = <<x, i>>

\* A total over the parts of a set counts the set.
LEMMA TotalOfParts ==
  ASSUME NEW S, NEW F, NEW U, AreParts(F, S, U), NEW P, ArePairs(P, F, S)
  PROVE  Cardinality(P) = Cardinality(U)
  <1> USE DEF AreParts, ArePairs
  <1> DEFINE e == [x \in S |-> CHOOSE b : b \in Bijection(1..Cardinality(F[x]), F[x])]
             f == [z \in P |-> e[z[1]][z[2]]]
  <1>1. ASSUME NEW x \in S
        PROVE  e[x] \in Bijection(1..Cardinality(F[x]), F[x])
    <2>1. ExistsBijection(1..Cardinality(F[x]), F[x])
      BY FS_CardinalityType
    <2>2. \E b : b \in Bijection(1..Cardinality(F[x]), F[x])
      BY <2>1 DEF ExistsBijection
    <2>3. QED
      BY <2>2
  <1> HIDE DEF e
  <1>2. ASSUME NEW x \in S
        PROVE  /\ \A i \in 1..Cardinality(F[x]) : e[x][i] \in F[x]
               /\ \A i, j \in 1..Cardinality(F[x]) : e[x][i] = e[x][j] => i = j
               /\ \A y \in F[x] : \E i \in 1..Cardinality(F[x]) : e[x][i] = y
    <2>1. PICK n : n = Cardinality(F[x])
      OBVIOUS
    <2>2. PICK T : T = F[x]
      OBVIOUS
    <2>3. PICK b : b = e[x]
      OBVIOUS
    <2>4. b \in Bijection(1..n, T)
      BY <1>1, <2>1, <2>2, <2>3
    <2>5. (\A i \in 1..n : b[i] \in T) /\ (\A i, j \in 1..n : b[i] = b[j] => i = j)
          /\ \A y \in T : \E i \in 1..n : b[i] = y
      BY <2>4 DEF Bijection, Injection, Surjection, IsInjective
    <2>6. QED
      BY <2>1, <2>2, <2>3, <2>5
  <1>3. \A x \in S : \A i \in 1..Cardinality(F[x]) : <<x, i>> \in P /\ f[<<x, i>>] = e[x][i]
    OBVIOUS
  <1>4. \A z \in P : \E x \in S : \E i \in 1..Cardinality(F[x]) : z = <<x, i>> /\ f[z] = e[x][i]
    BY <1>3
  <1>5. f = [z \in P |-> f[z]]
    OBVIOUS
  <1> HIDE DEF f
  <1>6. \A z \in P : f[z] \in U
    BY <1>2, <1>4
  <1>7. \A y \in U : \E z \in P : f[z] = y
    <2> SUFFICES ASSUME NEW y \in U
                 PROVE  \E z \in P : f[z] = y
      OBVIOUS
    <2>1. PICK x \in S : y \in F[x]
      OBVIOUS
    <2>2. PICK i \in 1..Cardinality(F[x]) : e[x][i] = y
      BY <1>2, <2>1
    <2>3. <<x, i>> \in P /\ f[<<x, i>>] = y
      BY <1>3, <2>2
    <2>4. QED
      BY <2>3
  <1>8. ASSUME NEW z \in P, NEW w \in P, f[z] = f[w]
        PROVE  z = w
    <2>1. PICK x \in S : \E i \in 1..Cardinality(F[x]) : z = <<x, i>> /\ f[z] = e[x][i]
      BY <1>4
    <2>2. PICK i \in 1..Cardinality(F[x]) : z = <<x, i>> /\ f[z] = e[x][i]
      BY <2>1
    <2>3. PICK y \in S : \E j \in 1..Cardinality(F[y]) : w = <<y, j>> /\ f[w] = e[y][j]
      BY <1>4
    <2>4. PICK j \in 1..Cardinality(F[y]) : w = <<y, j>> /\ f[w] = e[y][j]
      BY <2>3
    <2>5. f[z] \in F[x] /\ f[w] \in F[y]
      BY <1>2, <2>2, <2>4
    <2>6. x = y
      BY <1>8, <2>5
    <2>7. i = j
      BY <1>2, <1>8, <2>2, <2>4, <2>6
    <2>8. QED
      BY <2>2, <2>4, <2>6, <2>7
  <1>9. f \in Injection(P, U) /\ f \in Surjection(P, U)
    BY <1>5, <1>6, <1>7, <1>8 DEF Injection, Surjection, IsInjective
  <1>10. QED
    BY <1>9, FS_Injection

(***************************************************************************)
(* From here on, what is assumed of the constants is used.                 *)
(***************************************************************************)
USE RecordsAssumption, NoneAssumption

(***************************************************************************)
(* A request that moves.                                                   *)
(***************************************************************************)
LEMMA DoneOK ==
  ASSUME NEW a \in Answers
  PROVE  Done(a) \in Task /\ TaskOK(Done(a)) /\ Done(a).pc = a /\ Done(a).op = None
         /\ a \notin {"stamp", "lock", "rows", "verify"}
  <1>1. Done(a) \in Task /\ Done(a).pc = a /\ Done(a).op = None
    BY DEF Done, Task
  <1>2. a \notin {"stamp", "lock", "rows", "verify"}
    BY DEF Answers
  <1>3. TaskOK(Done(a))
    BY <1>1, <1>2 DEF TaskOK, Ops, AfterCheck
  <1>4. QED
    BY <1>1, <1>2, <1>3

LEMMA InitIInv == Init => IInv
  <1> SUFFICES ASSUME Init PROVE IInv
    OBVIOUS
  <1>1. "200" \in Answers
    BY DEF Answers
  <1>2. TypeOK
    BY <1>1, DoneOK DEF Init, TypeOK
  <1>3. NoOrphans /\ PlacesAreDistinct /\ CodesAreVerified
    BY DEF Init, NoOrphans, PlacesAreDistinct, CodesAreVerified
  <1>4. TasksOK
    BY <1>1, DoneOK DEF Init, TasksOK
  <1>5. TransactionsOK /\ PlaceIds /\ LocksAreReleased
    BY <1>1, DoneOK DEF Init, TransactionsOK, PlaceIds, LocksAreReleased
  <1>6. QED
    BY <1>2, <1>3, <1>4, <1>5 DEF IInv, RowsAgree

(* What is known of the request that an action moves.                      *)
LEMMA Moving ==
  ASSUME IInv, NEW q \in Requests
  PROVE  /\ task[q] \in Task /\ TaskOK(task[q]) /\ TypeOK /\ task \in [Requests -> Task]
         /\ task[q].pc \notin {"stamp", "lock"} =>
                /\ \A l \in locks : l.by # q
                /\ \A e \in DOMAIN held : held[e] # q
  BY ZenonT(40) DEF IInv, RowsAgree, TypeOK, TasksOK, LocksAreReleased, At

(* A request without locks that only moves to a state h keeps the          *)
(* invariant when what h knows is true.                                    *)
LEMMA MoveStep ==
  ASSUME IInv, NEW q \in Requests, NEW h \in Task, TaskOK(h),
         task' = [task EXCEPT ![q] = h], UNCHANGED <<db, locks, held>>,
         task[q].pc \notin {"stamp", "lock"}, h.pc # "stamp"
  PROVE  IInv'
  <1> USE DEF db
  <1>1. /\ task' \in [Requests -> Task] /\ task'[q] = h
        /\ \A p \in Requests : p # q => task'[p] = task[p]
    BY Moving DEF TypeOK
  <1>2. TypeOK'
    BY <1>1 DEF IInv, RowsAgree, TypeOK
  <1>3. NoOrphans' /\ PlacesAreDistinct' /\ CodesAreVerified' /\ PlaceIds'
    BY DEF IInv, RowsAgree, NoOrphans, PlacesAreDistinct, CodesAreVerified, PlaceIds, Live
  <1>4. TasksOK'
    <2>1. ASSUME NEW p \in Requests PROVE TaskOK(task'[p])
      BY <1>1, Moving
    <2>2. QED
      BY <2>1 DEF TasksOK, TaskOK, CodesVerified
  <1>5. TransactionsOK'
    <2>1. \A l \in locks : l.by \in Requests /\ l.by # q
      BY Moving DEF TypeOK
    <2>2. \A l \in locks' : l.mode = IF task'[l.by].pc = "stamp" THEN "key share" ELSE "update"
      BY <1>1, <2>1 DEF IInv, TransactionsOK
    <2>3. ASSUME NEW p \in Requests, task'[p].pc = "stamp"
          PROVE  /\ task'[p].op = "upsertEntry" /\ task'[p].record \in Live'
                 /\ EntryHolder(task[p].record, task[p].day)' = p
      BY ZenonT(40), <1>1, <2>3 DEF IInv, TransactionsOK, EntryHolder, Live
    <2>4. QED
      BY <2>2, <2>3 DEF TransactionsOK
  <1>6. LocksAreReleased'
    BY ZenonT(40), <1>1, Moving DEF IInv, LocksAreReleased, At, RowsAgree, TypeOK
  <1>7. QED
    BY <1>2, <1>3, <1>4, <1>5, <1>6 DEF IInv, RowsAgree

(* A request without locks that is answered.                               *)
LEMMA AnswerStep ==
  ASSUME IInv, NEW q \in Requests, NEW a \in Answers, Answer(q, a),
         UNCHANGED <<db, locks, held>>, task[q].pc \notin {"stamp", "lock"}
  PROVE  IInv'
  BY DoneOK, MoveStep DEF Answer

At1(h, pc) == [h EXCEPT !.pc = pc]

LEMMA GotoMoves ==
  ASSUME IInv, NEW q \in Requests, NEW pc \in Places, Goto(q, pc)
  PROVE  /\ At1(task[q], pc) \in Task
         /\ task' = [task EXCEPT ![q] = At1(task[q], pc)]
  <1>1. task[q] \in Task
    BY Moving
  <1>2. At1(task[q], pc) \in Task
    BY <1>1 DEF At1, Task
  <1>3. QED
    BY <1>2 DEF Goto, At1

(***************************************************************************)
(* Steps that change no table and no lock.                                 *)
(***************************************************************************)
LEMMA SentStep ==
  ASSUME IInv, NEW q \in Requests, Idle(q), UNCHANGED <<db, locks, held>>,
         NEW op \in Ops, NEW pc \in Places, NEW u \in Users, NEW r \in Records \cup {None},
         NEW d \in Days \cup {None}, NEW i \in Photos \cup Visits \cup {None},
         NEW c \in Contents \cup {None}, Sent(q, op, pc, u, r, d, i, c),
         \/ pc \in {"insert", "find", "set", "remove"}
         \/ pc = "rows" /\ op \in {"delete", "deleteAll"}
         \/ pc = "verify" /\ op = "updatePlace"
         \/ pc = "store" /\ op = "updatePlace" /\ c = None,
         op \notin {"create", "deleteAll"} => r # None /\ owner[r] # "new",
         op \in {"upsertEntry", "deleteEntry", "addPhoto", "addPlace"} => d # None,
         op = "addPlace" => c # None, op = "deletePhoto" => i # None
  PROVE  IInv'
  <1> DEFINE h == [Done("200") EXCEPT !.op = op, !.pc = pc, !.user = u, !.record = r,
                                      !.day = d, !.item = i, !.content = c]
  <1>1. /\ h.op = op /\ h.pc = pc /\ h.user = u /\ h.record = r /\ h.day = d
        /\ h.item = i /\ h.content = c /\ h.rows = {}
    BY DEF Done
  <1>2. h \in Task
    BY DEF Done, Task
  <1>3. TaskOK(h)
    BY <1>1 DEF TaskOK, Ops, AfterCheck
  <1>4. task[q].pc \notin {"stamp", "lock"} /\ h.pc # "stamp"
    BY <1>1 DEF Idle, Answers
  <1>5. task' = [task EXCEPT ![q] = h]
    BY DEF Sent
  <1> HIDE DEF h
  <1>6. QED
    BY <1>2, <1>3, <1>4, <1>5, MoveStep

LEMMA ArriveStep ==
  ASSUME IInv, NEW q \in Requests, Arrive(q)
  PROVE  IInv'
  <1>1. Idle(q) /\ UNCHANGED <<db, locks, held>>
    BY DEF Arrive, NoLocks
  <1>2. PICK u \in Users :
        \/ Sent(q, "create", "insert", u, None, None, None, None)
        \/ Sent(q, "deleteAll", "rows", u, None, None, None, None)
        \/ \E r \in {x \in Records : owner[x] # "new"} :
            \/ Sent(q, "get", "find", u, r, None, None, None)
            \/ Sent(q, "update", "set", u, r, None, None, None)
            \/ Sent(q, "delete", "rows", u, r, None, None, None)
            \/ \E d \in Days :
                \/ Sent(q, "upsertEntry", "find", u, r, d, None, None)
                \/ Sent(q, "deleteEntry", "remove", u, r, d, None, None)
                \/ Sent(q, "addPhoto", "find", u, r, d, None, None)
                \/ \E c \in Contents : Sent(q, "addPlace", "find", u, r, d, None, c)
                \/ \E i \in used \cap Photos :
                    \/ Sent(q, "get", "find", u, r, d, i, None)
                    \/ Sent(q, "deletePhoto", "remove", u, r, d, i, None)
            \/ \E i \in used \cap Visits :
                \/ Sent(q, "deletePlace", "remove", u, r, None, i, None)
                \/ \E d \in Days : Sent(q, "updatePlace", "store", u, r, d, i, None)
                \/ \E d \in Days \cup {None}, c \in Contents :
                       Sent(q, "updatePlace", "verify", u, r, d, i, c)
    BY DEF Arrive
  <1> USE DEF Ops, Places
  <1>3. CASE \/ Sent(q, "create", "insert", u, None, None, None, None)
             \/ Sent(q, "deleteAll", "rows", u, None, None, None, None)
    BY <1>1, <1>3, SentStep
  <1>4. ASSUME NEW r \in Records, owner[r] # "new",
               \/ Sent(q, "get", "find", u, r, None, None, None)
               \/ Sent(q, "update", "set", u, r, None, None, None)
               \/ Sent(q, "delete", "rows", u, r, None, None, None)
        PROVE  IInv'
    BY <1>1, <1>4, SentStep
  <1>5. ASSUME NEW r \in Records, owner[r] # "new", NEW d \in Days,
               \/ Sent(q, "upsertEntry", "find", u, r, d, None, None)
               \/ Sent(q, "deleteEntry", "remove", u, r, d, None, None)
               \/ Sent(q, "addPhoto", "find", u, r, d, None, None)
        PROVE  IInv'
    BY <1>1, <1>5, SentStep
  <1>6. ASSUME NEW r \in Records, owner[r] # "new", NEW d \in Days, NEW c \in Contents,
               Sent(q, "addPlace", "find", u, r, d, None, c)
        PROVE  IInv'
    BY <1>1, <1>6, SentStep
  <1>7. ASSUME NEW r \in Records, owner[r] # "new", NEW d \in Days, NEW i \in Photos,
               \/ Sent(q, "get", "find", u, r, d, i, None)
               \/ Sent(q, "deletePhoto", "remove", u, r, d, i, None)
        PROVE  IInv'
    BY <1>1, <1>7, SentStep
  <1>8. ASSUME NEW r \in Records, owner[r] # "new", NEW i \in Visits,
               \/ Sent(q, "deletePlace", "remove", u, r, None, i, None)
               \/ \E d \in Days : Sent(q, "updatePlace", "store", u, r, d, i, None)
        PROVE  IInv'
    BY <1>1, <1>8, SentStep
  <1>9. ASSUME NEW r \in Records, owner[r] # "new", NEW i \in Visits,
               NEW d \in Days \cup {None}, NEW c \in Contents,
               Sent(q, "updatePlace", "verify", u, r, d, i, c)
        PROVE  IInv'
    <2> HIDE DEF Ops, Places
    <2>1. "updatePlace" \in Ops /\ "verify" \in Places
      BY DEF Ops, Places
    <2>2. i \in Photos \cup Visits \cup {None} /\ c \in Contents \cup {None}
      OBVIOUS
    <2>3. r \in Records \cup {None} /\ r # None /\ owner[r] # "new"
      BY <1>9
    <2>4. QED
      BY <1>1, <1>9, <2>1, <2>2, <2>3, SentStep, Zenon
  <1>10. QED
    BY <1>2, <1>3, <1>4, <1>5, <1>6, <1>7, <1>8, <1>9

(* Steps that answer and change nothing.                                   *)
LEMMA ReadStep ==
  ASSUME IInv, NEW q \in Requests,
         Get(q) \/ Reread(q) \/ RefuseUpload(q) \/ RereadPlace(q)
  PROVE  IInv'
  <1> USE DEF At, Answers, NoLocks
  <1>1. CASE Get(q)
    BY <1>1, AnswerStep DEF Get
  <1>2. CASE Reread(q)
    BY <1>2, AnswerStep DEF Reread
  <1>3. CASE RefuseUpload(q)
    BY <1>3, AnswerStep DEF RefuseUpload
  <1>4. CASE RereadPlace(q)
    BY <1>4, AnswerStep DEF RereadPlace
  <1>5. QED
    BY <1>1, <1>2, <1>3, <1>4

(* A check of the owner, before which the request has no lock.             *)
LEMMA CheckStep ==
  ASSUME IInv, NEW q \in Requests, NEW pc \in Places, UNCHANGED <<db, locks, held>>,
         task[q].pc \notin {"stamp", "lock"}, task[q].op # None,
         Owns(task[q].user, task[q].record), Goto(q, pc),
         TaskOK(At1(task[q], pc)), pc # "stamp"
  PROVE  IInv'
  <1>1. At1(task[q], pc) \in Task /\ task' = [task EXCEPT ![q] = At1(task[q], pc)]
    BY GotoMoves
  <1>2. At1(task[q], pc).pc = pc
    BY Moving DEF At1, Task
  <1> HIDE DEF At1
  <1>3. QED
    BY <1>1, <1>2, MoveStep

LEMMA OwnerChecks ==
  ASSUME IInv, NEW q \in Requests,
         Update(q) \/ UpsertFind(q) \/ OwnsPhotoRecord(q) \/ FindPlaces(q) \/ OwnsPlaceRecord(q)
  PROVE  IInv'
  <1> DEFINE t == task[q]
             next == CASE t.op = "update" -> "reread" [] t.op = "upsertEntry" -> "upsert"
                       [] t.op = "addPhoto" -> "store" [] t.op = "addPlace" /\ t.pc = "find" -> "verify"
                       [] OTHER -> "store"
  <1>1. /\ UNCHANGED <<db, locks, held>>
        /\ t.pc \in {"set", "find", "own"} /\ t.op \in {"update", "upsertEntry", "addPhoto", "addPlace"}
        /\ t.op = "addPhoto" => t.pc = "own"
        /\ t.op = "addPlace" => t.pc \in {"find", "own"}
        /\ t.op \in {"update", "upsertEntry"} => t.pc \in {"set", "find"}
        /\ (Owns(t.user, t.record) /\ Goto(q, next)) \/ Answer(q, "404")
    BY DEF Update, UpsertFind, OwnsPhotoRecord, FindPlaces, OwnsPlaceRecord, At, NoLocks
  <1>2. t \in Task /\ TaskOK(t)
    BY Moving
  <1>3. CASE Answer(q, "404")
    BY <1>1, <1>3, AnswerStep DEF Answers
  <1>4. CASE Owns(t.user, t.record) /\ Goto(q, next)
    <2> DEFINE h == At1(t, next)
    <2>1. next \in Places /\ next # "stamp"
      BY <1>1 DEF Places
    <2>2. /\ h.op = t.op /\ h.pc = next /\ h.user = t.user /\ h.record = t.record /\ h.day = t.day
          /\ h.content = t.content /\ h.item = t.item /\ h.left = t.left /\ h.room = t.room
          /\ h.codes = t.codes /\ h.rows = t.rows
      BY <1>2 DEF At1, Task
    <2>3. t.user \in Users /\ t.user # None /\ t.record \in Records /\ owner[t.record] = t.user
      <3>1. t.record \in Records /\ owner[t.record] = t.user
        BY <1>2, <1>4 DEF Owns, Task
      <3>2. t.user \in Users \cup {None}
        BY <1>2 DEF Task
      <3> HIDE DEF t
      <3>3. owner[t.record] \in Users \cup {"new", "deleted"}
        BY <3>1, Moving DEF TypeOK
      <3>4. QED
        BY <3>1, <3>2, <3>3
    <2>4. TaskOK(h)
      BY ZenonT(40), <1>1, <1>2, <2>2, <2>3 DEF TaskOK, Ops, AfterCheck, CodesVerified
    <2>5. t.op # None /\ t.pc \notin {"stamp", "lock"}
      BY <1>1 DEF Ops
    <2> HIDE DEF next
    <2>6. QED
      BY <1>1, <1>4, <2>1, <2>4, <2>5, CheckStep
  <1>5. QED
    BY <1>1, <1>3, <1>4

(* The measures of the quota, the inspection, and the answer of KTO.       *)
LEMMA UploadStep ==
  ASSUME IInv, NEW q \in Requests, FindUsage(q) \/ Measure(q) \/ Inspect(q)
  PROVE  IInv'
  <1>1. task[q] \in Task /\ TaskOK(task[q]) /\ task \in [Requests -> Task]
    BY Moving
  <1>2. UNCHANGED <<db, locks, held>> /\ At(q, "addPhoto", task[q].pc)
        /\ task[q].pc \in {"find", "measure", "inspect"}
    BY DEF FindUsage, Measure, Inspect, NoLocks, At
  <1>3. task[q].pc \notin {"stamp", "lock"}
    BY <1>2
  <1>4. ASSUME Answer(q, "404") \/ Answer(q, "413") \/ Answer(q, "400") PROVE IInv'
    BY <1>2, <1>3, <1>4, AnswerStep DEF Answers
  <1>5. CASE FindUsage(q)
    <2>1. SUFFICES ASSUME Owns(task[q].user, task[q].record),
                          task' = [task EXCEPT ![q].pc = "measure", ![q].left = {"count", "sum"}]
                   PROVE  IInv'
      BY <1>4, <1>5 DEF FindUsage
    <2> DEFINE h == [task[q] EXCEPT !.pc = "measure", !.left = {"count", "sum"}]
    <2>2. h \in Task
      BY <1>1 DEF Task, Places
    <2>3. task' = [task EXCEPT ![q] = h]
      BY <1>1, <2>1, <2>2
    <2>4. /\ h.op = "addPhoto" /\ h.pc = "measure" /\ h.record = task[q].record
          /\ h.user = task[q].user /\ h.day = task[q].day /\ h.left = {"count", "sum"}
      BY <1>1, <1>2 DEF At, Task
    <2>5. task[q].user \in Users /\ owner[task[q].record] = task[q].user
      <3>1. task[q].record \in Records /\ owner[task[q].record] = task[q].user
        BY <1>1, <2>1 DEF Owns, Task
      <3>2. owner[task[q].record] \in Users \cup {"new", "deleted"}
        BY <3>1, Moving DEF TypeOK
      <3>3. task[q].user \in Users \cup {None}
        BY <1>1 DEF Task
      <3>4. QED
        BY <3>1, <3>2, <3>3
    <2>6. TaskOK(h)
      BY <1>1, <1>2, <2>4, <2>5 DEF TaskOK, AfterCheck, At, Ops
    <2> HIDE DEF h
    <2>7. QED
      BY <1>2, <1>3, <2>2, <2>3, <2>4, <2>6, MoveStep
  <1>6. CASE Measure(q)
    <2>1. PICK m \in task[q].left :
            task' = [task EXCEPT ![q].room = @ /\ Room(task[q], m), ![q].left = @ \ {m},
                                 ![q].pc = IF task[q].left = {m} THEN "inspect" ELSE @]
      BY <1>6 DEF Measure
    <2> DEFINE pc == IF task[q].left = {m} THEN "inspect" ELSE task[q].pc
               room == task[q].room /\ Room(task[q], m)
               h == [task[q] EXCEPT !.room = room, !.left = task[q].left \ {m}, !.pc = pc]
    <2>2. room \in BOOLEAN /\ pc \in Places
      BY <1>2 DEF Places
    <2>3. task' = [task EXCEPT ![q].room = room, ![q].left = @ \ {m}, ![q].pc = pc]
      BY <2>1
    <2>4. task[q].pc = "measure" /\ pc \in {"measure", "inspect"}
          /\ (pc = "inspect" => task[q].left \ {m} = {})
      BY <1>6 DEF Measure, At
    <2> HIDE DEF pc, room
    <2>5. h \in Task
      BY <1>1, <2>2 DEF Task
    <2>6. task' = [task EXCEPT ![q] = h]
      BY <1>1, <2>3, <2>5
    <2>7. /\ h.op = "addPhoto" /\ h.pc = pc /\ h.record = task[q].record
          /\ h.user = task[q].user /\ h.day = task[q].day /\ h.left = task[q].left \ {m}
      BY <1>1, <1>2 DEF At, Task
    <2>8. TaskOK(h)
      BY <1>1, <1>2, <2>7, <2>4 DEF TaskOK, AfterCheck, At, Ops
    <2>9. h.pc # "stamp"
      BY <2>7, <2>4
    <2> HIDE DEF h
    <2>10. QED
      BY <1>2, <1>3, <2>5, <2>6, <2>8, <2>9, MoveStep
  <1>7. CASE Inspect(q)
    <2>1. SUFFICES ASSUME task[q].room, Goto(q, "own") PROVE IInv'
      BY <1>4, <1>7 DEF Inspect
    <2>2. At1(task[q], "own") \in Task /\ task' = [task EXCEPT ![q] = At1(task[q], "own")]
      BY <2>1, GotoMoves DEF Places
    <2> DEFINE h == At1(task[q], "own")
    <2>3. /\ h.op = "addPhoto" /\ h.pc = "own" /\ h.record = task[q].record
          /\ h.user = task[q].user /\ h.day = task[q].day
          /\ h.left = task[q].left /\ h.room = task[q].room
      BY <1>1, <1>2 DEF At, Task, At1
    <2>4. task[q].pc = "inspect"
      BY <1>7 DEF Inspect, At
    <2> HIDE DEF h
    <2>5. TaskOK(h)
      BY <1>1, <1>2, <2>1, <2>3, <2>4 DEF TaskOK, AfterCheck, At, Ops
    <2>6. h \in Task /\ task' = [task EXCEPT ![q] = h]
      BY <2>2 DEF h
    <2>7. QED
      BY <1>2, <1>3, <2>3, <2>5, <2>6, MoveStep
  <1>8. QED
    BY <1>5, <1>6, <1>7

LEMMA DetailCodesAre ==
  ASSUME NEW c
  PROVE  /\ DetailCodes(c) \subseteq {"ok", "404", "502", "503", "504"}
         /\ "ok" \in DetailCodes(c) => c \in DOMAIN KtoItems /\ parseListItem(c)
  BY DEF DetailCodes, findDetail, request

LEMMA VerifyStep ==
  ASSUME IInv, NEW q \in Requests, Verify(q)
  PROVE  IInv'
  <1>1. task[q] \in Task /\ TaskOK(task[q]) /\ task \in [Requests -> Task]
    BY Moving
  <1>2. UNCHANGED <<db, locks, held>> /\ task[q].pc = "verify"
        /\ task[q].op \in {"addPlace", "updatePlace"}
    BY <1>1 DEF Verify, NoLocks, TaskOK
  <1>3. PICK code \in DetailCodes(task[q].content) :
          IF code = "ok"
          THEN task' = [task EXCEPT ![q].codes = resolveKtoRegionCodes(KtoItems[task[q].content]),
                                    ![q].pc = IF task[q].op = "addPlace" THEN "own" ELSE "store"]
          ELSE Answer(q, code)
    BY DEF Verify
  <1>4. CASE code # "ok"
    <2>1. code \in Answers
      BY <1>4, DetailCodesAre DEF Answers
    <2>2. QED
      BY <1>2, <1>3, <1>4, <2>1, AnswerStep
  <1>5. CASE code = "ok"
    <2> DEFINE pc == IF task[q].op = "addPlace" THEN "own" ELSE "store"
               codes == resolveKtoRegionCodes(KtoItems[task[q].content])
    <2>1. task[q].content \in DOMAIN KtoItems /\ parseListItem(task[q].content) /\ codes \in Codes
      BY <1>5, DetailCodesAre DEF Codes
    <2>2. pc \in Places /\ pc \in {"own", "store"}
      BY DEF Places
    <2>3. task' = [task EXCEPT ![q].codes = codes, ![q].pc = pc]
      BY <1>3, <1>5
    <2>4. pc = "own" <=> task[q].op = "addPlace"
      OBVIOUS
    <2>5. codes = resolveKtoRegionCodes(KtoItems[task[q].content])
      OBVIOUS
    <2> HIDE DEF pc, codes
    <2> DEFINE h == [task[q] EXCEPT !.codes = codes, !.pc = pc]
    <2>6. h \in Task
      BY <1>1, <2>1, <2>2 DEF Task
    <2>7. task' = [task EXCEPT ![q] = h]
      BY <1>1, <2>3, <2>6
    <2>8. /\ h.op = task[q].op /\ h.pc = pc /\ h.record = task[q].record /\ h.codes = codes
          /\ h.user = task[q].user /\ h.day = task[q].day /\ h.content = task[q].content
      BY <1>1 DEF Task
    <2>9. CodesVerified(h)
      BY <2>1, <2>5, <2>8 DEF CodesVerified
    <2>10. TaskOK(h)
      BY <1>1, <1>2, <2>2, <2>4, <2>8, <2>9 DEF TaskOK, AfterCheck, Ops
    <2> HIDE DEF h
    <2>11. QED
      BY <1>2, <2>2, <2>6, <2>7, <2>8, <2>10, MoveStep
  <1>6. QED
    BY <1>4, <1>5

(***************************************************************************)
(* Steps that end what a request holds: its answer, the last write of a    *)
(* transaction or a deletion, and an abortion.                             *)
(***************************************************************************)
Released(q) ==
    /\ locks' = {l \in locks : l.by # q}
    /\ held' = [e \in DOMAIN held |-> IF held[e] = q THEN None ELSE held[e]]

LEMMA NothingHeld ==
  ASSUME IInv, NEW q \in Requests, UNCHANGED <<locks, held>>, task[q].pc \notin {"stamp", "lock"}
  PROVE  Released(q)
  <1>1. /\ \A l \in locks : l.by # q
        /\ \A e \in DOMAIN held : held[e] # q
    BY Moving
  <1>2. held = [e \in DOMAIN held |-> held[e]]
    BY Moving DEF TypeOK
  <1>3. locks' = {l \in locks : l.by # q}
    BY <1>1
  <1>4. held' = [e \in DOMAIN held |-> IF held[e] = q THEN None ELSE held[e]]
    BY <1>1, <1>2
  <1>5. QED
    BY <1>3, <1>4 DEF Released

\* A step on the tables owns, deletes or makes records, and leaves those alone
\* that other transactions write to.
OwnersMove(q) ==
    /\ owner' \in [Records -> Users \cup {"new", "deleted"}]
    /\ \A r \in Records : owner[r] # "new" => owner'[r] \in {owner[r], "deleted"}
    /\ \A p \in Requests : p # q /\ task[p].pc = "stamp" =>
           owner'[task[p].record] = owner[task[p].record]

TablesHaveTypes ==
    /\ entries \in [Records -> SUBSET Days]
    /\ photos \subseteq [id : Photos, record : Records, day : Days]
    /\ places \subseteq [id : Visits, record : Records, content : Contents, day : Days,
                         area : {c.area : c \in Codes}, sigungu : {c.sigungu : c \in Codes}]
    /\ used \subseteq Photos \cup Visits

LEMMA TasksKept ==
  ASSUME IInv, NEW q \in Requests, NEW h \in Task, TaskOK(h),
         task' = [task EXCEPT ![q] = h], OwnersMove(q)
  PROVE  TasksOK'
  <1>1. /\ task'[q] = h /\ \A p \in Requests : p # q => task'[p] = task[p]
        /\ \A p \in Requests : task'[p] \in Task
    BY Moving DEF TypeOK
  <1>2. ASSUME NEW p \in Requests PROVE TaskOK(task[p])'
    <2>1. PICK t \in Task : t = task'[p]
      BY <1>1
    <2>2. TaskOK(t)
      BY <1>1, <2>1, Moving
    <2>3. t.record \in Records \cup {None} /\ t.user \in Users \cup {None}
      BY DEF Task
    <2>4. t.op \in DOMAIN AfterCheck => t.op \notin {None, "create", "deleteAll"}
      BY DEF AfterCheck, Ops
    <2>5. t.op \notin {None, "create", "deleteAll"} => t.record \in Records /\ owner'[t.record] # "new"
      BY <2>2, <2>3, NoneAssumption DEF TaskOK, OwnersMove
    <2>6. t.op \in DOMAIN AfterCheck /\ t.pc \in AfterCheck[t.op] =>
              t.user # None /\ owner'[t.record] \in {t.user, "deleted"}
      <3>1. ASSUME t.op \in DOMAIN AfterCheck /\ t.pc \in AfterCheck[t.op]
            PROVE  t.user # None /\ owner'[t.record] \in {t.user, "deleted"}
        <4>1. t.record \in Records /\ owner[t.record] # "new"
          BY <3>1, <2>2, <2>3, <2>4 DEF TaskOK
        <4>2. t.user # None /\ owner[t.record] \in {t.user, "deleted"}
          BY <3>1, <2>2 DEF TaskOK
        <4>3. QED
          BY <4>1, <4>2 DEF OwnersMove
      <3>2. QED
        BY <3>1
    <2>7. t.op = "delete" /\ t.pc = "lock" => t.record \in t.rows \/ owner'[t.record] = "deleted"
      <3>1. ASSUME t.op = "delete" /\ t.pc = "lock"
            PROVE  t.record \in t.rows \/ owner'[t.record] = "deleted"
        <4>1. t.op \notin {None, "create", "deleteAll"}
          BY <3>1 DEF Ops
        <4>2. t.record \in Records /\ owner[t.record] # "new"
          BY <4>1, <2>2, <2>3 DEF TaskOK
        <4>3. t.record \in t.rows \/ owner[t.record] = "deleted"
          BY <3>1, <2>2 DEF TaskOK
        <4>4. QED
          BY <4>2, <4>3 DEF OwnersMove
      <3>2. QED
        BY <3>1
    <2>8. QED
      BY <2>1, <2>2, <2>5, <2>6, <2>7 DEF TaskOK, CodesVerified
  <1>3. QED
    BY <1>2 DEF TasksOK

LEMMA Finish ==
  ASSUME IInv, NEW q \in Requests, NEW h \in Task, TaskOK(h), h.pc \notin {"stamp", "lock"},
         task' = [task EXCEPT ![q] = h], Released(q), OwnersMove(q), TablesHaveTypes',
         NoOrphans', PlacesAreDistinct', CodesAreVerified', PlaceIds'
  PROVE  IInv'
  <1>1. /\ task' \in [Requests -> Task] /\ task'[q] = h
        /\ \A p \in Requests : p # q => task'[p] = task[p]
    BY Moving DEF TypeOK
  <1>2. locks \subseteq [by : Requests, record : Records, mode : {"key share", "share", "update"}]
        /\ held \in [Records \X Days -> Requests \cup {None}]
    BY Moving DEF TypeOK
  <1>3. locks' \subseteq locks /\ \A l \in locks' : l.by # q /\ l.by \in Requests
    BY <1>2 DEF Released
  <1>4. held' \in [Records \X Days -> Requests \cup {None}]
        /\ \A e \in Records \X Days : held'[e] # None => held'[e] = held[e] /\ held[e] # q
    BY <1>2 DEF Released
  <1>5. TypeOK'
    BY <1>1, <1>2, <1>3, <1>4 DEF TypeOK, TablesHaveTypes, OwnersMove
  <1>6. TasksOK'
    BY TasksKept
  <1>7. TransactionsOK'
    <2>1. \A l \in locks' : l.mode = IF task'[l.by].pc = "stamp" THEN "key share" ELSE "update"
      BY <1>1, <1>3 DEF IInv, TransactionsOK
    <2>2. ASSUME NEW p \in Requests, task'[p].pc = "stamp"
          PROVE  /\ task'[p].op = "upsertEntry" /\ task'[p].record \in Live'
                 /\ held'[<<task'[p].record, task'[p].day>>] = p
      <3>1. p # q /\ task'[p] = task[p] /\ task[p].pc = "stamp"
        BY <1>1, <2>2
      <3>2. /\ task[p].op = "upsertEntry" /\ task[p].record \in Live
            /\ held[<<task[p].record, task[p].day>>] = p
        BY <3>1 DEF IInv, TransactionsOK, EntryHolder
      <3>3. task[p].day \in Days
        <4>1. task[p] \in Task /\ TaskOK(task[p])
          BY Moving
        <4>2. QED
          BY <3>2, <4>1 DEF TaskOK, Task
      <3>4. task[p].record \in Live'
        BY <3>1, <3>2 DEF Live, OwnersMove
      <3>5. <<task[p].record, task[p].day>> \in DOMAIN held
        BY <1>2, <3>2, <3>3 DEF Live
      <3>6. held'[<<task[p].record, task[p].day>>] = p
        BY <3>1, <3>2, <3>5 DEF Released
      <3>7. QED
        BY <3>1, <3>2, <3>4, <3>6
    <2>3. QED
      BY <2>1, <2>2 DEF TransactionsOK, EntryHolder
  <1>8. LocksAreReleased'
    <2>1. \A l \in locks' : task'[l.by].pc \in {"stamp", "lock"}
      BY <1>1, <1>3 DEF IInv, LocksAreReleased
    <2>2. ASSUME NEW e \in DOMAIN held', held'[e] # None
          PROVE  task'[held'[e]].op = "upsertEntry" /\ task'[held'[e]].pc = "stamp"
      <3>1. e \in Records \X Days
        BY <1>4, <2>2
      <3>2. held'[e] = held[e] /\ held[e] # q /\ held[e] \in Requests /\ held[e] # None
        BY <1>2, <1>4, <2>2, <3>1
      <3>3. At(held[e], "upsertEntry", "stamp")
        BY <1>2, <3>1, <3>2 DEF IInv, LocksAreReleased
      <3>4. QED
        BY <1>1, <3>2, <3>3 DEF At
    <2>3. QED
      BY <2>1, <2>2 DEF LocksAreReleased, At
  <1>9. QED
    BY <1>5, <1>6, <1>7, <1>8 DEF IInv, RowsAgree

\* The case of a step that leaves the records alone.
LEMMA OwnersStay ==
  ASSUME IInv, NEW q \in Requests, UNCHANGED owner
  PROVE  OwnersMove(q)
  BY Moving DEF TypeOK, OwnersMove

\* The case of a step that leaves photos and places alone.
LEMMA RowsStay ==
  ASSUME IInv, UNCHANGED <<owner, photos, places, used>>,
         entries' \in [Records -> SUBSET Days], \A r \in Records \ Live : entries'[r] = {}
  PROVE  TablesHaveTypes' /\ NoOrphans' /\ PlacesAreDistinct' /\ CodesAreVerified' /\ PlaceIds'
  <1>1. TypeOK /\ NoOrphans /\ PlacesAreDistinct /\ CodesAreVerified /\ PlaceIds
    BY DEF IInv, RowsAgree
  <1>2. Live' = Live
    BY DEF Live
  <1>3. TablesHaveTypes'
    BY <1>1 DEF TablesHaveTypes, TypeOK
  <1>4. NoOrphans'
    BY <1>1, <1>2 DEF NoOrphans
  <1>5. PlacesAreDistinct' /\ CodesAreVerified' /\ PlaceIds'
    BY <1>1 DEF PlacesAreDistinct, CodesAreVerified, PlaceIds
  <1>6. QED
    BY <1>3, <1>4, <1>5

LEMMA CreateStep ==
  ASSUME IInv, NEW q \in Requests, Create(q)
  PROVE  IInv'
  <1>1. task[q] \in Task /\ TaskOK(task[q]) /\ TypeOK
    BY Moving
  <1>2. task[q].op = "create" /\ task[q].pc = "insert" /\ task[q].user \in Users
    BY <1>1 DEF Create, At, TaskOK, Task
  <1>3. PICK r \in Records : owner[r] = "new" /\ owner' = [owner EXCEPT ![r] = task[q].user]
    BY DEF Create
  <1>4. OwnersMove(q)
    <2>1. owner' \in [Records -> Users \cup {"new", "deleted"}]
      BY <1>1, <1>2, <1>3 DEF TypeOK
    <2>2. \A x \in Records : owner[x] # "new" => owner'[x] \in {owner[x], "deleted"}
      BY <1>1, <1>3 DEF TypeOK
    <2>3. ASSUME NEW p \in Requests, p # q, task[p].pc = "stamp"
          PROVE  owner'[task[p].record] = owner[task[p].record]
      BY <1>1, <1>3, <2>3 DEF IInv, TransactionsOK, Live, TypeOK
    <2>4. QED
      BY <2>1, <2>2, <2>3 DEF OwnersMove
  <1>5. Live \subseteq Live'
    BY <1>1, <1>2, <1>3 DEF Live, TypeOK
  <1>6. UNCHANGED <<entries, photos, places, used, locks, held>>
    BY DEF Create, NoLocks
  <1>7. NoOrphans'
    BY <1>5, <1>6 DEF IInv, RowsAgree, NoOrphans
  <1>8. TablesHaveTypes' /\ PlacesAreDistinct' /\ CodesAreVerified' /\ PlaceIds'
    BY <1>1, <1>6 DEF IInv, RowsAgree, TablesHaveTypes, TypeOK, PlacesAreDistinct, CodesAreVerified, PlaceIds
  <1>9. "200" \in Answers /\ Answer(q, "200")
    BY DEF Create, Answers
  <1>10. Released(q)
    BY <1>2, <1>6, NothingHeld
  <1>11. QED
    BY <1>4, <1>7, <1>8, <1>9, <1>10, DoneOK, Finish DEF Answer

LEMMA CascadeStep ==
  ASSUME IInv, NEW q \in Requests, Cascade(q)
  PROVE  IInv'
  <1>1. task[q] \in Task /\ TaskOK(task[q]) /\ TypeOK
    BY Moving
  <1> DEFINE R == task[q].rows
  <1>2. /\ task[q].pc = "lock" /\ EntryHolders(q) = {} /\ R \subseteq Records
        /\ DeleteRows(R) /\ UNCHANGED <<used, held>>
        /\ locks' = {l \in locks : l.by # q}
        /\ Answer(q, "404") \/ Answer(q, "200")
    BY <1>1 DEF Cascade, Task
  <1>3. Released(q)
    <2>1. \A e \in DOMAIN held : held[e] # q
      BY <1>1, <1>2 DEF IInv, LocksAreReleased, At, TypeOK
    <2>2. held = [e \in DOMAIN held |-> held[e]]
      BY <1>1 DEF TypeOK
    <2>3. held' = [e \in DOMAIN held |-> IF held[e] = q THEN None ELSE held[e]]
      BY <1>2, <2>1, <2>2
    <2>4. QED
      BY <1>2, <2>3 DEF Released
  <1>4. ASSUME NEW p \in Requests, p # q, task[p].pc = "stamp"
        PROVE  task[p].record \in Records \ R
    <2>1. task[p] \in Task /\ TaskOK(task[p]) /\ task[p].op = "upsertEntry"
          /\ task[p].record \in Live /\ EntryHolder(task[p].record, task[p].day) = p
      BY <1>4, Moving DEF IInv, TransactionsOK
    <2>2. task[p].day \in Days
      BY <2>1 DEF TaskOK, Task
    <2>3. CASE task[p].record \in R
      BY <1>2, <1>4, <2>1, <2>2, <2>3 DEF EntryHolders
    <2>4. QED
      BY <2>1, <2>3 DEF Live
  <1>5. OwnersMove(q)
    <2>1. owner' \in [Records -> Users \cup {"new", "deleted"}]
      BY <1>1, <1>2 DEF TypeOK, DeleteRows
    <2>2. \A x \in Records : owner[x] # "new" => owner'[x] \in {owner[x], "deleted"}
      BY <1>2 DEF DeleteRows
    <2>3. ASSUME NEW p \in Requests, p # q, task[p].pc = "stamp"
          PROVE  owner'[task[p].record] = owner[task[p].record]
      BY <1>2, <1>4, <2>3 DEF DeleteRows
    <2>4. QED
      BY <2>1, <2>2, <2>3 DEF OwnersMove
  <1>6. Live' = Live \ R
    BY <1>1, <1>2 DEF Live, DeleteRows, TypeOK
  <1>7. NoOrphans'
    <2>1. \A r \in Records \ Live' : entries'[r] = {}
      BY <1>2, <1>6 DEF IInv, RowsAgree, NoOrphans, DeleteRows
    <2>2. \A x \in photos' \cup places' : x.record \in Live'
      BY <1>2, <1>6 DEF IInv, RowsAgree, NoOrphans, DeleteRows
    <2>3. QED
      BY <2>1, <2>2 DEF NoOrphans
  <1>8. TablesHaveTypes'
    BY <1>1, <1>2 DEF TypeOK, TablesHaveTypes, DeleteRows
  <1>9. PlacesAreDistinct' /\ CodesAreVerified' /\ PlaceIds'
    BY <1>2 DEF IInv, RowsAgree, PlacesAreDistinct, CodesAreVerified, PlaceIds, DeleteRows
  <1>10. PICK a \in Answers : Answer(q, a)
    BY <1>2 DEF Answers
  <1>11. QED
    BY <1>3, <1>5, <1>7, <1>8, <1>9, <1>10, DoneOK, Finish DEF Answer

LEMMA EntryWriteStep ==
  ASSUME IInv, NEW q \in Requests, Commit(q) \/ RemoveEntry(q) \/ UpsertFails(q) \/ Abort(q)
  PROVE  IInv'
  <1>1. task[q] \in Task /\ TaskOK(task[q]) /\ TypeOK
    BY Moving
  <1>2. UNCHANGED <<owner, photos, places, used>>
    BY DEF Commit, RemoveEntry, UpsertFails, Abort, db
  <1>3. PICK a \in Answers : Answer(q, a)
    BY DEF Commit, RemoveEntry, UpsertFails, Abort, Answers
  <1>4. Released(q)
    <2>1. CASE Commit(q) \/ Abort(q)
      BY <2>1 DEF Commit, Abort, Released
    <2>2. CASE RemoveEntry(q)
      BY <2>2, NothingHeld DEF RemoveEntry, At, NoLocks
    <2>3. CASE UpsertFails(q)
      <3>1. task[q].pc = "upsert" /\ UNCHANGED held /\ locks' = {l \in locks : l.by # q}
        BY <2>3 DEF UpsertFails, At
      <3>2. \A e \in DOMAIN held : held[e] # q
        BY <3>1, Moving
      <3>3. held = [e \in DOMAIN held |-> held[e]]
        BY <1>1 DEF TypeOK
      <3>4. held' = [e \in DOMAIN held |-> IF held[e] = q THEN None ELSE held[e]]
        BY <3>1, <3>2, <3>3
      <3>5. QED
        BY <3>1, <3>4 DEF Released
    <2>4. QED
      BY <2>1, <2>2, <2>3
  <1>5. entries' \in [Records -> SUBSET Days] /\ \A r \in Records \ Live : entries'[r] = {}
    <2>1. entries \in [Records -> SUBSET Days] /\ \A r \in Records \ Live : entries[r] = {}
      BY <1>1 DEF TypeOK, IInv, RowsAgree, NoOrphans
    <2>2. CASE Commit(q)
      <3>1. task[q].pc = "stamp" /\ entries' = [entries EXCEPT ![task[q].record] = @ \cup {task[q].day}]
        BY <2>2 DEF Commit, At
      <3>2. task[q].record \in Live /\ task[q].day \in Days
        BY <1>1, <2>2, <3>1 DEF IInv, TransactionsOK, TaskOK, Task, Commit, At
      <3>3. QED
        BY <2>1, <3>1, <3>2
    <2>3. CASE RemoveEntry(q)
      <3>1. entries' = entries \/ entries' = [entries EXCEPT ![task[q].record] = @ \ {task[q].day}]
        BY <2>3 DEF RemoveEntry
      <3>2. QED
        BY <2>1, <3>1
    <2>4. CASE UpsertFails(q) \/ Abort(q)
      BY <2>1, <2>4 DEF UpsertFails, Abort, db
    <2>5. QED
      BY <2>2, <2>3, <2>4
  <1>6. TablesHaveTypes' /\ NoOrphans' /\ PlacesAreDistinct' /\ CodesAreVerified' /\ PlaceIds'
    BY <1>2, <1>5, RowsStay
  <1>7. OwnersMove(q)
    BY <1>2, OwnersStay
  <1>8. QED
    BY <1>3, <1>4, <1>6, <1>7, DoneOK, Finish DEF Answer

(***************************************************************************)
(* Steps that take locks.                                                  *)
(***************************************************************************)
LEMMA FindRowsStep ==
  ASSUME IInv, NEW q \in Requests, FindRows(q)
  PROVE  IInv'
  <1> DEFINE t == task[q]
             rows == IF t.op = "deleteAll" THEN RecordsOf(t.user)
                     ELSE {r \in Records : r = t.record /\ Owns(t.user, r)}
  <1>1. t \in Task /\ TaskOK(t) /\ task \in [Requests -> Task]
    BY Moving
  <1>2. UNCHANGED <<db, locks, held>> /\ t.pc = "rows" /\ t.op \in {"delete", "deleteAll"}
    BY <1>1 DEF FindRows, NoLocks, TaskOK
  <1>3. CASE rows = {}
    <2>1. Answer(q, IF t.op = "delete" THEN "404" ELSE "200")
      BY <1>3 DEF FindRows
    <2>2. QED
      BY <1>2, <2>1, AnswerStep DEF Answers
  <1>4. CASE rows # {}
    <2>1. task' = [task EXCEPT ![q].pc = "lock", ![q].rows = rows]
      BY <1>4 DEF FindRows
    <2>2. rows \subseteq Records /\ (t.op = "delete" => rows = {t.record})
      BY <1>4 DEF RecordsOf, Live
    <2> HIDE DEF rows
    <2> DEFINE h == [t EXCEPT !.pc = "lock", !.rows = rows]
    <2>3. h \in Task
      BY <1>1, <2>2 DEF Task, Places
    <2>4. task' = [task EXCEPT ![q] = h]
      BY <1>1, <2>1, <2>3
    <2>5. /\ h.op = t.op /\ h.pc = "lock" /\ h.record = t.record /\ h.rows = rows
          /\ h.user = t.user /\ h.day = t.day /\ h.content = t.content
      BY <1>1 DEF Task
    <2>6. TaskOK(h)
      BY <1>1, <1>2, <2>2, <2>5 DEF TaskOK, AfterCheck, Ops
    <2> HIDE DEF h
    <2>7. QED
      BY <1>2, <2>3, <2>4, <2>5, <2>6, MoveStep
  <1>5. QED
    BY <1>3, <1>4

LEMMA LockRowStep ==
  ASSUME IInv, NEW q \in Requests, LockRow(q)
  PROVE  IInv'
  <1>1. task[q] \in Task /\ TaskOK(task[q]) /\ task \in [Requests -> Task] /\ TypeOK
    BY Moving
  <1>2. PICK r \in task[q].rows \ Locked(q) :
          IF r \in Live
          THEN /\ Blockers(q, r, "update") = {}
               /\ locks' = locks \cup {[by |-> q, record |-> r, mode |-> "update"]}
               /\ UNCHANGED task
          ELSE /\ task' = [task EXCEPT ![q].rows = @ \ {r}]
               /\ UNCHANGED locks
    BY DEF LockRow
  <1>3. UNCHANGED <<owner, entries, photos, places, used, held>> /\ task[q].pc = "lock"
        /\ r \in Records /\ task[q].op \in {"delete", "deleteAll"}
    BY <1>1, <1>2 DEF LockRow, db, Task, TaskOK
  <1>4. NoOrphans' /\ PlacesAreDistinct' /\ CodesAreVerified' /\ PlaceIds'
    BY <1>3 DEF IInv, RowsAgree, NoOrphans, PlacesAreDistinct, CodesAreVerified, PlaceIds, Live
  <1>5. CASE r \in Live
    <2>1. locks' = locks \cup {[by |-> q, record |-> r, mode |-> "update"]} /\ UNCHANGED task
      BY <1>2, <1>5
    <2> DEFINE l == [by |-> q, record |-> r, mode |-> "update"]
    <2>2. TypeOK'
      <3>1. l \in [by : Requests, record : Records, mode : {"key share", "share", "update"}]
        BY <1>3
      <3> HIDE DEF l
      <3>2. QED
        BY <1>1, <1>3, <2>1, <3>1 DEF TypeOK, l
    <2>3. TasksOK'
      BY <1>3, <2>1 DEF IInv, TasksOK, TaskOK, CodesVerified
    <2>4. TransactionsOK'
      <3>1. \A k \in locks : k.mode = IF task[k.by].pc = "stamp" THEN "key share" ELSE "update"
        BY DEF IInv, TransactionsOK
      <3>2. l.by = q /\ l.mode = "update"
        OBVIOUS
      <3>3. locks' = locks \cup {l} /\ task' = task
        BY <2>1
      <3> HIDE DEF l
      <3>4. \A k \in locks' : k.mode = IF task'[k.by].pc = "stamp" THEN "key share" ELSE "update"
        BY <1>3, <3>1, <3>2, <3>3
      <3>5. \A p \in Requests :
              task'[p].pc = "stamp" =>
                  /\ task'[p].op = "upsertEntry" /\ task'[p].record \in Live'
                  /\ held'[<<task'[p].record, task'[p].day>>] = p
        BY <1>3, <2>1 DEF IInv, TransactionsOK, EntryHolder, Live
      <3>6. QED
        BY <3>4, <3>5 DEF TransactionsOK, EntryHolder
    <2>5. LocksAreReleased'
      BY <1>3, <2>1 DEF IInv, LocksAreReleased, At
    <2>6. QED
      BY <1>4, <2>2, <2>3, <2>4, <2>5 DEF IInv, RowsAgree
  <1>6. CASE r \notin Live
    <2> DEFINE h == [task[q] EXCEPT !.rows = @ \ {r}]
    <2>1. h \in Task
      BY <1>1 DEF Task
    <2>2. task' = [task EXCEPT ![q] = h] /\ UNCHANGED locks
      BY <1>1, <1>2, <1>6, <2>1
    <2>3. /\ h.op = task[q].op /\ h.pc = "lock" /\ h.record = task[q].record
          /\ h.rows = task[q].rows \ {r} /\ h.user = task[q].user /\ h.day = task[q].day
          /\ h.content = task[q].content
      BY <1>1, <1>3 DEF Task
    <2>4. owner[r] \in {"new", "deleted"}
      BY <1>1, <1>3, <1>6 DEF Live, TypeOK
    <2>5. TaskOK(h)
      BY <1>1, <1>3, <2>3, <2>4 DEF TaskOK, AfterCheck, Ops
    <2> HIDE DEF h
    <2>6. /\ task' \in [Requests -> Task] /\ task'[q] = h
          /\ \A p \in Requests : p # q => task'[p] = task[p]
      BY <1>1, <2>1, <2>2
    <2>7. TypeOK'
      BY <1>1, <1>3, <2>2, <2>6 DEF TypeOK
    <2>8. TasksOK'
      <3>1. OwnersMove(q)
        BY <1>3, OwnersStay
      <3>2. QED
        BY <2>1, <2>2, <2>5, <3>1, TasksKept
    <2>9. \A p \in Requests : task'[p].pc = task[p].pc /\ task'[p].op = task[p].op
          /\ (task[p].pc = "stamp" => task'[p] = task[p])
      BY <1>3, <2>3, <2>6
    <2>10. TransactionsOK'
      <3>1. \A l \in locks : l.by \in Requests
        BY <1>1 DEF TypeOK
      <3>2. \A l \in locks' : l.mode = IF task'[l.by].pc = "stamp" THEN "key share" ELSE "update"
        BY ZenonT(40), <2>2, <2>9, <3>1 DEF IInv, TransactionsOK
      <3>3. ASSUME NEW p \in Requests, task'[p].pc = "stamp"
            PROVE  /\ task'[p].op = "upsertEntry" /\ task'[p].record \in Live'
                   /\ held'[<<task'[p].record, task'[p].day>>] = p
        <4>1. task'[p] = task[p] /\ task[p].pc = "stamp"
          BY <2>9, <3>3
        <4>2. /\ task[p].op = "upsertEntry" /\ task[p].record \in Live
              /\ held[<<task[p].record, task[p].day>>] = p
          BY <4>1 DEF IInv, TransactionsOK, EntryHolder
        <4>3. QED
          BY <1>3, <4>1, <4>2 DEF Live
      <3>4. QED
        BY <3>2, <3>3 DEF TransactionsOK, EntryHolder
    <2>11. LocksAreReleased'
      <3>1. /\ \A l \in locks : l.by \in Requests
            /\ held \in [Records \X Days -> Requests \cup {None}]
        BY <1>1 DEF TypeOK
      <3>2. QED
        BY <1>3, <2>2, <2>9, <3>1 DEF IInv, LocksAreReleased, At
    <2>12. QED
      BY <1>4, <2>7, <2>8, <2>10, <2>11 DEF IInv, RowsAgree
  <1>7. QED
    BY <1>5, <1>6

LEMMA UpsertEntryStep ==
  ASSUME IInv, NEW q \in Requests, UpsertEntry(q)
  PROVE  IInv'
  <1> DEFINE r == task[q].record
             d == task[q].day
             h == At1(task[q], "stamp")
  <1>1. task[q] \in Task /\ TaskOK(task[q]) /\ task \in [Requests -> Task] /\ TypeOK
    BY Moving
  <1>2. /\ task[q].op = "upsertEntry" /\ task[q].pc = "upsert" /\ r \in Live
        /\ held[<<r, d>>] = None
        /\ UNCHANGED locks \/ locks' = locks \cup {[by |-> q, record |-> r, mode |-> "key share"]}
        /\ held' = [held EXCEPT ![<<r, d>>] = q]
        /\ UNCHANGED <<owner, entries, photos, places, used>>
    BY DEF UpsertEntry, At, EntryHolder, db
  <1>3. r \in Records /\ d \in Days
    BY <1>1, <1>2 DEF Live, TaskOK, Task
  <1>4. h \in Task /\ task' = [task EXCEPT ![q] = h]
    BY GotoMoves DEF UpsertEntry, Places
  <1>5. /\ h.op = "upsertEntry" /\ h.pc = "stamp" /\ h.record = r /\ h.day = d
        /\ h.user = task[q].user /\ h.content = task[q].content /\ h.rows = task[q].rows
    BY <1>1, <1>2 DEF At1, Task
  <1> HIDE DEF h
  <1>6. TaskOK(h)
    <2>1. task[q].user # None /\ owner[r] \in {task[q].user, "deleted"}
          /\ r # None /\ owner[r] # "new" /\ d # None
      <3>1. task[q].user # None /\ owner[r] \in {task[q].user, "deleted"}
        <4>1. "upsertEntry" \in DOMAIN AfterCheck /\ "upsert" \in AfterCheck["upsertEntry"]
          BY DEF AfterCheck
        <4>2. QED
          BY <1>1, <1>2, <4>1 DEF TaskOK
      <3>2. task[q].op \notin {None, "create", "deleteAll"}
        BY <1>2 DEF Ops
      <3>3. r # None /\ owner[r] # "new" /\ d # None
        BY <1>1, <1>2, <3>2 DEF TaskOK
      <3>4. QED
        BY <3>1, <3>3
    <2>2. QED
      BY <1>5, <2>1 DEF TaskOK, AfterCheck, Ops
  <1>7. /\ task' \in [Requests -> Task] /\ task'[q] = h
        /\ \A p \in Requests : p # q => task'[p] = task[p]
    BY <1>1, <1>4
  <1>8. held \in [Records \X Days -> Requests \cup {None}] /\ <<r, d>> \in Records \X Days
    BY <1>1, <1>3 DEF TypeOK
  <1>9. held' \in [Records \X Days -> Requests \cup {None}] /\ held'[<<r, d>>] = q
        /\ \A e \in Records \X Days : e # <<r, d>> => held'[e] = held[e]
    BY <1>2, <1>8
  <1> DEFINE lock == [by |-> q, record |-> r, mode |-> "key share"]
  <1>10. /\ lock \in [by : Requests, record : Records, mode : {"key share", "share", "update"}]
         /\ lock.by = q /\ lock.mode = "key share"
         /\ UNCHANGED locks \/ locks' = locks \cup {lock}
    BY <1>2, <1>3
  <1> HIDE DEF lock
  <1>11. TypeOK'
    <2>1. locks' \subseteq [by : Requests, record : Records, mode : {"key share", "share", "update"}]
      BY <1>1, <1>10 DEF TypeOK
    <2>2. QED
      BY <1>1, <1>2, <1>7, <1>9, <2>1 DEF TypeOK
  <1>12. NoOrphans' /\ PlacesAreDistinct' /\ CodesAreVerified' /\ PlaceIds'
    BY <1>2 DEF IInv, RowsAgree, NoOrphans, PlacesAreDistinct, CodesAreVerified, PlaceIds, Live
  <1>13. TasksOK'
    <2>1. OwnersMove(q)
      BY <1>2, OwnersStay
    <2>2. QED
      BY <1>4, <1>6, <2>1, TasksKept
  <1>14. \A l \in locks : l.by \in Requests /\ l.by # q
    BY <1>1, <1>2, Moving DEF TypeOK
  <1>15. TransactionsOK'
    <2>1. \A l \in locks' : l.mode = IF task'[l.by].pc = "stamp" THEN "key share" ELSE "update"
      <3>1. \A l \in locks : l.mode = IF task[l.by].pc = "stamp" THEN "key share" ELSE "update"
        BY DEF IInv, TransactionsOK
      <3>2. ASSUME NEW l \in locks'
            PROVE  l.mode = IF task'[l.by].pc = "stamp" THEN "key share" ELSE "update"
        <4>1. CASE l = lock
          BY <1>5, <1>7, <1>10, <4>1
        <4>2. CASE l \in locks
          BY <1>7, <1>14, <3>1, <4>2
        <4>3. QED
          BY <1>10, <4>1, <4>2
      <3>3. QED
        BY <3>2
    <2>2. ASSUME NEW p \in Requests, task'[p].pc = "stamp"
          PROVE  /\ task'[p].op = "upsertEntry" /\ task'[p].record \in Live'
                 /\ held'[<<task'[p].record, task'[p].day>>] = p
      <3>1. Live' = Live
        BY <1>2 DEF Live
      <3>2. CASE p = q
        BY <1>2, <1>5, <1>7, <1>9, <3>1, <3>2
      <3>3. CASE p # q
        <4>1. /\ task'[p] = task[p] /\ task[p].op = "upsertEntry" /\ task[p].record \in Live
              /\ held[<<task[p].record, task[p].day>>] = p
          BY <1>7, <2>2, <3>3 DEF IInv, TransactionsOK, EntryHolder
        <4>2. task[p].day \in Days /\ task[p].record \in Records
          <5>1. task[p] \in Task /\ TaskOK(task[p])
            BY Moving
          <5>2. QED
            BY <4>1, <5>1 DEF TaskOK, Task, Live
        <4>3. <<task[p].record, task[p].day>> # <<r, d>>
          BY <1>2, <4>1
        <4>4. QED
          BY <1>9, <3>1, <4>1, <4>2, <4>3
      <3>4. QED
        BY <3>2, <3>3
    <2>3. QED
      BY <2>1, <2>2 DEF TransactionsOK, EntryHolder
  <1>16. LocksAreReleased'
    <2>1. \A l \in locks' : task'[l.by].pc \in {"stamp", "lock"}
      <3>1. \A l \in locks : task[l.by].pc \in {"stamp", "lock"}
        BY DEF IInv, LocksAreReleased
      <3>2. ASSUME NEW l \in locks' PROVE task'[l.by].pc \in {"stamp", "lock"}
        <4>1. CASE l = lock
          BY <1>5, <1>7, <1>10, <4>1
        <4>2. CASE l \in locks
          BY <1>7, <1>14, <3>1, <4>2
        <4>3. QED
          BY <1>10, <4>1, <4>2
      <3>3. QED
        BY <3>2
    <2>2. ASSUME NEW e \in DOMAIN held', held'[e] # None
          PROVE  task'[held'[e]].op = "upsertEntry" /\ task'[held'[e]].pc = "stamp"
      <3>1. CASE e = <<r, d>>
        BY <1>5, <1>7, <1>9, <3>1
      <3>2. CASE e # <<r, d>>
        <4>1. e \in Records \X Days /\ held'[e] = held[e]
          BY <1>9, <2>2, <3>2
        <4>2. held[e] \in Requests /\ At(held[e], "upsertEntry", "stamp")
          BY <1>8, <2>2, <4>1 DEF IInv, LocksAreReleased
        <4>3. held[e] # q
          BY <1>2, <4>2 DEF At
        <4>4. QED
          BY <1>7, <4>1, <4>2, <4>3 DEF At
      <3>3. QED
        BY <3>1, <3>2
    <2>3. QED
      BY <2>1, <2>2 DEF LocksAreReleased, At
  <1>17. QED
    BY <1>11, <1>12, <1>13, <1>15, <1>16 DEF IInv, RowsAgree

(***************************************************************************)
(* Photos and places.                                                      *)
(***************************************************************************)
LEMMA PhotoWriteStep ==
  ASSUME IInv, NEW q \in Requests, StorePhoto(q) \/ RemovePhoto(q)
  PROVE  IInv'
  <1>1. task[q] \in Task /\ TaskOK(task[q]) /\ TypeOK
    BY Moving
  <1>2. /\ UNCHANGED <<owner, entries, places, locks, held>>
        /\ task[q].pc \notin {"stamp", "lock"}
    BY DEF StorePhoto, RemovePhoto, NoLocks, At
  <1>3. PICK a \in Answers : Answer(q, a)
    <2>1. \A a \in {"200", "404", "error"} : a \in Answers
      BY DEF Answers
    <2>2. CASE StorePhoto(q)
      BY <2>1, <2>2 DEF StorePhoto
    <2>3. CASE RemovePhoto(q)
      <3>1. Answer(q, "404") \/ Answer(q, "200")
        BY <2>3 DEF RemovePhoto
      <3>2. QED
        BY <2>1, <3>1
    <2>4. QED
      BY <2>2, <2>3
  <1>4. /\ photos' \subseteq [id : Photos, record : Records, day : Days]
        /\ \A x \in photos' : x.record \in Live
        /\ used \subseteq used' /\ used' \subseteq Photos \cup Visits
    <2>1. /\ photos \subseteq [id : Photos, record : Records, day : Days]
          /\ \A x \in photos : x.record \in Live
          /\ used \subseteq Photos \cup Visits
      BY DEF IInv, RowsAgree, TypeOK, NoOrphans
    <2>2. CASE StorePhoto(q) /\ task[q].record \in Live
      <3>1. PICK i \in Photos \ used :
              /\ photos' = photos \cup {[id |-> i, record |-> task[q].record, day |-> task[q].day]}
              /\ used' = used \cup {i}
        BY <2>2 DEF StorePhoto
      <3>2. task[q].record \in Records /\ task[q].day \in Days
        BY <1>1, <2>2 DEF StorePhoto, At, TaskOK, Task, Live
      <3>3. QED
        BY <2>1, <2>2, <3>1, <3>2
    <2>3. CASE StorePhoto(q) /\ task[q].record \notin Live
      BY <2>1, <2>3 DEF StorePhoto
    <2>4. CASE RemovePhoto(q)
      BY <2>1, <2>4 DEF RemovePhoto
    <2>5. QED
      BY <2>2, <2>3, <2>4
  <1>5. TablesHaveTypes' /\ NoOrphans'
    BY <1>1, <1>2, <1>4 DEF IInv, RowsAgree, TablesHaveTypes, TypeOK, NoOrphans, Live
  <1>6. PlacesAreDistinct' /\ CodesAreVerified' /\ PlaceIds'
    BY <1>2, <1>4 DEF IInv, RowsAgree, PlacesAreDistinct, CodesAreVerified, PlaceIds
  <1>7. Released(q) /\ OwnersMove(q)
    BY <1>2, NothingHeld, OwnersStay
  <1>8. QED
    BY <1>3, <1>5, <1>6, <1>7, DoneOK, Finish DEF Answer

\* A row that may be put into the places, beside the rows S of the others.
PlaceRow == [id : Visits, record : Records, content : Contents, day : Days,
             area : {c.area : c \in Codes}, sigungu : {c.sigungu : c \in Codes}]

GoodRow(v, S) ==
    /\ v \in PlaceRow /\ v.record \in Live
    /\ v.content \in DOMAIN KtoItems /\ parseListItem(v.content)
    /\ v.area = resolveKtoRegionCodes(KtoItems[v.content]).area
    /\ v.sigungu = resolveKtoRegionCodes(KtoItems[v.content]).sigungu
    /\ \A w \in S : w.id # v.id /\ (w.record # v.record \/ w.content # v.content \/ w.day # v.day)

LEMMA RowAdded ==
  ASSUME IInv, NEW S \in SUBSET places, NEW v, GoodRow(v, S),
         places' = S \cup {v}, UNCHANGED <<owner, entries, photos>>,
         used \cup {v.id} \subseteq used', used' \subseteq Photos \cup Visits
  PROVE  TablesHaveTypes' /\ NoOrphans' /\ PlacesAreDistinct' /\ CodesAreVerified' /\ PlaceIds'
  <1>1. places \subseteq PlaceRow /\ v \in PlaceRow /\ Live' = Live
    BY DEF IInv, RowsAgree, TypeOK, PlaceRow, GoodRow, Live
  <1>2. TablesHaveTypes'
    BY <1>1 DEF IInv, RowsAgree, TypeOK, TablesHaveTypes, PlaceRow
  <1>3. NoOrphans'
    BY <1>1 DEF IInv, RowsAgree, NoOrphans, GoodRow
  <1>4. PlacesAreDistinct'
    BY DEF IInv, RowsAgree, PlacesAreDistinct, GoodRow
  <1>5. CodesAreVerified'
    BY DEF IInv, RowsAgree, CodesAreVerified, GoodRow
  <1>6. PlaceIds'
    BY DEF IInv, PlaceIds, GoodRow
  <1>7. QED
    BY <1>2, <1>3, <1>4, <1>5, <1>6

LEMMA RowsRemoved ==
  ASSUME IInv, places' \subseteq places, UNCHANGED <<owner, entries, photos, used>>
  PROVE  TablesHaveTypes' /\ NoOrphans' /\ PlacesAreDistinct' /\ CodesAreVerified' /\ PlaceIds'
  BY DEF IInv, RowsAgree, TypeOK, TablesHaveTypes, NoOrphans, Live, PlacesAreDistinct,
         CodesAreVerified, PlaceIds

LEMMA StorePlaceStep ==
  ASSUME IInv, NEW q \in Requests, StorePlace(q)
  PROVE  IInv'
  <1> DEFINE t == task[q]
             row(i) == [id |-> i, record |-> t.record, content |-> t.content, day |-> t.day,
                        area |-> t.codes.area, sigungu |-> t.codes.sigungu]
  <1>1. t \in Task /\ TaskOK(t) /\ TypeOK
    BY Moving
  <1>2. /\ UNCHANGED <<owner, entries, photos, locks, held>>
        /\ t.op = "addPlace" /\ t.pc = "store" /\ t.pc \notin {"stamp", "lock"}
    BY DEF StorePlace, NoLocks, At
  <1>3. Released(q) /\ OwnersMove(q)
    BY <1>2, NothingHeld, OwnersStay
  <1>4. \A a \in {"200", "409", "error"} : a \in Answers
    BY DEF Answers
  <1>5. CASE UNCHANGED <<places, used>> /\ (Answer(q, "409") \/ Answer(q, "error"))
    BY <1>2, <1>4, <1>5, AnswerStep DEF db
  <1>6. ASSUME NEW i \in Visits \ used, ~Taken(row(i)), places' = places \cup {row(i)},
               used' = used \cup {i}, Answer(q, "200"), t.record \in Live
        PROVE  IInv'
    <2>1. CodesVerified(t) /\ t.content \in Contents /\ t.day \in Days /\ t.record \in Records
      BY <1>1, <1>2, <1>6 DEF TaskOK, Task, Live
    <2>2. /\ t.content \in DOMAIN KtoItems /\ parseListItem(t.content)
          /\ t.codes = resolveKtoRegionCodes(KtoItems[t.content]) /\ t.codes \in Codes
      BY <2>1 DEF CodesVerified, Codes
    <2> HIDE DEF t
    <2>3. row(i) \in PlaceRow
      BY <2>1, <2>2 DEF PlaceRow
    <2>4. \A w \in places : w.id # i
      BY <1>6 DEF IInv, PlaceIds
    <2>5. GoodRow(row(i), places)
      BY <1>6, <2>2, <2>3, <2>4 DEF GoodRow, Taken
    <2>6. row(i).id = i /\ used' \subseteq Photos \cup Visits
      BY <1>1, <1>6 DEF TypeOK
    <2> DEFINE v == row(i)
    <2> HIDE DEF v
    <2>7. GoodRow(v, places) /\ places' = places \cup {v} /\ used \cup {v.id} \subseteq used'
      BY <1>6, <2>5, <2>6 DEF v
    <2>8. TablesHaveTypes' /\ NoOrphans' /\ PlacesAreDistinct' /\ CodesAreVerified' /\ PlaceIds'
      BY <1>2, <2>6, <2>7, RowAdded
    <2>9. QED
      BY <1>3, <1>4, <1>6, <2>8, DoneOK, Finish DEF Answer
  <1>7. QED
    BY <1>5, <1>6 DEF StorePlace

LEMMA UpdatePlaceStep ==
  ASSUME IInv, NEW q \in Requests, UpdatePlace(q)
  PROVE  IInv'
  <1> DEFINE t == task[q]
  <1>1. t \in Task /\ TaskOK(t) /\ TypeOK
    BY Moving
  <1>2. /\ UNCHANGED <<owner, entries, photos, used, locks, held>>
        /\ t.op = "updatePlace" /\ t.pc = "store" /\ t.pc \notin {"stamp", "lock"}
    BY DEF UpdatePlace, NoLocks, At
  <1>3. Released(q) /\ OwnersMove(q)
    BY <1>2, NothingHeld, OwnersStay
  <1>4. CASE UNCHANGED places /\ (Answer(q, "404") \/ Answer(q, "409"))
    BY <1>2, <1>4, AnswerStep DEF db, Answers
  <1>5. ASSUME NEW v \in PlaceRows(t), ~Taken(Patched(v, t)),
               places' = (places \ {v}) \cup {Patched(v, t)}, Goto(q, "reread")
        PROVE  IInv'
    <2> DEFINE w == Patched(v, t)
    <2>1. /\ v \in places /\ v \in PlaceRow /\ v.record \in Live
          /\ v.content \in DOMAIN KtoItems /\ parseListItem(v.content)
          /\ v.area = resolveKtoRegionCodes(KtoItems[v.content]).area
          /\ v.sigungu = resolveKtoRegionCodes(KtoItems[v.content]).sigungu
      BY <1>1, <1>5 DEF PlaceRows, PlacesOf, TypeOK, PlaceRow, IInv, RowsAgree, NoOrphans, CodesAreVerified
    <2>2. t.content \in Contents \cup {None} /\ t.day \in Days \cup {None}
      BY <1>1 DEF Task
    <2>3. t.content # None =>
             /\ t.content \in DOMAIN KtoItems /\ parseListItem(t.content)
             /\ t.codes = resolveKtoRegionCodes(KtoItems[t.content]) /\ t.codes \in Codes
      BY <1>1, <1>2 DEF TaskOK, CodesVerified, Codes
    <2> HIDE DEF t
    <2>4. w \in PlaceRow /\ w.id = v.id /\ w.record = v.record
      BY <2>1, <2>2, <2>3 DEF Patched, PlaceRow
    <2>5. /\ w.content \in DOMAIN KtoItems /\ parseListItem(w.content)
          /\ w.area = resolveKtoRegionCodes(KtoItems[w.content]).area
          /\ w.sigungu = resolveKtoRegionCodes(KtoItems[w.content]).sigungu
      <3>1. CASE t.content = None
        BY <2>1, <3>1 DEF Patched, PlaceRow
      <3>2. CASE t.content # None
        BY <2>1, <2>3, <3>2 DEF Patched, PlaceRow
      <3>3. QED
        BY <3>1, <3>2
    <2> HIDE DEF w
    <2>6. \A x \in places \ {v} :
             x.id # w.id /\ (x.record # w.record \/ x.content # w.content \/ x.day # w.day)
      <3>1. \A x \in places \ {v} : x.id # v.id
        BY <2>1 DEF IInv, PlaceIds
      <3>2. ~Taken(w)
        BY <1>5 DEF w
      <3>3. QED
        BY <2>4, <3>1, <3>2 DEF Taken
    <2>7. GoodRow(w, places \ {v})
      BY <2>1, <2>4, <2>5, <2>6 DEF GoodRow
    <2>8. places' = (places \ {v}) \cup {w}
      BY <1>5 DEF w
    <2>9. used \cup {w.id} \subseteq used' /\ used' \subseteq Photos \cup Visits
      <3>1. v.id \in used /\ used \subseteq Photos \cup Visits
        BY <1>1, <2>1 DEF IInv, PlaceIds, TypeOK
      <3>2. QED
        BY <1>2, <2>4, <3>1
    <2>10. TablesHaveTypes' /\ NoOrphans' /\ PlacesAreDistinct' /\ CodesAreVerified' /\ PlaceIds'
      BY <1>2, <2>7, <2>8, <2>9, RowAdded
    <2> DEFINE h == At1(task[q], "reread")
    <2>11. h \in Task /\ task' = [task EXCEPT ![q] = h]
      BY <1>5, GotoMoves DEF Places
    <2>12. /\ h.op = "updatePlace" /\ h.pc = "reread" /\ h.record = t.record
           /\ h.user = t.user /\ h.day = t.day /\ h.content = t.content
      BY <1>1, <1>2 DEF At1, Task, t
    <2> HIDE DEF h
    <2>13. TaskOK(h)
      BY <1>1, <1>2, <2>12 DEF TaskOK, AfterCheck, Ops
    <2>14. QED
      BY <1>3, <2>10, <2>11, <2>12, <2>13, Finish
  <1>6. QED
    BY <1>4, <1>5 DEF UpdatePlace

LEMMA RemovePlaceStep ==
  ASSUME IInv, NEW q \in Requests, RemovePlace(q)
  PROVE  IInv'
  <1>1. /\ UNCHANGED <<owner, entries, photos, used, locks, held>> /\ places' \subseteq places
        /\ task[q].pc \notin {"stamp", "lock"} /\ (Answer(q, "404") \/ Answer(q, "200"))
    BY DEF RemovePlace, NoLocks, At
  <1>2. Released(q) /\ OwnersMove(q)
    BY <1>1, NothingHeld, OwnersStay
  <1>3. PICK a \in Answers : Answer(q, a)
    BY <1>1 DEF Answers
  <1>4. QED
    BY <1>1, <1>2, <1>3, RowsRemoved, DoneOK, Finish DEF Answer

(***************************************************************************)
(* The inductive invariant.                                                *)
(***************************************************************************)
LEMMA NextIInv == IInv /\ [Next]_vars => IInv'
  <1> SUFFICES ASSUME IInv, [Next]_vars PROVE IInv'
    OBVIOUS
  <1>1. CASE UNCHANGED vars
    <2> USE <1>1 DEF vars
    <2>1. TypeOK' /\ NoOrphans' /\ PlacesAreDistinct' /\ CodesAreVerified'
      BY DEF IInv, RowsAgree, TypeOK, NoOrphans, PlacesAreDistinct, CodesAreVerified, Live
    <2>2. TasksOK'
      BY DEF IInv, TasksOK, TaskOK, CodesVerified
    <2>3. TransactionsOK' /\ PlaceIds' /\ LocksAreReleased'
      BY DEF IInv, TransactionsOK, PlaceIds, LocksAreReleased, Live, EntryHolder, At
    <2>4. QED
      BY <2>1, <2>2, <2>3 DEF IInv, RowsAgree
  <1>2. ASSUME NEW q \in Requests, Arrive(q) \/ Runs(q) \/ Abort(q) PROVE IInv'
    <2>1. CASE Arrive(q)
      BY <2>1, ArriveStep
    <2>2. CASE Abort(q)
      BY <2>2, EntryWriteStep
    <2>3. CASE RecordStep(q)
      BY <2>3, CreateStep, ReadStep, OwnerChecks, FindRowsStep DEF RecordStep
    <2>4. CASE Deletion(q)
      BY <2>4, LockRowStep, CascadeStep DEF Deletion
    <2>5. CASE EntryStep(q)
      BY <2>5, OwnerChecks, UpsertEntryStep, EntryWriteStep DEF EntryStep
    <2>6. CASE PhotoStep(q)
      BY <2>6, ReadStep, UploadStep, OwnerChecks, PhotoWriteStep DEF PhotoStep
    <2>7. CASE PlaceStep(q)
      BY <2>7, OwnerChecks, VerifyStep, StorePlaceStep, UpdatePlaceStep, ReadStep, RemovePlaceStep
         DEF PlaceStep
    <2>8. QED
      BY <1>2, <2>1, <2>2, <2>3, <2>4, <2>5, <2>6, <2>7 DEF Runs
  <1>3. QED
    BY <1>1, <1>2 DEF Next

\* Every reachable state satisfies the inductive invariant of the records API.
THEOREM RecordsInvariance == Spec => []IInv
  BY InitIInv, NextIInv, PTL DEF Spec

\* However the requests of any users overlap, the rows of records, entries,
\* photos and places agree: no row outlives its record, no place is stored twice
\* on a day, and its codes are KTO's (addPhoto, upsertEntry, add, update).
THEOREM RowsAlwaysAgree == Spec => []RowsAgree
  <1>1. IInv => RowsAgree
    BY DEF IInv
  <1>2. QED
    BY <1>1, RecordsInvariance, PTL

LEMMA KeyShareIsWeak ==
  /\ {"key share", "no key update"} \notin Conflicts
  /\ {"key share", "key share"} \notin Conflicts
  <1>1. ASSUME NEW S \in Conflicts, "key share" \in S PROVE "update" \in S
    <2>1. CASE S = {"key share", "update"}
      BY <2>1
    <2>2. CASE "key share" \notin S
      BY <1>1, <2>2
    <2>3. "key share" \notin {"share", "update"} /\ "key share" \notin {"update"}
          /\ "key share" \notin {"share", "no key update"}
          /\ "key share" \notin {"no key update", "update"} /\ "key share" \notin {"no key update"}
      OBVIOUS
    <2>4. QED
      BY <2>1, <2>2, <2>3 DEF Conflicts
  <1>2. QED
    BY <1>1

\* Only a deletion can close a circle of waiting requests, and no request keeps
\* a lock after its answer (upsertEntry, remove, removeAll).
THEOREM LocksStaySound == Spec => []LocksAreSound
  <1>1. ASSUME IInv PROVE WritersNeverDeadlock
    <2>1. SUFFICES ASSUME NEW p \in Requests, NEW q \in Requests, p # q, p \in WaitsFor(q),
                          q \in WaitsFor(p), task[p].pc # "lock", task[q].pc # "lock"
                   PROVE  FALSE
      BY DEF WritersNeverDeadlock
    <2>2. ASSUME NEW x \in Requests, NEW y \in Requests, NEW r, NEW mode \in {"key share", "no key update"},
                 x \in Blockers(y, r, mode), task[x].pc # "lock"
          PROVE  FALSE
      <3>1. PICK l \in locks : l.by = x /\ {l.mode, mode} \in Conflicts
        BY <2>2 DEF Blockers
      <3>2. l.mode = "key share"
        BY <1>1, <2>2, <3>1 DEF IInv, LocksAreReleased, TransactionsOK
      <3>3. QED
        BY <3>1, <3>2, KeyShareIsWeak
    <2>3. ASSUME NEW x \in Requests, NEW y \in Requests, x \in WaitsFor(y),
                 task[x].pc # "lock", task[y].pc # "lock"
          PROVE  task[y].pc = "upsert" /\ task[x].pc = "stamp"
      <3>1. CASE At(y, "upsertEntry", "upsert") /\ task[y].record \in Live
        <4> DEFINE r == task[y].record
                   d == task[y].day
        <4>1. x \in ({EntryHolder(r, d)} \ {None})
                      \cup IF d \in entries[r] THEN {} ELSE Blockers(y, r, "key share")
          <5>1. WaitsFor(y) = ({EntryHolder(r, d)} \ {None})
                                 \cup (IF d \in entries[r] THEN {} ELSE Blockers(y, r, "key share"))
            BY <3>1 DEF WaitsFor, At
          <5>2. QED
            BY <2>3, <5>1
        <4>2. EntryHolder(r, d) = x /\ x # None
          BY <2>2, <2>3, <4>1
        <4>3. r \in Records /\ d \in Days
          BY <1>1, <3>1, Moving DEF TaskOK, Task, Live, At
        <4>4. <<r, d>> \in DOMAIN held
          BY <1>1, <4>3 DEF IInv, RowsAgree, TypeOK
        <4>5. At(x, "upsertEntry", "stamp")
          BY <1>1, <4>2, <4>4 DEF IInv, LocksAreReleased, EntryHolder
        <4>6. QED
          BY <3>1, <4>5 DEF At
      <3>2. CASE At(y, "upsertEntry", "stamp")
        <4>1. x \in Blockers(y, task[y].record, "no key update")
          BY <2>3, <3>2 DEF WaitsFor, At
        <4>2. QED
          BY <2>2, <2>3, <4>1
      <3>3. CASE ~(At(y, "upsertEntry", "upsert") /\ task[y].record \in Live) /\ ~At(y, "upsertEntry", "stamp")
        BY <2>3, <3>3 DEF WaitsFor
      <3>4. QED
        BY <3>1, <3>2, <3>3
    <2>4. task[q].pc = "upsert" /\ task[p].pc = "stamp"
      BY <2>1, <2>3
    <2>5. task[p].pc = "upsert" /\ task[q].pc = "stamp"
      BY <2>1, <2>3
    <2>6. QED
      BY <2>4, <2>5
  <1>2. IInv => LocksAreSound
    BY <1>1 DEF LocksAreSound, IInv
  <1>3. QED
    BY <1>2, RecordsInvariance, PTL

(***************************************************************************)
(* What the answers say.                                                   *)
(***************************************************************************)
LEMMA OthersStay ==
  ASSUME IInv, NEW q \in Requests, Arrive(q) \/ Runs(q) \/ Abort(q),
         NEW p \in Requests, p # q
  PROVE  task'[p] = task[p]
  <1> USE DEF Goto, Answer
  <1>1. task \in [Requests -> Task]
    BY Moving
  <1>2. CASE Arrive(q) \/ Abort(q)
    <2>1. CASE Abort(q)
      BY <1>1, <2>1 DEF Abort
    <2>2. ASSUME NEW op, NEW pc, NEW u, NEW r, NEW d, NEW i, NEW c, Sent(q, op, pc, u, r, d, i, c)
          PROVE  task'[p] = task[p]
      BY <1>1, <2>2 DEF Sent
    <2>3. CASE Arrive(q)
      BY <2>2, <2>3 DEF Arrive
    <2>4. QED
      BY <1>2, <2>1, <2>3
  <1>3. CASE RecordStep(q)
    BY <1>1, <1>3 DEF RecordStep, Create, Get, Update, Reread, FindRows
  <1>4. CASE Deletion(q)
    BY <1>1, <1>4 DEF Deletion, LockRow, Cascade
  <1>5. CASE EntryStep(q)
    BY <1>1, <1>5 DEF EntryStep, UpsertFind, UpsertEntry, UpsertFails, Commit, RemoveEntry
  <1>6. CASE PhotoStep(q)
    BY <1>1, <1>6 DEF PhotoStep, RefuseUpload, FindUsage, Measure, Inspect, OwnsPhotoRecord,
                      StorePhoto, RemovePhoto
  <1>7. CASE PlaceStep(q)
    BY <1>1, <1>7 DEF PlaceStep, FindPlaces, Verify, OwnsPlaceRecord, StorePlace, UpdatePlace,
                      RereadPlace, RemovePlace
  <1>8. QED
    BY <1>2, <1>3, <1>4, <1>5, <1>6, <1>7 DEF Runs

LEMMA MovesTo ==
  ASSUME IInv, NEW q \in Requests, NEW pc \in Places, Goto(q, pc)
  PROVE  task'[q].pc \notin Answers
  <1>1. task[q] \in Task /\ task' = [task EXCEPT ![q] = At1(task[q], pc)] /\ task \in [Requests -> Task]
    BY Moving, GotoMoves
  <1>2. task'[q].pc = pc
    BY <1>1 DEF At1, Task
  <1>3. QED
    BY <1>2 DEF Places, Answers

LEMMA AnswersWith ==
  ASSUME IInv, NEW q \in Requests, NEW a \in Answers, Answer(q, a)
  PROVE  task'[q].pc = a
  BY Moving, DoneOK DEF Answer

\* After the check of its owner a record is the caller's or deleted.
LEMMA GoneIsDeleted ==
  ASSUME IInv, NEW q \in Requests, task[q].op \in DOMAIN AfterCheck,
         task[q].pc \in AfterCheck[task[q].op]
  PROVE  /\ task[q].record \in Records
         /\ task[q].record \notin Live => owner[task[q].record] = "deleted"
         /\ ~Owns(task[q].user, task[q].record) =>
                task[q].record \notin Live /\ owner[task[q].record] = "deleted"
  <1>1. task[q] \in Task /\ TaskOK(task[q]) /\ TypeOK
    BY Moving
  <1>2. task[q].op \notin {None, "create", "deleteAll"}
    BY DEF AfterCheck, Ops
  <1>3. task[q].record \in Records /\ task[q].record # None
    BY <1>1, <1>2 DEF TaskOK, Task
  <1>4. task[q].user \in Users /\ owner[task[q].record] \in {task[q].user, "deleted"}
    BY <1>1 DEF TaskOK, Task
  <1>5. "deleted" \notin Users
    OBVIOUS
  <1>6. QED
    BY <1>3, <1>4, <1>5 DEF Live, Owns

LEMMA NotFound ==
  ASSUME IInv, NEW q \in Requests, task[q].op \notin {None, "create", "deleteAll"},
         ~Owns(task[q].user, task[q].record)
  PROVE  Answers404(q)
  <1>1. TaskOK(task[q])
    BY Moving
  <1>2. task[q].record # None
    BY <1>1 DEF TaskOK
  <1>3. QED
    BY <1>2 DEF Answers404

LEMMA RecordAnswers ==
  ASSUME IInv, NEW q \in Requests, RecordStep(q)
  PROVE  AnswerIsTrue(q)
  <1> USE DEF At
  <1>1. \A a \in {"200", "404", "error"} : a \in Answers
    BY DEF Answers
  <1>2. task[q] \in Task /\ TaskOK(task[q]) /\ task \in [Requests -> Task]
    BY Moving
  <1>3. CASE Create(q)
    <2>1. task'[q].pc = "200" /\ task[q].op = "create"
      BY <1>1, <1>3, AnswersWith DEF Create
    <2>2. QED
      BY <2>1 DEF AnswerIsTrue
  <1>4. CASE Get(q)
    <2>1. task[q].op = "get"
      BY <1>4 DEF Get
    <2>2. Answer(q, "200") \/ (Answer(q, "404") /\ Answers404(q))
      <3>1. CASE task[q].item = None
        BY <1>4, <2>1, <3>1, NotFound DEF Get, Ops
      <3>2. CASE task[q].item # None
        BY <1>4, <2>1, <3>2 DEF Get, Answers404
      <3>3. QED
        BY <3>1, <3>2
    <2>3. task'[q].pc = "200" \/ (task'[q].pc = "404" /\ Answers404(q))
      BY <1>1, <2>2, AnswersWith
    <2>4. QED
      BY <2>1, <2>3 DEF AnswerIsTrue
  <1>5. CASE Update(q)
    <2>1. task[q].op = "update"
      BY <1>5 DEF Update
    <2>2. Goto(q, "reread") \/ (Answer(q, "404") /\ Answers404(q))
      BY <1>5, <2>1, NotFound DEF Update, Ops
    <2>3. task'[q].pc \notin Answers \/ (task'[q].pc = "404" /\ Answers404(q))
      BY <1>1, <2>2, AnswersWith, MovesTo DEF Places
    <2>4. QED
      BY <2>1, <2>3 DEF AnswerIsTrue, Answers
  <1>6. CASE Reread(q)
    <2>1. task[q].op = "update" /\ task[q].pc = "reread"
      BY <1>6 DEF Reread
    <2>2. task[q].op \in DOMAIN AfterCheck /\ task[q].pc \in AfterCheck[task[q].op]
      BY <2>1 DEF AfterCheck
    <2>3. Answer(q, "200") \/ (Answer(q, "error") /\ ~Owns(task[q].user, task[q].record))
      BY <1>6 DEF Reread
    <2>4. task'[q].pc = "200" \/ (task'[q].pc = "error" /\ task[q].record \notin Live
                                   /\ owner[task[q].record] = "deleted")
      BY <1>1, <2>2, <2>3, AnswersWith, GoneIsDeleted
    <2>5. QED
      BY <2>1, <2>4 DEF AnswerIsTrue
  <1>7. CASE FindRows(q)
    <2>1. task[q].op \in {"delete", "deleteAll"}
      BY <1>2, <1>7 DEF FindRows, TaskOK
    <2> DEFINE rows == IF task[q].op = "deleteAll" THEN RecordsOf(task[q].user)
                       ELSE {r \in Records : r = task[q].record /\ Owns(task[q].user, r)}
    <2>2. CASE rows # {}
      <3>1. task' = [task EXCEPT ![q].pc = "lock", ![q].rows = rows]
        BY <1>7, <2>2 DEF FindRows
      <3> HIDE DEF rows
      <3>2. task'[q].pc = "lock"
        BY <1>2, <3>1 DEF Task
      <3>3. QED
        BY <3>2 DEF AnswerIsTrue
    <2>3. CASE rows = {} /\ task[q].op = "delete"
      <3>1. task[q].record \in Records
        BY <1>2, <2>3 DEF TaskOK, Task, Ops
      <3>2. ~Owns(task[q].user, task[q].record)
        BY <2>3, <3>1
      <3>3. Answers404(q)
        BY <2>3, <3>2, NotFound DEF Ops
      <3>4. Answer(q, "404")
        BY <1>7, <2>3 DEF FindRows
      <3>5. task'[q].pc = "404"
        BY <1>1, <3>4, AnswersWith
      <3>6. QED
        BY <3>3, <3>5 DEF AnswerIsTrue
    <2>4. CASE rows = {} /\ task[q].op = "deleteAll"
      <3>1. Answer(q, "200")
        BY <1>7, <2>4 DEF FindRows
      <3>2. task'[q].pc = "200"
        BY <1>1, <3>1, AnswersWith
      <3>3. QED
        BY <2>4, <3>2 DEF AnswerIsTrue
    <2>5. QED
      BY <2>1, <2>2, <2>3, <2>4
  <1>8. QED
    BY <1>3, <1>4, <1>5, <1>6, <1>7 DEF RecordStep

LEMMA DeletionAnswers ==
  ASSUME IInv, NEW q \in Requests, Deletion(q)
  PROVE  AnswerIsTrue(q)
  <1>1. "200" \in Answers /\ "404" \in Answers /\ "lock" \notin Answers
    BY DEF Answers
  <1>2. task[q] \in Task /\ TaskOK(task[q]) /\ task \in [Requests -> Task]
    BY Moving
  <1>3. CASE LockRow(q)
    <2>1. task'[q].pc = "lock"
      BY <1>2, <1>3 DEF LockRow, Task
    <2>2. QED
      BY <2>1 DEF AnswerIsTrue
  <1>4. CASE Cascade(q)
    <2>1. /\ task[q].pc = "lock" /\ task[q].op \in {"delete", "deleteAll"}
          /\ DeleteRows(task[q].rows)
          /\ Answer(q, IF task[q].op = "delete" /\ task[q].rows = {} THEN "404" ELSE "200")
      BY <1>2, <1>4 DEF Cascade, TaskOK
    <2>2. CASE task[q].op = "deleteAll"
      <3>1. task'[q].pc = "200"
        BY <1>1, <2>1, <2>2, AnswersWith
      <3>2. QED
        BY <2>2, <3>1 DEF AnswerIsTrue
    <2>3. CASE task[q].op = "delete"
      <3>1. task[q].record \in Records /\ task[q].record # None
            /\ task[q].rows \subseteq {task[q].record}
            /\ (task[q].record \in task[q].rows \/ owner[task[q].record] = "deleted")
        BY <1>2, <2>1, <2>3 DEF TaskOK, Task, Ops
      <3>2. CASE task[q].rows = {}
        <4>1. task[q].user \in Users \cup {None}
          BY <1>2 DEF Task
        <4>2. "deleted" \notin Users \cup {None}
          OBVIOUS
        <4>3. ~Owns(task[q].user, task[q].record)
          BY <3>1, <3>2, <4>1, <4>2 DEF Owns
        <4>4. task'[q].pc = "404" /\ Answers404(q)
          BY <1>1, <2>1, <2>3, <3>2, <4>3, AnswersWith, NotFound DEF Ops
        <4>5. QED
          BY <4>4 DEF AnswerIsTrue
      <3>3. CASE task[q].rows # {}
        <4>1. task[q].record \in task[q].rows
          BY <3>1, <3>3
        <4>2. owner'[task[q].record] = "deleted"
          BY <2>1, <3>1, <4>1 DEF DeleteRows
        <4>3. task'[q].pc = "200"
          BY <1>1, <2>1, <3>3, AnswersWith
        <4>4. QED
          BY <4>2, <4>3 DEF AnswerIsTrue
      <3>4. QED
        BY <3>2, <3>3
    <2>4. QED
      BY <2>1, <2>2, <2>3
  <1>5. QED
    BY <1>3, <1>4 DEF Deletion

LEMMA EntryAnswers ==
  ASSUME IInv, NEW q \in Requests, EntryStep(q)
  PROVE  AnswerIsTrue(q)
  <1>1. \A a \in {"200", "404", "error"} : a \in Answers
    BY DEF Answers
  <1>2. CASE UpsertFind(q)
    <2>1. task[q].op = "upsertEntry"
      BY <1>2 DEF UpsertFind, At
    <2>2. Goto(q, "upsert") \/ (Answer(q, "404") /\ Answers404(q))
      BY <1>2, <2>1, NotFound DEF UpsertFind, Ops
    <2>3. task'[q].pc \notin Answers \/ (task'[q].pc = "404" /\ Answers404(q))
      BY <1>1, <2>2, AnswersWith, MovesTo DEF Places
    <2>4. QED
      BY <2>1, <2>3 DEF AnswerIsTrue, Answers
  <1>3. CASE UpsertEntry(q)
    <2>1. task'[q].pc \notin Answers
      BY <1>3, MovesTo DEF UpsertEntry, Places
    <2>2. QED
      BY <2>1 DEF AnswerIsTrue, Answers
  <1>4. CASE UpsertFails(q)
    <2>1. task[q].op = "upsertEntry" /\ task[q].pc = "upsert" /\ task[q].record \notin Live
      BY <1>4 DEF UpsertFails, At
    <2>2. task[q].op \in DOMAIN AfterCheck /\ task[q].pc \in AfterCheck[task[q].op]
      BY <2>1 DEF AfterCheck
    <2>3. owner[task[q].record] = "deleted"
      BY <2>1, <2>2, GoneIsDeleted
    <2>4. task'[q].pc = "error"
      BY <1>1, <1>4, AnswersWith DEF UpsertFails
    <2>5. QED
      BY <2>1, <2>3, <2>4 DEF AnswerIsTrue
  <1>5. CASE Commit(q)
    <2>1. task'[q].pc = "200" /\ task[q].op = "upsertEntry"
      BY <1>1, <1>5, AnswersWith DEF Commit, At
    <2>2. QED
      BY <2>1 DEF AnswerIsTrue
  <1>6. CASE RemoveEntry(q)
    <2>1. task[q].op = "deleteEntry"
      BY <1>6 DEF RemoveEntry, At
    <2>2. Answer(q, "200") \/ (Answer(q, "404") /\ Answers404(q))
      <3>1. CASE Owns(task[q].user, task[q].record) /\ task[q].day \in entries[task[q].record]
        BY <1>6, <3>1 DEF RemoveEntry
      <3>2. CASE task[q].day \notin entries[task[q].record]
        BY <1>6, <2>1, <3>2 DEF RemoveEntry, Answers404
      <3>3. CASE ~Owns(task[q].user, task[q].record)
        BY <1>6, <2>1, <3>3, NotFound DEF RemoveEntry, Ops
      <3>4. QED
        BY <3>1, <3>2, <3>3
    <2>3. task'[q].pc = "200" \/ (task'[q].pc = "404" /\ Answers404(q))
      BY <1>1, <2>2, AnswersWith
    <2>4. QED
      BY <2>1, <2>3 DEF AnswerIsTrue
  <1>7. QED
    BY <1>2, <1>3, <1>4, <1>5, <1>6 DEF EntryStep

LEMMA PhotoAnswers ==
  ASSUME IInv, NEW q \in Requests, PhotoStep(q)
  PROVE  AnswerIsTrue(q)
  <1> USE DEF At
  <1>1. \A a \in {"200", "400", "404", "413", "error"} : a \in Answers
    BY DEF Answers
  <1>2. task[q] \in Task /\ TaskOK(task[q]) /\ task \in [Requests -> Task]
    BY Moving
  <1>3. CASE RefuseUpload(q)
    <2>1. task'[q].pc \in {"400", "413"}
      BY <1>1, <1>3, AnswersWith DEF RefuseUpload
    <2>2. QED
      BY <2>1 DEF AnswerIsTrue
  <1>4. CASE FindUsage(q) \/ OwnsPhotoRecord(q)
    <2>1. task[q].op = "addPhoto"
      BY <1>4 DEF FindUsage, OwnsPhotoRecord
    <2>2. \/ task' = [task EXCEPT ![q].pc = "measure", ![q].left = {"count", "sum"}]
          \/ Goto(q, "store")
          \/ Answer(q, "404") /\ Answers404(q)
      BY <1>4, <2>1, NotFound DEF FindUsage, OwnsPhotoRecord, Ops
    <2>3. \/ task'[q].pc \in {"measure"} \/ task'[q].pc \notin Answers
          \/ task'[q].pc = "404" /\ Answers404(q)
      <3>1. CASE task' = [task EXCEPT ![q].pc = "measure", ![q].left = {"count", "sum"}]
        BY <1>2, <3>1 DEF Task
      <3>2. CASE Goto(q, "store")
        BY <3>2, MovesTo DEF Places
      <3>3. CASE Answer(q, "404") /\ Answers404(q)
        BY <1>1, <3>3, AnswersWith
      <3>4. QED
        BY <2>2, <3>1, <3>2, <3>3
    <2>4. QED
      BY <2>1, <2>3 DEF AnswerIsTrue, Answers
  <1>5. CASE Measure(q)
    <2>1. task'[q].pc \in {"inspect", "measure"}
      BY <1>2, <1>5 DEF Measure, Task
    <2>2. QED
      BY <2>1 DEF AnswerIsTrue
  <1>6. CASE Inspect(q)
    <2>1. Answer(q, "413") \/ Answer(q, "400") \/ Goto(q, "own")
      BY <1>6 DEF Inspect
    <2>2. task'[q].pc \in {"413", "400"} \/ task'[q].pc \notin Answers
      BY <1>1, <2>1, AnswersWith, MovesTo DEF Places
    <2>3. QED
      BY <2>2 DEF AnswerIsTrue, Answers
  <1>7. CASE StorePhoto(q)
    <2>1. task[q].op = "addPhoto" /\ task[q].pc = "store"
          /\ (Answer(q, "200") \/ (Answer(q, "error") /\ task[q].record \notin Live))
      BY <1>7 DEF StorePhoto
    <2>2. task[q].op \in DOMAIN AfterCheck /\ task[q].pc \in AfterCheck[task[q].op]
      BY <2>1 DEF AfterCheck
    <2>3. task'[q].pc = "200" \/ (task'[q].pc = "error" /\ task[q].record \notin Live
                                  /\ owner[task[q].record] = "deleted")
      BY <1>1, <2>1, <2>2, AnswersWith, GoneIsDeleted
    <2>4. QED
      BY <2>1, <2>3 DEF AnswerIsTrue
  <1>8. CASE RemovePhoto(q)
    <2>1. task[q].op = "deletePhoto" /\ task[q].item # None
      BY <1>2, <1>8 DEF RemovePhoto, TaskOK
    <2>2. Answer(q, "200") \/ (Answer(q, "404") /\ Answers404(q))
      BY <1>8, <2>1 DEF RemovePhoto, Answers404
    <2>3. task'[q].pc = "200" \/ (task'[q].pc = "404" /\ Answers404(q))
      BY <1>1, <2>2, AnswersWith
    <2>4. QED
      BY <2>1, <2>3 DEF AnswerIsTrue
  <1>9. QED
    BY <1>3, <1>4, <1>5, <1>6, <1>7, <1>8 DEF PhotoStep

LEMMA PlaceAnswers ==
  ASSUME IInv, NEW q \in Requests, PlaceStep(q)
  PROVE  AnswerIsTrue(q)
  <1> USE DEF At
  <1>1. \A a \in {"200", "404", "409", "502", "503", "504", "error"} : a \in Answers
    BY DEF Answers
  <1>2. task[q] \in Task /\ TaskOK(task[q]) /\ task \in [Requests -> Task]
    BY Moving
  <1>3. CASE FindPlaces(q) \/ OwnsPlaceRecord(q)
    <2>1. task[q].op = "addPlace"
      BY <1>3 DEF FindPlaces, OwnsPlaceRecord
    <2>2. Goto(q, "verify") \/ Goto(q, "store") \/ (Answer(q, "404") /\ Answers404(q))
      BY <1>3, <2>1, NotFound DEF FindPlaces, OwnsPlaceRecord, Ops
    <2>3. task'[q].pc \notin Answers \/ (task'[q].pc = "404" /\ Answers404(q))
      BY <1>1, <2>2, AnswersWith, MovesTo DEF Places
    <2>4. QED
      BY <2>1, <2>3 DEF AnswerIsTrue, Answers
  <1>4. CASE Verify(q)
    <2> DEFINE t == task[q]
    <2>1. t.pc = "verify" /\ t.op \in {"addPlace", "updatePlace"}
      BY <1>2, <1>4 DEF Verify, TaskOK
    <2>2. PICK code \in DetailCodes(t.content) :
            IF code = "ok"
            THEN task' = [task EXCEPT ![q].codes = resolveKtoRegionCodes(KtoItems[t.content]),
                                      ![q].pc = IF t.op = "addPlace" THEN "own" ELSE "store"]
            ELSE Answer(q, code)
      BY <1>4 DEF Verify
    <2>3. CASE code = "ok"
      <3>1. task'[q].pc \in {"own", "store"}
        BY <1>2, <2>2, <2>3 DEF Task
      <3>2. QED
        BY <3>1 DEF AnswerIsTrue
    <2>4. CASE code # "ok"
      <3>1. code \in {"404", "502", "503", "504"} /\ task'[q].pc = code
        BY <1>1, <2>2, <2>4, DetailCodesAre, AnswersWith
      <3>2. code = "404" => t.content \notin DOMAIN KtoItems \/ ~parseListItem(t.content)
        BY DEF DetailCodes, findDetail, request
      <3>3. code = "404" => Answers404(q)
        BY <2>1, <3>2 DEF Answers404
      <3>4. QED
        BY <2>1, <3>1, <3>3 DEF AnswerIsTrue
    <2>5. QED
      BY <2>3, <2>4
  <1>5. CASE StorePlace(q)
    <2> DEFINE t == task[q]
               row(i) == [id |-> i, record |-> t.record, content |-> t.content, day |-> t.day,
                          area |-> t.codes.area, sigungu |-> t.codes.sigungu]
    <2>1. t.op = "addPlace" /\ t.pc = "store"
      BY <1>5 DEF StorePlace
    <2>2. t.op \in DOMAIN AfterCheck /\ t.pc \in AfterCheck[t.op]
      BY <2>1 DEF AfterCheck
    <2>3. CASE t.record \notin Live
      <3>1. owner[t.record] = "deleted"
        BY <2>2, <2>3, GoneIsDeleted
      <3>2. task'[q].pc = "error"
        BY <1>1, <1>5, <2>3, AnswersWith DEF StorePlace
      <3>3. QED
        BY <2>1, <2>3, <3>1, <3>2 DEF AnswerIsTrue
    <2>4. CASE t.record \in Live
      <3>1. PICK i \in Visits \ used :
              IF Taken(row(i)) THEN Answer(q, "409") ELSE Answer(q, "200")
        BY <1>5, <2>4 DEF StorePlace
      <3>2. Taken(row(i)) => \E v \in PlacesOf(t.record) : v.content = t.content /\ v.day = t.day
        BY DEF Taken, PlacesOf
      <3>3. \/ task'[q].pc = "200"
            \/ task'[q].pc = "409" /\ \E v \in PlacesOf(t.record) : v.content = t.content /\ v.day = t.day
        BY <1>1, <3>1, <3>2, AnswersWith
      <3>4. QED
        BY <2>1, <3>3 DEF AnswerIsTrue
    <2>5. QED
      BY <2>3, <2>4
  <1>6. CASE UpdatePlace(q)
    <2> DEFINE t == task[q]
    <2>1. t.op = "updatePlace"
      BY <1>6 DEF UpdatePlace
    <2>2. CASE PlaceRows(t) = {}
      <3>1. task'[q].pc = "404" /\ Answers404(q)
        BY <1>1, <1>6, <2>1, <2>2, AnswersWith DEF UpdatePlace, Answers404
      <3>2. QED
        BY <3>1 DEF AnswerIsTrue
    <2>3. CASE PlaceRows(t) # {}
      <3>1. PICK v \in PlaceRows(t) :
              IF Taken(Patched(v, t)) THEN Answer(q, "409") ELSE Goto(q, "reread")
        BY <1>6, <2>3 DEF UpdatePlace
      <3>2. CASE ~Taken(Patched(v, t))
        <4>1. task'[q].pc \notin Answers
          BY <3>1, <3>2, MovesTo DEF Places
        <4>2. QED
          BY <4>1 DEF AnswerIsTrue, Answers
      <3>3. CASE Taken(Patched(v, t))
        <4>1. v \in places /\ v.record = t.record /\ v \in PlaceRow
          BY Moving DEF PlaceRows, PlacesOf, TypeOK, PlaceRow
        <4>2. /\ Patched(v, t).record = t.record
              /\ t.content # None => Patched(v, t).content = t.content
              /\ t.day # None => Patched(v, t).day = t.day
          BY <4>1 DEF Patched, PlaceRow
        <4>3. PICK w \in places : /\ w.record = Patched(v, t).record
                                  /\ w.content = Patched(v, t).content /\ w.day = Patched(v, t).day
          BY <3>3 DEF Taken
        <4>4. w \in PlacesOf(t.record) /\ t.content \in {None, w.content} /\ t.day \in {None, w.day}
          BY <4>2, <4>3 DEF PlacesOf
        <4>5. task'[q].pc = "409"
          BY <1>1, <3>1, <3>3, AnswersWith
        <4>6. QED
          BY <4>4, <4>5 DEF AnswerIsTrue
      <3>4. QED
        BY <3>2, <3>3
    <2>4. QED
      BY <2>2, <2>3
  <1>7. CASE RereadPlace(q) \/ RemovePlace(q)
    <2>1. task[q].op \in {"updatePlace", "deletePlace"}
      BY <1>7 DEF RereadPlace, RemovePlace
    <2>2. Answer(q, "200") \/ (Answer(q, "404") /\ Answers404(q))
      BY <1>7, <2>1 DEF RereadPlace, RemovePlace, Answers404
    <2>3. task'[q].pc = "200" \/ (task'[q].pc = "404" /\ Answers404(q))
      BY <1>1, <2>2, AnswersWith
    <2>4. QED
      BY <2>1, <2>3 DEF AnswerIsTrue
  <1>8. QED
    BY <1>3, <1>4, <1>5, <1>6, <1>7 DEF PlaceStep

\* What an answer says is so when it is given, whatever the other requests do: a
\* 404 names a row the caller does not have, a 409 a place that is there, and a
\* deletion's 200 a record that is gone (RecordsService, RecordPlacesService).
THEOREM AnswersStayTrue == Spec => AnswersAreTrue
  <1>1. ASSUME IInv, Next, NEW q \in Requests, ~Idle(q) PROVE AnswerIsTrue(q)
    <2>1. PICK p \in Requests : Arrive(p) \/ Runs(p) \/ Abort(p)
      BY <1>1 DEF Next
    <2>2. CASE p # q
      BY <1>1, <2>1, <2>2, OthersStay DEF AnswerIsTrue, Idle, Answers
    <2>3. CASE p = q /\ Arrive(q)
      BY <1>1, <2>3 DEF Arrive
    <2>4. CASE p = q /\ Abort(q)
      <3>1. task'[q].pc = "aborted"
        BY <1>1, <2>4, AnswersWith DEF Abort, Answers
      <3>2. QED
        BY <3>1 DEF AnswerIsTrue
    <2>5. CASE p = q /\ Runs(q)
      BY <1>1, <2>5, RecordAnswers, DeletionAnswers, EntryAnswers, PhotoAnswers, PlaceAnswers DEF Runs
    <2>6. QED
      BY <2>1, <2>2, <2>3, <2>4, <2>5
  <1>2. IInv /\ [Next]_vars => [\A q \in {x \in Requests : ~Idle(x)} : AnswerIsTrue(q)]_vars
    BY <1>1
  <1>3. QED
    BY <1>2, RecordsInvariance, PTL DEF Spec, AnswersAreTrue

(***************************************************************************)
(* The quota.                                                              *)
(***************************************************************************)
LEMMA SumShrinks ==
  ASSUME NEW A, NEW B, NEW A2 \in SUBSET A, NEW B2 \in SUBSET B, IsFiniteSet(A), IsFiniteSet(B),
         NEW n \in Nat, Cardinality(A) + Cardinality(B) < n
  PROVE  IsFiniteSet(A2) /\ Cardinality(A2) + Cardinality(B2) < n
  <1>1. IsFiniteSet(A2) /\ Cardinality(A2) <= Cardinality(A)
    BY FS_Subset
  <1>2. IsFiniteSet(B2) /\ Cardinality(B2) <= Cardinality(B)
    BY FS_Subset
  <1>3. /\ Cardinality(A) \in Nat /\ Cardinality(B) \in Nat
        /\ Cardinality(A2) \in Nat /\ Cardinality(B2) \in Nat
    BY <1>1, <1>2, FS_CardinalityType
  <1>4. QED
    BY <1>1, <1>2, <1>3

LEMMA SumMoves ==
  ASSUME NEW A, NEW B, NEW x, NEW q \in B, IsFiniteSet(A), IsFiniteSet(B),
         NEW n \in Nat, Cardinality(A) + Cardinality(B) < n
  PROVE  Cardinality(A \cup {x}) + Cardinality(B \ {q}) < n
  <1>1. Cardinality(A \cup {x}) <= Cardinality(A) + 1
    <2>1. Cardinality(A) \in Nat
      BY FS_CardinalityType
    <2>2. Cardinality(A \cup {x}) = IF x \in A THEN Cardinality(A) ELSE Cardinality(A) + 1
      BY FS_AddElement, Zenon
    <2>3. QED
      BY <2>1, <2>2
  <1>2. IsFiniteSet(A \cup {x}) /\ IsFiniteSet(B \ {q}) /\ Cardinality(B \ {q}) = Cardinality(B) - 1
    BY FS_AddElement, FS_RemoveElement
  <1>3. /\ Cardinality(A) \in Nat /\ Cardinality(B) \in Nat
        /\ Cardinality(A \cup {x}) \in Nat /\ Cardinality(B \ {q}) \in Nat
    BY <1>2, FS_CardinalityType
  <1>4. QED
    BY <1>1, <1>2, <1>3

LEMMA RoomFound ==
  ASSUME NEW A, NEW B \in SUBSET Requests, IsFiniteSet(A), NEW m \in Nat, Cardinality(A) < m
  PROVE  Cardinality(A) + Cardinality(B) < m + Cardinality(Requests)
  <1>1. IsFiniteSet(B) /\ Cardinality(B) <= Cardinality(Requests)
    BY FS_Subset
  <1>2. Cardinality(A) \in Nat /\ Cardinality(B) \in Nat /\ Cardinality(Requests) \in Nat
    BY <1>1, FS_CardinalityType
  <1>3. QED
    BY <1>1, <1>2

LEMMA QuotaTypes ==
  ASSUME IsFiniteSet(photos)
  PROVE  /\ \A r : IsFiniteSet(PhotosOf(r)) /\ IsFiniteSet(ToRecord(r))
         /\ \A u : IsFiniteSet(PhotosOfUser(u)) /\ IsFiniteSet(ToUser(u))
         /\ MaxPhotos + Cardinality(Requests) \in Nat /\ MaxTotal + Cardinality(Requests) \in Nat
  <1>1. \A r : PhotosOf(r) \subseteq photos /\ ToRecord(r) \subseteq Requests
    BY DEF PhotosOf, ToRecord
  <1>2. \A u : PhotosOfUser(u) \subseteq photos /\ ToUser(u) \subseteq Requests
    BY DEF PhotosOfUser, ToUser
  <1>3. \A S \in SUBSET photos : IsFiniteSet(S)
    BY FS_Subset
  <1>4. \A S \in SUBSET Requests : IsFiniteSet(S)
    BY FS_Subset
  <1>5. Cardinality(Requests) \in Nat
    BY FS_CardinalityType
  <1>6. QED
    BY <1>1, <1>2, <1>3, <1>4, <1>5

LEMMA InitQuota == Init => QuotaIInv
  <1> SUFFICES ASSUME Init PROVE QuotaIInv
    OBVIOUS
  <1>1. IsFiniteSet(photos) /\ photos = {} /\ Cardinality({}) = 0
    BY FS_EmptySet DEF Init
  <1>2. \A q \in Requests : task[q].op = None
    BY DEF Init, Done
  <1>3. "addPhoto" # None
    BY DEF Ops
  <1>4. \A r : PhotosOf(r) = {} /\ ToRecord(r) = {}
    BY <1>1, <1>2, <1>3 DEF PhotosOf, ToRecord, Uploading
  <1>5. \A u : PhotosOfUser(u) = {} /\ ToUser(u) = {}
    BY <1>1, <1>2, <1>3 DEF PhotosOfUser, ToUser, Uploading
  <1>6. Cardinality(Requests) \in Nat /\ Cardinality(Requests) > 0
    BY FS_CardinalityType, FS_EmptySet
  <1>7. 0 + 0 < MaxPhotos + Cardinality(Requests) /\ 0 + 0 < MaxTotal + Cardinality(Requests)
    BY <1>6
  <1>8. /\ \A r \in Records : Cardinality(PhotosOf(r)) = 0 /\ Cardinality(ToRecord(r)) = 0
        /\ \A u \in Users : Cardinality(PhotosOfUser(u)) = 0 /\ Cardinality(ToUser(u)) = 0
    BY <1>1, <1>4, <1>5
  <1>9. QED
    BY <1>1, <1>7, <1>8 DEF QuotaIInv

\* Every step but StorePhoto leaves to a record or a user at most the photos it had.
LEMMA PhotosShrink ==
  ASSUME IInv, NEW q \in Requests, Arrive(q) \/ Runs(q) \/ Abort(q), ~StorePhoto(q)
  PROVE  /\ photos' \subseteq photos
         /\ \A r : PhotosOf(r)' \subseteq PhotosOf(r)
         /\ \A u \in Users : PhotosOfUser(u)' \subseteq PhotosOfUser(u)
  <1>1. TypeOK
    BY Moving
  <1>2. photos' \subseteq photos /\ \A r \in Records : owner[r] # "new" => owner'[r] \in {owner[r], "deleted"}
    <2>1. CASE Create(q)
      BY <1>1, <2>1 DEF Create, TypeOK
    <2>2. CASE Cascade(q)
      BY <2>2 DEF Cascade, DeleteRows
    <2>3. CASE RemovePhoto(q)
      BY <2>3 DEF RemovePhoto
    <2>4. CASE UNCHANGED <<owner, photos>>
      BY <2>4
    <2>5. CASE Arrive(q) \/ Abort(q)
      BY <2>4, <2>5 DEF Arrive, Abort, db
    <2>6. CASE RecordStep(q)
      BY <2>1, <2>4, <2>6 DEF RecordStep, Get, Update, Reread, FindRows, db
    <2>7. CASE Deletion(q)
      BY <2>2, <2>4, <2>7 DEF Deletion, LockRow, db
    <2>8. CASE EntryStep(q)
      BY <2>4, <2>8 DEF EntryStep, UpsertFind, UpsertEntry, UpsertFails, Commit, RemoveEntry, db
    <2>9. CASE PhotoStep(q)
      BY <2>3, <2>4, <2>9 DEF PhotoStep, RefuseUpload, FindUsage, Measure, Inspect, OwnsPhotoRecord, db
    <2>10. CASE PlaceStep(q)
      BY <2>4, <2>10 DEF PlaceStep, FindPlaces, Verify, OwnsPlaceRecord, StorePlace, UpdatePlace,
                         RereadPlace, RemovePlace, db
    <2>11. QED
      BY <2>5, <2>6, <2>7, <2>8, <2>9, <2>10 DEF Runs
  <1>3. \A p \in photos : p.record \in Records /\ owner[p.record] \in Users
    BY DEF IInv, RowsAgree, NoOrphans, Live
  <1>4. \A r : PhotosOf(r)' \subseteq PhotosOf(r)
    BY <1>2 DEF PhotosOf
  <1>5. \A u \in Users : PhotosOfUser(u)' \subseteq PhotosOfUser(u)
    BY <1>2, <1>3 DEF PhotosOfUser, Owns
  <1>6. QED
    BY <1>2, <1>4, <1>5

\* Only the two measures make a request one of the uploads that found room.
LEMMA UploadsShrink ==
  ASSUME IInv, NEW q \in Requests, Arrive(q) \/ Runs(q) \/ Abort(q), ~Measure(q),
         NEW m \in {"count", "sum"}, Uploading(q, m)'
  PROVE  /\ Uploading(q, m) /\ ~StorePhoto(q)
         /\ task'[q].record = task[q].record /\ task'[q].user = task[q].user
  <1> USE DEF At
  <1>1. task[q] \in Task /\ TaskOK(task[q]) /\ task \in [Requests -> Task]
    BY Moving
  <1>2. task'[q].op = "addPhoto" /\ task'[q].pc \in {"measure", "inspect", "own", "store"}
        /\ task'[q].room /\ m \notin task'[q].left
    BY DEF Uploading, AfterCheck
  <1>3. ASSUME NEW a \in Answers, Answer(q, a) PROVE FALSE
    BY <1>2, <1>3, AnswersWith DEF Answers
  <1>4. ~(Arrive(q) \/ Abort(q))
    <2>1. CASE Abort(q)
      BY <1>3, <2>1 DEF Abort, Answers
    <2>2. ASSUME NEW op \in Ops, NEW pc, pc \notin {"measure", "inspect", "own"}, pc # "store" \/ op # "addPhoto",
                 NEW u, NEW r, NEW d, NEW i, NEW c, Sent(q, op, pc, u, r, d, i, c)
          PROVE  FALSE
      BY <1>1, <1>2, <2>2 DEF Sent, Done
    <2>3. CASE Arrive(q)
      BY <2>2, <2>3 DEF Arrive, Ops
    <2>4. QED
      BY <2>1, <2>3
  <1>5. ASSUME task[q].op # "addPhoto" PROVE FALSE
    <2>1. task'[q].op # task[q].op
      BY <1>2, <1>5
    <2>2. ASSUME NEW pc, Goto(q, pc) PROVE FALSE
      BY <1>1, <2>1, <2>2 DEF Goto, Task
    <2>3. ~FindRows(q)
      BY <1>1, <1>3, <2>1 DEF FindRows, Task, Answers
    <2>4. ~RecordStep(q)
      <3>1. ~Create(q) /\ ~Get(q)
        BY <1>3 DEF Create, Get, Answers
      <3>2. ~Update(q) /\ ~Reread(q)
        BY <1>3, <2>2 DEF Update, Reread, Answers
      <3>3. QED
        BY <2>3, <3>1, <3>2 DEF RecordStep
    <2>5. ~Deletion(q)
      BY <1>1, <1>3, <2>1 DEF Deletion, LockRow, Cascade, Task, Answers
    <2>6. ~EntryStep(q)
      <3>1. ~UpsertFind(q) /\ ~UpsertEntry(q)
        BY <1>3, <2>2 DEF UpsertFind, UpsertEntry, Answers
      <3>2. ~UpsertFails(q) /\ ~Commit(q) /\ ~RemoveEntry(q)
        BY <1>3 DEF UpsertFails, Commit, RemoveEntry, Answers
      <3>3. QED
        BY <3>1, <3>2 DEF EntryStep
    <2>7. ~PhotoStep(q)
      BY <1>3, <1>5 DEF PhotoStep, RefuseUpload, FindUsage, Measure, Inspect, OwnsPhotoRecord,
                        StorePhoto, RemovePhoto, Answers
    <2>8. ~Verify(q)
      BY <1>1, <1>3, <2>1, DetailCodesAre DEF Verify, Task, Answers
    <2>9. ~PlaceStep(q)
      <3>1. ~FindPlaces(q) /\ ~OwnsPlaceRecord(q) /\ ~UpdatePlace(q)
        BY <1>3, <2>2 DEF FindPlaces, OwnsPlaceRecord, UpdatePlace, Answers
      <3>2. ~StorePlace(q) /\ ~RereadPlace(q) /\ ~RemovePlace(q)
        BY <1>3 DEF StorePlace, RereadPlace, RemovePlace, Answers
      <3>3. QED
        BY <2>8, <3>1, <3>2 DEF PlaceStep
    <2>10. QED
      BY <1>4, <2>4, <2>5, <2>6, <2>7, <2>9 DEF Runs
  <1>6. PhotoStep(q)
    <2>1. task[q].op = "addPhoto"
      BY <1>5
    <2>2. task[q].pc \notin {"rows", "lock", "verify"}
      BY <1>1, <2>1 DEF TaskOK
    <2>3. ~RecordStep(q) /\ ~EntryStep(q)
      BY <2>1, <2>2 DEF RecordStep, Create, Get, Update, Reread, FindRows,
                        EntryStep, UpsertFind, UpsertEntry, UpsertFails, Commit, RemoveEntry
    <2>4. ~Deletion(q) /\ ~PlaceStep(q)
      BY <2>1, <2>2 DEF Deletion, LockRow, Cascade, PlaceStep, FindPlaces, Verify, OwnsPlaceRecord,
                        StorePlace, UpdatePlace, RereadPlace, RemovePlace
    <2>5. QED
      BY <1>4, <2>3, <2>4 DEF Runs
  <1>7. ~FindUsage(q)
    <2>1. CASE FindUsage(q)
      <3>1. task' = [task EXCEPT ![q].pc = "measure", ![q].left = {"count", "sum"}]
        BY <1>3, <2>1 DEF FindUsage, Answers
      <3>2. task'[q].left = {"count", "sum"}
        BY <1>1, <3>1 DEF Task
      <3>3. QED
        BY <1>2, <3>2
    <2>2. QED
      BY <2>1
  <1>8. ~StorePhoto(q) /\ ~RefuseUpload(q) /\ ~RemovePhoto(q)
    BY <1>3 DEF StorePhoto, RefuseUpload, RemovePhoto, Answers
  <1>9. Inspect(q) \/ OwnsPhotoRecord(q)
    BY <1>6, <1>7, <1>8 DEF PhotoStep
  <1>10. PICK pc \in {"own", "store"} : Goto(q, pc)
    BY <1>3, <1>9 DEF Inspect, OwnsPhotoRecord, Answers
  <1>11. /\ task'[q].record = task[q].record /\ task'[q].user = task[q].user
         /\ task'[q].room = task[q].room /\ task'[q].left = task[q].left
    BY <1>1, <1>10 DEF Goto, Task
  <1>12. Uploading(q, m)
    BY <1>2, <1>9, <1>11 DEF Uploading, AfterCheck, Inspect, OwnsPhotoRecord
  <1>13. QED
    BY <1>8, <1>11, <1>12

LEMMA TargetsShrink ==
  ASSUME IInv, NEW q \in Requests, Arrive(q) \/ Runs(q) \/ Abort(q), ~Measure(q)
  PROVE  /\ \A r : ToRecord(r)' \subseteq ToRecord(r) \ (IF StorePhoto(q) THEN {q} ELSE {})
         /\ \A u : ToUser(u)' \subseteq ToUser(u) \ (IF StorePhoto(q) THEN {q} ELSE {})
  <1>1. ASSUME NEW p \in Requests, NEW m \in {"count", "sum"}, Uploading(p, m)'
        PROVE  /\ Uploading(p, m) /\ (p = q => ~StorePhoto(q))
               /\ task'[p].record = task[p].record /\ task'[p].user = task[p].user
    <2>1. CASE p = q
      BY <1>1, <2>1, UploadsShrink
    <2>2. CASE p # q
      <3>1. task'[p] = task[p]
        BY <2>2, OthersStay
      <3>2. QED
        BY <1>1, <2>2, <3>1 DEF Uploading
    <2>3. QED
      BY <2>1, <2>2
  <1>2. \A r : ToRecord(r)' \subseteq ToRecord(r) \ (IF StorePhoto(q) THEN {q} ELSE {})
    BY <1>1 DEF ToRecord
  <1>3. \A u : ToUser(u)' \subseteq ToUser(u) \ (IF StorePhoto(q) THEN {q} ELSE {})
    BY <1>1 DEF ToUser
  <1>4. QED
    BY <1>2, <1>3

LEMMA MeasureQuota ==
  ASSUME IInv, QuotaIInv, NEW q \in Requests, Measure(q)
  PROVE  QuotaIInv'
  <1> DEFINE t == task[q]
  <1>1. t \in Task /\ TaskOK(t) /\ task \in [Requests -> Task]
    BY Moving
  <1>2. UNCHANGED <<owner, photos>> /\ t.op = "addPhoto" /\ t.pc = "measure"
    BY DEF Measure, db, At
  <1>3. PICK m \in t.left : task' = [task EXCEPT ![q].room = @ /\ Room(t, m), ![q].left = @ \ {m},
                                                 ![q].pc = IF t.left = {m} THEN "inspect" ELSE @]
    BY DEF Measure
  <1>4. m \in {"count", "sum"} /\ t.record \in Records /\ t.user \in Users /\ t.room \in BOOLEAN
    <2>1. t.op \notin {None, "create", "deleteAll"} /\ t.op \in DOMAIN AfterCheck /\ t.pc \in AfterCheck[t.op]
      BY <1>2 DEF AfterCheck, Ops
    <2>2. QED
      BY <1>1, <2>1 DEF TaskOK, Task
  <1>5. /\ task'[q].record = t.record /\ task'[q].user = t.user /\ task'[q].left = t.left \ {m}
        /\ task'[q].room <=> t.room /\ Room(t, m)
    BY <1>1, <1>3, <1>4 DEF Task
  <1>6. \A p \in Requests : p # q => task'[p] = task[p]
    BY <1>1, <1>3
  <1>7. ASSUME NEW p \in Requests, NEW k \in {"count", "sum"}, Uploading(p, k)'
        PROVE  /\ task'[p].record = task[p].record /\ task'[p].user = task[p].user
               /\ Uploading(p, k) \/ (p = q /\ k = m /\ Room(t, m))
    <2>1. CASE p # q
      BY <1>6, <1>7, <2>1 DEF Uploading
    <2>2. CASE p = q
      <3>1. t.room /\ Room(t, m) /\ k \notin t.left \ {m}
        BY <1>5, <1>7, <2>2 DEF Uploading
      <3>2. k = m \/ Uploading(q, k)
        BY <1>2, <3>1 DEF Uploading, AfterCheck
      <3>3. QED
        BY <1>5, <2>2, <3>1, <3>2
    <2>3. QED
      BY <2>1, <2>2
  <1>8. ASSUME NEW r \in Records
        PROVE  Cardinality(PhotosOf(r)') + Cardinality(ToRecord(r)') < MaxPhotos + Cardinality(Requests)
    <2>1. PhotosOf(r)' = PhotosOf(r) /\ IsFiniteSet(PhotosOf(r)) /\ ToRecord(r)' \subseteq Requests
      BY <1>2, QuotaTypes DEF QuotaIInv, PhotosOf, ToRecord
    <2>2. CASE m = "count" /\ Room(t, m) /\ r = t.record
      <3>1. Cardinality(PhotosOf(r)) < MaxPhotos
        BY <2>2 DEF Room
      <3>2. QED
        BY <2>1, <3>1, RoomFound
    <2>3. CASE ~(m = "count" /\ Room(t, m) /\ r = t.record)
      <3>1. ToRecord(r)' \subseteq ToRecord(r)
        BY <1>5, <1>7, <2>3 DEF ToRecord
      <3>2. QED
        BY <2>1, <3>1, QuotaTypes, SumShrinks DEF QuotaIInv
    <2>4. QED
      BY <2>2, <2>3
  <1>9. ASSUME NEW u \in Users
        PROVE  Cardinality(PhotosOfUser(u)') + Cardinality(ToUser(u)') < MaxTotal + Cardinality(Requests)
    <2>1. PhotosOfUser(u)' = PhotosOfUser(u) /\ IsFiniteSet(PhotosOfUser(u)) /\ ToUser(u)' \subseteq Requests
      BY <1>2, QuotaTypes DEF QuotaIInv, PhotosOfUser, ToUser, Owns
    <2>2. CASE m = "sum" /\ Room(t, m) /\ u = t.user
      <3>1. Cardinality(PhotosOfUser(u)) + 1 <= MaxTotal
        BY <2>2 DEF Room
      <3>2. Cardinality(PhotosOfUser(u)) < MaxTotal
        BY <2>1, <3>1, FS_CardinalityType
      <3>3. QED
        BY <2>1, <3>2, RoomFound
    <2>3. CASE ~(m = "sum" /\ Room(t, m) /\ u = t.user)
      <3>1. ToUser(u)' \subseteq ToUser(u)
        BY <1>5, <1>7, <2>3 DEF ToUser
      <3>2. QED
        BY <2>1, <3>1, QuotaTypes, SumShrinks DEF QuotaIInv
    <2>4. QED
      BY <2>2, <2>3
  <1>10. QED
    BY <1>2, <1>8, <1>9 DEF QuotaIInv

LEMMA StorePhotoQuota ==
  ASSUME IInv, QuotaIInv, NEW q \in Requests, StorePhoto(q), task[q].record \in Live
  PROVE  QuotaIInv'
  <1> DEFINE t == task[q]
  <1>1. t \in Task /\ TaskOK(t) /\ t.op = "addPhoto" /\ t.pc = "store"
    BY Moving DEF StorePhoto, At
  <1>2. /\ t.record \in Records /\ t.user \in Users /\ owner[t.record] = t.user
        /\ t.room /\ t.left = {}
    <2>1. t.op \in DOMAIN AfterCheck /\ t.pc \in AfterCheck[t.op]
      BY <1>1 DEF AfterCheck
    <2>2. t.user # None /\ owner[t.record] \in {t.user, "deleted"} /\ t.room /\ t.left = {}
      BY <1>1, <2>1 DEF TaskOK
    <2>3. QED
      BY <1>1, <2>2 DEF Live, Task
  <1>3. PICK i \in Photos \ used : photos' = photos \cup {[id |-> i, record |-> t.record, day |-> t.day]}
    BY DEF StorePhoto
  <1> DEFINE x == [id |-> i, record |-> t.record, day |-> t.day]
  <1>4. photos' = photos \cup {x} /\ x.record = t.record /\ UNCHANGED owner
    BY <1>3 DEF StorePhoto
  <1> HIDE DEF x
  <1>5. Uploading(q, "count") /\ Uploading(q, "sum")
    BY <1>1, <1>2 DEF Uploading, AfterCheck
  <1>6. /\ \A r : ToRecord(r)' \subseteq ToRecord(r) \ {q}
        /\ \A u : ToUser(u)' \subseteq ToUser(u) \ {q}
    <2>1. Runs(q) /\ ~Measure(q)
      BY <1>1 DEF Runs, PhotoStep, Measure, At
    <2>2. QED
      BY <2>1, TargetsShrink
  <1>7. IsFiniteSet(photos')
    BY <1>4, FS_AddElement DEF QuotaIInv
  <1>8. ASSUME NEW r \in Records
        PROVE  Cardinality(PhotosOf(r)') + Cardinality(ToRecord(r)') < MaxPhotos + Cardinality(Requests)
    <2>1. /\ IsFiniteSet(PhotosOf(r)) /\ IsFiniteSet(ToRecord(r)) /\ MaxPhotos + Cardinality(Requests) \in Nat
          /\ Cardinality(PhotosOf(r)) + Cardinality(ToRecord(r)) < MaxPhotos + Cardinality(Requests)
      BY QuotaTypes DEF QuotaIInv
    <2>2. CASE r = t.record
      <3>1. q \in ToRecord(r) /\ PhotosOf(r)' \subseteq PhotosOf(r) \cup {x}
        BY <1>4, <1>5, <2>2 DEF ToRecord, PhotosOf
      <3>2. Cardinality(PhotosOf(r) \cup {x}) + Cardinality(ToRecord(r) \ {q}) < MaxPhotos + Cardinality(Requests)
        BY <2>1, <3>1, SumMoves
      <3>3. IsFiniteSet(PhotosOf(r) \cup {x}) /\ IsFiniteSet(ToRecord(r) \ {q})
        BY <2>1, FS_AddElement, FS_RemoveElement
      <3>4. QED
        BY <1>6, <2>1, <3>1, <3>2, <3>3, SumShrinks
    <2>3. CASE r # t.record
      <3>1. PhotosOf(r)' \subseteq PhotosOf(r) /\ ToRecord(r)' \subseteq ToRecord(r)
        BY <1>4, <1>6, <2>3 DEF PhotosOf
      <3>2. QED
        BY <2>1, <3>1, SumShrinks
    <2>4. QED
      BY <2>2, <2>3
  <1>9. ASSUME NEW u \in Users
        PROVE  Cardinality(PhotosOfUser(u)') + Cardinality(ToUser(u)') < MaxTotal + Cardinality(Requests)
    <2>1. /\ IsFiniteSet(PhotosOfUser(u)) /\ IsFiniteSet(ToUser(u)) /\ MaxTotal + Cardinality(Requests) \in Nat
          /\ Cardinality(PhotosOfUser(u)) + Cardinality(ToUser(u)) < MaxTotal + Cardinality(Requests)
      BY QuotaTypes DEF QuotaIInv
    <2>2. CASE u = t.user
      <3>1. q \in ToUser(u) /\ PhotosOfUser(u)' \subseteq PhotosOfUser(u) \cup {x}
        BY <1>4, <1>5, <2>2 DEF ToUser, PhotosOfUser, Owns
      <3>2. Cardinality(PhotosOfUser(u) \cup {x}) + Cardinality(ToUser(u) \ {q}) < MaxTotal + Cardinality(Requests)
        BY <2>1, <3>1, SumMoves
      <3>3. IsFiniteSet(PhotosOfUser(u) \cup {x}) /\ IsFiniteSet(ToUser(u) \ {q})
        BY <2>1, FS_AddElement, FS_RemoveElement
      <3>4. QED
        BY <1>6, <2>1, <3>1, <3>2, <3>3, SumShrinks
    <2>3. CASE u # t.user
      <3>1. PhotosOfUser(u)' \subseteq PhotosOfUser(u) /\ ToUser(u)' \subseteq ToUser(u)
        BY <1>2, <1>4, <1>6, <2>3 DEF PhotosOfUser, Owns
      <3>2. QED
        BY <2>1, <3>1, SumShrinks
    <2>4. QED
      BY <2>2, <2>3
  <1>10. QED
    BY <1>7, <1>8, <1>9 DEF QuotaIInv

LEMMA NextQuota == IInv /\ QuotaIInv /\ [Next]_vars => QuotaIInv'
  <1> SUFFICES ASSUME IInv, QuotaIInv, [Next]_vars PROVE QuotaIInv'
    OBVIOUS
  <1>1. ASSUME photos' \subseteq photos,
               \A r \in Records : PhotosOf(r)' \subseteq PhotosOf(r) /\ ToRecord(r)' \subseteq ToRecord(r),
               \A u \in Users : PhotosOfUser(u)' \subseteq PhotosOfUser(u) /\ ToUser(u)' \subseteq ToUser(u)
        PROVE  QuotaIInv'
    <2>1. IsFiniteSet(photos')
      BY <1>1, FS_Subset DEF QuotaIInv
    <2>2. ASSUME NEW r \in Records
          PROVE  Cardinality(PhotosOf(r)') + Cardinality(ToRecord(r)') < MaxPhotos + Cardinality(Requests)
      BY <1>1, QuotaTypes, SumShrinks DEF QuotaIInv
    <2>3. ASSUME NEW u \in Users
          PROVE  Cardinality(PhotosOfUser(u)') + Cardinality(ToUser(u)') < MaxTotal + Cardinality(Requests)
      BY <1>1, QuotaTypes, SumShrinks DEF QuotaIInv
    <2>4. QED
      BY <2>1, <2>2, <2>3 DEF QuotaIInv
  <1>2. CASE UNCHANGED vars
    BY <1>1, <1>2 DEF vars, PhotosOf, PhotosOfUser, ToRecord, ToUser, Owns, Uploading
  <1>3. ASSUME NEW q \in Requests, Arrive(q) \/ Runs(q) \/ Abort(q) PROVE QuotaIInv'
    <2>1. CASE Measure(q)
      BY <2>1, MeasureQuota
    <2>2. CASE StorePhoto(q) /\ task[q].record \in Live
      BY <2>2, StorePhotoQuota
    <2>3. CASE StorePhoto(q) /\ task[q].record \notin Live
      <3>1. UNCHANGED <<owner, photos>> /\ ~Measure(q)
        BY <2>3 DEF StorePhoto, Measure, At
      <3>2. /\ \A r : PhotosOf(r)' \subseteq PhotosOf(r)
            /\ \A u : PhotosOfUser(u)' \subseteq PhotosOfUser(u)
        BY <3>1 DEF PhotosOf, PhotosOfUser, Owns
      <3>3. /\ \A r : ToRecord(r)' \subseteq ToRecord(r)
            /\ \A u : ToUser(u)' \subseteq ToUser(u)
        BY <1>3, <3>1, TargetsShrink
      <3>4. QED
        BY <1>1, <3>1, <3>2, <3>3
    <2>4. CASE ~Measure(q) /\ ~StorePhoto(q)
      <3>1. /\ \A r : ToRecord(r)' \subseteq ToRecord(r)
            /\ \A u : ToUser(u)' \subseteq ToUser(u)
        BY <1>3, <2>4, TargetsShrink
      <3>2. /\ photos' \subseteq photos
            /\ \A r : PhotosOf(r)' \subseteq PhotosOf(r)
            /\ \A u \in Users : PhotosOfUser(u)' \subseteq PhotosOfUser(u)
        BY <1>3, <2>4, PhotosShrink
      <3>3. QED
        BY <1>1, <3>1, <3>2
    <2>5. QED
      BY <2>1, <2>2, <2>3, <2>4
  <1>4. QED
    BY <1>2, <1>3 DEF Next

\* Uploads side by side pass the quota of a record and of a user by less than
\* one photo each, however they overlap with each other, with removals and with
\* deletions of the record (addPhoto, photoUsage).
THEOREM QuotaIsNearlyKept == Spec => []QuotaOvershoot
  <1>1. QuotaIInv => QuotaOvershoot
    <2> SUFFICES ASSUME QuotaIInv PROVE QuotaOvershoot
      OBVIOUS
    <2>1. /\ \A r \in Records : IsFiniteSet(PhotosOf(r)) /\ IsFiniteSet(ToRecord(r))
          /\ \A u \in Users : IsFiniteSet(PhotosOfUser(u)) /\ IsFiniteSet(ToUser(u))
          /\ MaxPhotos + Cardinality(Requests) \in Nat /\ MaxTotal + Cardinality(Requests) \in Nat
      BY QuotaTypes DEF QuotaIInv
    <2>2. ASSUME NEW r \in Live PROVE Cardinality(PhotosOf(r)) < MaxPhotos + Cardinality(Requests)
      <3>1. Cardinality(PhotosOf(r)) \in Nat /\ Cardinality(ToRecord(r)) \in Nat
        BY <2>1, FS_CardinalityType DEF Live
      <3>2. QED
        BY <2>1, <3>1 DEF QuotaIInv, Live
    <2>3. ASSUME NEW u \in Users PROVE Cardinality(PhotosOfUser(u)) < MaxTotal + Cardinality(Requests)
      <3>1. Cardinality(PhotosOfUser(u)) \in Nat /\ Cardinality(ToUser(u)) \in Nat
        BY <2>1, FS_CardinalityType
      <3>2. QED
        BY <2>1, <3>1 DEF QuotaIInv
    <2>4. QED
      BY <2>2, <2>3 DEF QuotaOvershoot
  <1>2. QED
    BY <1>1, InitQuota, NextQuota, RecordsInvariance, PTL DEF Spec

(***************************************************************************)
(* What the lists show.                                                    *)
(***************************************************************************)
LEMMA LeastAndGreatest ==
  ASSUME NEW K \in SUBSET Nat, IsFiniteSet(K), K # {}
  PROVE  /\ Least(K) \in K /\ \A y \in K : Least(K) <= y
         /\ Greatest(K) \in K /\ \A y \in K : Greatest(K) >= y
  <1>1. PICK s : s = Ascending(K)
    OBVIOUS
  <1>2. PICK c : c = Cardinality(K)
    OBVIOUS
  <1>3. /\ c \in Nat /\ s \in [1..c -> K]
        /\ \A m, n \in 1..c : m < n <=> s[m] < s[n]
        /\ \A k \in K : \E n \in 1..c : s[n] = k
    BY <1>1, <1>2, AscendingList
  <1>4. 1 \in 1..c /\ c \in 1..c
    <2>1. PICK k \in K : TRUE
      OBVIOUS
    <2>2. PICK n \in 1..c : s[n] = k
      BY <1>3
    <2>3. QED
      BY <1>3, <2>2
  <1>5. ASSUME NEW y \in K PROVE s[1] <= y /\ s[c] >= y
    <2>1. PICK n \in 1..c : s[n] = y
      BY <1>3
    <2>2. (1 = n \/ 1 < n) /\ (n = c \/ n < c)
      BY <1>3, <1>4
    <2>3. s[1] \in Nat /\ s[n] \in Nat /\ s[c] \in Nat
      BY <1>3, <1>4
    <2>4. (s[1] = s[n] \/ s[1] < s[n]) /\ (s[n] = s[c] \/ s[n] < s[c])
      BY <1>3, <1>4, <2>2
    <2>5. QED
      BY <2>1, <2>3, <2>4
  <1>6. s[1] \in K /\ s[c] \in K
    BY <1>3, <1>4
  <1>7. Least(K) \in K /\ \A y \in K : Least(K) <= y
    BY <1>5, <1>6 DEF Least
  <1>8. Greatest(K) \in K /\ \A y \in K : Greatest(K) >= y
    BY <1>5, <1>6 DEF Greatest
  <1>9. QED
    BY <1>7, <1>8

LEMMA DaysAreFinite ==
  ASSUME NEW D \in SUBSET Days
  PROVE  D \in SUBSET Nat /\ IsFiniteSet(D)
  <1>1. IsFiniteSet(1..LastDay)
    BY UpTo DEF RecordsAssumption
  <1>2. D \in SUBSET (1..LastDay)
    BY DEF Days
  <1>3. IsFiniteSet(D)
    BY <1>1, <1>2, FS_Subset
  <1>4. D \in SUBSET Nat
    BY <1>2
  <1>5. QED
    BY <1>3, <1>4

LEMMA OrderedDays ==
  ASSUME NEW D \in SUBSET Days, NEW at, at = Ascending(D), NEW c, c = Cardinality(D)
  PROVE  /\ c \in Nat /\ at \in [1..c -> D] /\ D \in SUBSET Nat /\ IsFiniteSet(D)
         /\ \A m, n \in 1..c : m < n <=> at[m] < at[n]
         /\ \A d \in D : \E n \in 1..c : at[n] = d
         /\ c = 0 <=> D = {}
  <1>1. D \in SUBSET Nat /\ IsFiniteSet(D)
    BY DaysAreFinite
  <1>2. /\ c \in Nat /\ at \in [1..c -> D]
        /\ \A m, n \in 1..c : m < n <=> at[m] < at[n]
        /\ \A d \in D : \E n \in 1..c : at[n] = d
    BY <1>1, AscendingList
  <1>3. c = 0 => D = {}
    BY <1>2
  <1>4. D = {} => c = 0
    BY FS_EmptySet
  <1>5. QED
    BY <1>1, <1>2, <1>3, <1>4

\* Photos P by day, and the days with entries E, in a list.
DayList(E, P) ==
    LET at == Ascending(E \cup {p.day : p \in P})
    IN  [n \in DOMAIN at |-> [date |-> at[n], entry |-> at[n] \in E, photos |-> {p \in P : p.day = at[n]}]]

\* A list of c days: those of D, in order.
ListsDays(days, c, D, E, P) ==
    /\ c \in Nat /\ DOMAIN days = 1..c /\ Len(days) = c
    /\ \A n \in 1..c : days[n].date \in D
    /\ \A m, n \in 1..c : m < n <=> days[m].date < days[n].date
    /\ \A d \in D : \E n \in 1..c : days[n].date = d
    /\ \A n \in 1..c : /\ days[n].entry <=> days[n].date \in E
                       /\ days[n].photos = {p \in P : p.day = days[n].date}
    /\ days = <<>> <=> D = {}

LEMMA DaysInOrder ==
  ASSUME NEW E \in SUBSET Days, NEW P, \A p \in P : p.day \in Days,
         NEW days, days = DayList(E, P)
  PROVE  ListsDays(days, Len(days), E \cup {p.day : p \in P}, E, P)
  <1> DEFINE D == E \cup {p.day : p \in P}
  <1>1. D \in SUBSET Days
    OBVIOUS
  <1>2. PICK at : at = Ascending(D)
    OBVIOUS
  <1>3. PICK c : c = Cardinality(D)
    OBVIOUS
  <1>4. /\ c \in Nat /\ at \in [1..c -> D] /\ D \in SUBSET Nat
        /\ \A m, n \in 1..c : m < n <=> at[m] < at[n]
        /\ \A d \in D : \E n \in 1..c : at[n] = d
        /\ c = 0 <=> D = {}
    <2> HIDE DEF D
    <2>1. QED
      BY <1>1, <1>2, <1>3, OrderedDays
  <1>5. days = [n \in 1..c |-> [date |-> at[n], entry |-> at[n] \in E, photos |-> {p \in P : p.day = at[n]}]]
    BY <1>2, <1>4 DEF DayList
  <1>6. DOMAIN days = 1..c /\ Len(days) = c
    BY <1>4, <1>5
  <1>7. ASSUME NEW n \in 1..c
        PROVE  /\ days[n].date = at[n] /\ (days[n].entry <=> at[n] \in E)
               /\ days[n].photos = {p \in P : p.day = at[n]}
    <2>1. PICK b : b = (at[n] \in E)
      OBVIOUS
    <2>2. days[n] = [date |-> at[n], entry |-> at[n] \in E, photos |-> {p \in P : p.day = at[n]}]
      BY <1>5, Zenon
    <2>3. days[n] = [date |-> at[n], entry |-> b, photos |-> {p \in P : p.day = at[n]}]
      BY <2>1, <2>2, Zenon
    <2>4. days[n].entry = b /\ days[n].date = at[n] /\ days[n].photos = {p \in P : p.day = at[n]}
      BY <2>3
    <2>5. QED
      BY <2>1, <2>4
  <1>8. days = <<>> <=> c = 0
    <2>1. days = <<>> => c = 0
      BY <1>4, <1>6
    <2>2. ASSUME c = 0 PROVE days = <<>>
      <3>1. \A n \in 1..c : FALSE
        BY <2>2
      <3>2. days = [n \in {} |-> n]
        BY <1>5, <2>2
      <3>3. QED
        BY <3>2
    <2>3. QED
      BY <2>1, <2>2
  <1>9. \A n \in 1..c : at[n] \in D
    BY <1>4
  <1> HIDE DEF D
  <1>10. ListsDays(days, c, D, E, P)
    BY <1>4, <1>6, <1>7, <1>8, <1>9 DEF ListsDays
  <1>11. QED
    BY <1>6, <1>10 DEF D

LEMMA SummaryIsTrue ==
  ASSUME TypeOK, NEW r \in Live
  PROVE  LET days == Detail(r)
             withPhotos == {n \in DOMAIN days : days[n].photos # {}}
         IN  Summary(r) =
                [entryCount |-> Cardinality({n \in DOMAIN days : days[n].entry}),
                 startDate |-> IF days = <<>> THEN None ELSE days[1].date,
                 endDate |-> IF days = <<>> THEN None ELSE days[Len(days)].date,
                 coverDay |-> IF withPhotos = {} THEN None ELSE days[Least(withPhotos)].date]
  <1>1. PICK E : E = entries[r]
    OBVIOUS
  <1>2. PICK P : P = PhotosOf(r)
    OBVIOUS
  <1>3. PICK D : D = E \cup {p.day : p \in P}
    OBVIOUS
  <1>4. PICK days : days = DayList(E, P)
    OBVIOUS
  <1>5. E \in SUBSET Days /\ \A p \in P : p.day \in Days
    BY <1>1, <1>2 DEF TypeOK, Live, PhotosOf
  <1>6. Detail(r) = days
    BY <1>1, <1>2, <1>4 DEF Detail, DayList
  <1>7. PICK c : c = Len(days)
    OBVIOUS
  <1>8. /\ c \in Nat /\ DOMAIN days = 1..c
        /\ \A n \in 1..c : days[n].date \in D
        /\ \A m, n \in 1..c : m < n <=> days[m].date < days[n].date
        /\ \A d \in D : \E n \in 1..c : days[n].date = d
        /\ \A n \in 1..c : /\ days[n].entry <=> days[n].date \in E
                           /\ days[n].photos = {p \in P : p.day = days[n].date}
        /\ days = <<>> <=> D = {}
    <2>1. ListsDays(days, Len(days), E \cup {p.day : p \in P}, E, P)
      BY <1>4, <1>5, DaysInOrder
    <2>2. ListsDays(days, c, D, E, P)
      BY <1>3, <1>7, <2>1
    <2>3. QED
      BY <2>2 DEF ListsDays
  <1>9. D \in SUBSET Nat /\ IsFiniteSet(D)
    BY <1>3, <1>5, DaysAreFinite
  <1>10. PICK first : first = {p \in P : \A o \in P : p.day <= o.day}
    OBVIOUS
  <1>11. PICK with : with = {n \in 1..c : days[n].photos # {}}
    OBVIOUS
  <1>12. Cardinality(E) = Cardinality({n \in 1..c : days[n].entry})
    <2> DEFINE K == {n \in 1..c : days[n].entry}
               date == [n \in 1..c |-> days[n].date]
    <2>1. IsFiniteSet(K)
      BY <1>8, UpTo, FS_Subset
    <2>2. /\ \A n \in K : date[n] \in E
          /\ \A d \in E : \E n \in K : date[n] = d
          /\ \A m, n \in K : date[m] = date[n] => m = n
      BY <1>3, <1>8, <1>9
    <2> HIDE DEF K, date
    <2>3. Cardinality(E) = Cardinality(K)
      BY <2>1, <2>2, SameSize
    <2>4. QED
      BY <2>3 DEF K
  <1>13. ASSUME days # <<>>
         PROVE  Least(D) = days[1].date /\ Greatest(D) = days[c].date
    <2>1. D # {}
      BY <1>8, <1>13
    <2>2. /\ Least(D) \in D /\ \A y \in D : Least(D) <= y
          /\ Greatest(D) \in D /\ \A y \in D : Greatest(D) >= y
      BY <1>9, <2>1, LeastAndGreatest
    <2>3. 1 \in 1..c /\ c \in 1..c
      BY <1>8, <2>1
    <2>4. ASSUME NEW d \in D PROVE days[1].date <= d /\ days[c].date >= d
      <3>1. PICK n \in 1..c : days[n].date = d
        BY <1>8
      <3>2. (1 = n \/ 1 < n) /\ (n = c \/ n < c)
        BY <1>8, <2>3
      <3>3. days[1].date \in Nat /\ d \in Nat /\ days[c].date \in Nat
        BY <1>8, <1>9, <2>3
      <3>4. (days[1].date = d \/ days[1].date < d) /\ (d = days[c].date \/ d < days[c].date)
        BY <1>8, <2>3, <3>1, <3>2
      <3>5. QED
        BY <3>3, <3>4
    <2>5. days[1].date \in D /\ days[c].date \in D
      BY <1>8, <2>3
    <2>6. Least(D) \in Nat /\ Greatest(D) \in Nat /\ days[1].date \in Nat /\ days[c].date \in Nat
      BY <1>9, <2>2, <2>5
    <2>7. QED
      BY <2>2, <2>4, <2>5, <2>6
  <1>14. first = {} <=> with = {}
    <2>1. ASSUME NEW p \in P PROVE with # {}
      <3>1. PICK n \in 1..c : days[n].date = p.day
        BY <1>3, <1>8
      <3>2. p \in days[n].photos
        BY <1>8, <3>1
      <3>3. QED
        BY <1>11, <3>2
    <2>2. ASSUME NEW n \in with PROVE P # {}
      BY <1>8, <1>11
    <2>3. ASSUME P # {} PROVE first # {}
      <3> DEFINE L == {p.day : p \in P}
      <3>1. L \in SUBSET Nat /\ IsFiniteSet(L) /\ L # {}
        BY <1>5, <2>3, DaysAreFinite
      <3>2. Least(L) \in L /\ \A y \in L : Least(L) <= y
        BY <3>1, LeastAndGreatest
      <3>3. PICK p \in P : p.day = Least(L)
        BY <3>2
      <3>4. \A o \in P : p.day <= o.day
        BY <3>2, <3>3
      <3>5. QED
        BY <1>10, <3>4
    <2>4. QED
      BY <1>10, <2>1, <2>2, <2>3
  <1>15. ASSUME with # {}
         PROVE  (CHOOSE p \in first : TRUE).day = days[Least(with)].date
    <2>1. PICK p : p = (CHOOSE x \in first : TRUE)
      OBVIOUS
    <2>2. p \in P /\ \A o \in P : p.day <= o.day
      BY <1>10, <1>14, <1>15, <2>1
    <2>3. with \in SUBSET Nat /\ IsFiniteSet(with)
      BY <1>8, <1>11, UpTo, FS_Subset
    <2>4. PICK m : m = Least(with)
      OBVIOUS
    <2>5. m \in with /\ \A n \in with : m <= n
      BY <1>15, <2>3, <2>4, LeastAndGreatest
    <2>6. PICK k \in 1..c : days[k].date = p.day
      BY <1>3, <1>8, <2>2
    <2>7. k \in with
      BY <1>8, <1>11, <2>2, <2>6
    <2>8. PICK o \in P : o.day = days[m].date
      BY <1>8, <1>11, <2>5
    <2>9. m \in 1..c /\ m <= k /\ p.day <= days[m].date /\ p.day \in Nat /\ days[m].date \in Nat
      BY <1>8, <1>9, <1>11, <2>2, <2>5, <2>6, <2>7, <2>8
    <2>10. ~(days[k].date < days[m].date)
      BY <1>8, <2>6, <2>9
    <2>11. p.day = days[m].date
      BY <2>6, <2>9, <2>10
    <2>12. QED
      BY <2>1, <2>4, <2>11
  <1>16. Summary(r) =
             [entryCount |-> Cardinality(E),
              startDate |-> IF D = {} THEN None ELSE Least(D),
              endDate |-> IF D = {} THEN None ELSE Greatest(D),
              coverDay |-> IF first = {} THEN None ELSE (CHOOSE p \in first : TRUE).day]
    BY <1>1, <1>2, <1>3, <1>10 DEF Summary
  <1>17. Summary(r) =
             [entryCount |-> Cardinality({n \in 1..c : days[n].entry}),
              startDate |-> IF days = <<>> THEN None ELSE days[1].date,
              endDate |-> IF days = <<>> THEN None ELSE days[c].date,
              coverDay |-> IF with = {} THEN None ELSE days[Least(with)].date]
    BY <1>8, <1>12, <1>13, <1>14, <1>15, <1>16
  <1>18. QED
    BY <1>6, <1>7, <1>8, <1>11, <1>17

\* One tally for each area of finite set mine.
TalliedBy(tally, mine) ==
    tally = {[area |-> a, visitCount |-> Cardinality({v \in mine : v.area = a}),
              firstVisitedAt |-> Least({v.day : v \in {w \in mine : w.area = a}}),
              lastVisitedAt |-> Greatest({v.day : v \in {w \in mine : w.area = a}})] :
                 a \in {v.area : v \in mine}}

LEMMA TalliesCount ==
  ASSUME NEW mine, IsFiniteSet(mine), NEW tally, TalliedBy(tally, mine)
  PROVE  /\ Total(tally, LAMBDA g : g.visitCount) = Cardinality(mine)
         /\ Cardinality(tally) = Cardinality({v.area : v \in mine})
  <1> DEFINE A == {v.area : v \in mine}
             of(a) == {v \in mine : v.area = a}
             rec == [a \in A |-> [area |-> a, visitCount |-> Cardinality(of(a)),
                                  firstVisitedAt |-> Least({v.day : v \in of(a)}),
                                  lastVisitedAt |-> Greatest({v.day : v \in of(a)})]]
             F == [g \in tally |-> {v \in mine : v.area = g.area}]
  <1>1. tally = {rec[a] : a \in A}
    BY DEF TalliedBy
  <1>2. \A a \in A : rec[a].area = a /\ rec[a].visitCount = Cardinality({v \in mine : v.area = a})
    OBVIOUS
  <1> HIDE DEF rec
  <1>3. /\ \A g \in tally : g.visitCount = Cardinality(F[g])
        /\ \A g, h \in tally : g.area = h.area => g = h
        /\ \A v \in mine : \E g \in tally : g.area = v.area
    <2>1. ASSUME NEW g \in tally
          PROVE  g.area \in A /\ g = rec[g.area]
      <3>1. PICK a \in A : g = rec[a]
        BY <1>1
      <3>2. rec[a].area = a
        BY <1>2
      <3>3. QED
        BY <3>1, <3>2
    <2>2. \A g \in tally : g.visitCount = Cardinality({v \in mine : v.area = g.area})
      <3> SUFFICES ASSUME NEW g \in tally
                   PROVE  g.visitCount = Cardinality({v \in mine : v.area = g.area})
        OBVIOUS
      <3>1. PICK a : a = g.area
        OBVIOUS
      <3>2. a \in A /\ g = rec[a]
        BY <2>1, <3>1
      <3>3. rec[a].visitCount = Cardinality({v \in mine : v.area = a})
        BY <1>2, <3>2
      <3>4. QED
        BY <3>1, <3>2, <3>3
    <2>3. \A g, h \in tally : g.area = h.area => g = h
      <3> SUFFICES ASSUME NEW g \in tally, NEW h \in tally, g.area = h.area PROVE g = h
        OBVIOUS
      <3>1. g = rec[g.area] /\ h = rec[h.area]
        BY <2>1
      <3>2. QED
        BY <3>1
    <2>4. ASSUME NEW v \in mine PROVE \E g \in tally : g.area = v.area
      <3>1. v.area \in A
        OBVIOUS
      <3>2. rec[v.area] \in tally /\ rec[v.area].area = v.area
        BY <1>1, <1>2, <3>1
      <3>3. QED
        BY <3>2
    <2>5. QED
      BY <2>2, <2>3, <2>4
  <1>4. AreParts(F, tally, mine)
    <2>1. \A g \in tally : F[g] = {v \in mine : v.area = g.area}
      OBVIOUS
    <2> HIDE DEF F
    <2>2. \A g \in tally : IsFiniteSet(F[g])
      BY <2>1, FS_Subset
    <2>3. \A g, h \in tally : g # h => F[g] \cap F[h] = {}
      BY <1>3, <2>1
    <2>4. \A y : y \in mine <=> \E g \in tally : y \in F[g]
      BY <1>3, <2>1
    <2>5. QED
      BY <2>2, <2>3, <2>4 DEF AreParts
  <1>5. PICK P : P = UNION {{g} \X (1..g.visitCount) : g \in tally}
    OBVIOUS
  <1>6. ArePairs(P, F, tally)
    <2>1. \A z : z \in P <=> \E g \in tally : z \in {g} \X (1..g.visitCount)
      BY <1>5
    <2>2. \A g : \A z : z \in {g} \X (1..g.visitCount) <=> \E i \in 1..g.visitCount : z = <<g, i>>
      OBVIOUS
    <2> HIDE DEF F
    <2>3. QED
      BY <1>3, <2>1, <2>2 DEF ArePairs
  <1>7. Total(tally, LAMBDA g : g.visitCount) = Cardinality(P)
    BY <1>5 DEF Total
  <1>8. Cardinality(P) = Cardinality(mine)
    <2> HIDE DEF F
    <2>1. QED
      BY <1>4, <1>6, TotalOfParts
  <1>9. Cardinality(tally) = Cardinality(A)
    <2>1. IsFiniteSet(A)
      <3> DEFINE f == [v \in mine |-> v.area]
      <3>1. \A y \in A : \E x \in mine : f[x] = y
        OBVIOUS
      <3> HIDE DEF A, f
      <3>2. QED
        BY <3>1, ImageIsFinite
    <2>2. /\ \A x \in A : rec[x] \in tally
          /\ \A y \in tally : \E x \in A : rec[x] = y
          /\ \A x, y \in A : rec[x] = rec[y] => x = y
      BY <1>1, <1>2
    <2> HIDE DEF A
    <2>3. QED
      BY <2>1, <2>2, SameSize
  <1>10. QED
    BY <1>7, <1>8, <1>9

LEMMA ProgressIsTrue ==
  ASSUME IInv, IsFiniteSet(places)
  PROVE  ProgressMatchesPlaces
  <1> SUFFICES ASSUME NEW u \in Users
               PROVE  LET mine == UNION {PlacesOf(r) : r \in RecordsOf(u)}
                          p == progress(u)
                      IN  /\ p.recordedPlaceCount = Cardinality(mine)
                          /\ p.visitedAreaCount =
                                 Cardinality({resolveKtoRegionCodes(KtoItems[v.content]).area : v \in mine})
                          /\ \A v \in mine : \E g \in p.regions :
                                g.area = v.area /\ v.day \in g.firstVisitedAt .. g.lastVisitedAt
    BY DEF ProgressMatchesPlaces
  <1>1. PICK mine : mine = {v \in places : Owns(u, v.record)}
    OBVIOUS
  <1>2. PICK tally : tally = tallyRegions(u)
    OBVIOUS
  <1>3. UNION {PlacesOf(r) : r \in RecordsOf(u)} = mine
    <2>1. \A v \in places : v.record \in Records /\ v.record # None
      BY DEF IInv, RowsAgree, TypeOK
    <2>2. \A v \in places : v.record \in RecordsOf(u) <=> Owns(u, v.record)
      BY <2>1 DEF RecordsOf, Live, Owns
    <2>3. \A v : v \in UNION {PlacesOf(r) : r \in RecordsOf(u)} <=> v \in places /\ v.record \in RecordsOf(u)
      BY DEF PlacesOf
    <2>4. QED
      BY <1>1, <2>2, <2>3
  <1>4. IsFiniteSet(mine)
    BY <1>1, FS_Subset
  <1>5. TalliedBy(tally, mine)
    BY <1>1, <1>2, Zenon DEF tallyRegions, TalliedBy
  <1>6. /\ Total(tally, LAMBDA g : g.visitCount) = Cardinality(mine)
        /\ Cardinality(tally) = Cardinality({v.area : v \in mine})
    BY <1>4, <1>5, TalliesCount
  <1>7. /\ progress(u).recordedPlaceCount = Total(tally, LAMBDA g : g.visitCount)
        /\ progress(u).visitedAreaCount = Cardinality(tally)
        /\ progress(u).regions = tally
    BY <1>2 DEF progress
  <1>8. {resolveKtoRegionCodes(KtoItems[v.content]).area : v \in mine} = {v.area : v \in mine}
    <2>1. \A v \in mine : resolveKtoRegionCodes(KtoItems[v.content]).area = v.area
      BY <1>1 DEF IInv, RowsAgree, CodesAreVerified
    <2>2. QED
      BY <2>1
  <1>9. ASSUME NEW v \in mine
        PROVE  \E g \in tally : g.area = v.area /\ v.day \in g.firstVisitedAt .. g.lastVisitedAt
    <2> DEFINE D == {w.day : w \in {x \in mine : x.area = v.area}}
    <2>1. D \in SUBSET Days /\ v.day \in D
      <3>1. \A x \in mine : x.day \in Days
        BY <1>1 DEF IInv, RowsAgree, TypeOK
      <3>2. QED
        BY <3>1
    <2>2. D \in SUBSET Nat /\ IsFiniteSet(D) /\ D # {}
      BY <2>1, DaysAreFinite
    <2>3. /\ Least(D) \in D /\ \A y \in D : Least(D) <= y
          /\ Greatest(D) \in D /\ \A y \in D : Greatest(D) >= y
      <3> HIDE DEF D
      <3>1. QED
        BY <2>2, LeastAndGreatest
    <2>4. v.day \in Least(D) .. Greatest(D)
      <3>1. PICK lo : lo = Least(D)
        OBVIOUS
      <3>2. PICK hi : hi = Greatest(D)
        OBVIOUS
      <3> HIDE DEF D
      <3>3. lo \in Nat /\ hi \in Nat /\ v.day \in Nat
        BY <2>1, <2>2, <2>3, <3>1, <3>2
      <3>4. lo <= v.day /\ hi >= v.day
        BY <2>1, <2>3, <3>1, <3>2
      <3>5. v.day \in lo .. hi
        BY <3>3, <3>4
      <3>6. QED
        BY <3>1, <3>2, <3>5
    <2>5. \E g \in tally : g.area = v.area /\ g.firstVisitedAt = Least(D) /\ g.lastVisitedAt = Greatest(D)
      <3>1. PICK a : a = v.area
        OBVIOUS
      <3>2. PICK g : g = [area |-> a, visitCount |-> Cardinality({x \in mine : x.area = a}),
                          firstVisitedAt |-> Least({x.day : x \in {w \in mine : w.area = a}}),
                          lastVisitedAt |-> Greatest({x.day : x \in {w \in mine : w.area = a}})]
        OBVIOUS
      <3>3. a \in {x.area : x \in mine}
        BY <3>1
      <3>4. g \in tally
        BY <1>5, <3>2, <3>3 DEF TalliedBy
      <3>5. D = {x.day : x \in {w \in mine : w.area = a}}
        BY <3>1
      <3>6. g.area = a /\ g.firstVisitedAt = Least(D) /\ g.lastVisitedAt = Greatest(D)
        <4> HIDE DEF D
        <4>1. QED
          BY <3>2, <3>5
      <3>7. QED
        BY <3>1, <3>4, <3>6
    <2>6. QED
      BY <2>4, <2>5
  <1>10. QED
    BY <1>3, <1>6, <1>7, <1>8, <1>9

LEMMA PlacesStayFinite ==
  ASSUME IInv, IsFiniteSet(places), NEW q \in Requests, Arrive(q) \/ Runs(q) \/ Abort(q)
  PROVE  IsFiniteSet(places')
  <1>1. ASSUME NEW v, places' \subseteq places \cup {v} PROVE IsFiniteSet(places')
    <2>1. IsFiniteSet(places \cup {v})
      BY FS_AddElement
    <2>2. QED
      BY <1>1, <2>1, FS_Subset
  <1>2. ASSUME places' \subseteq places PROVE IsFiniteSet(places')
    BY <1>2, FS_Subset
  <1>3. CASE Cascade(q)
    BY <1>2, <1>3 DEF Cascade, DeleteRows
  <1>4. CASE StorePlace(q)
    BY <1>1, <1>2, <1>4 DEF StorePlace
  <1>5. CASE UpdatePlace(q)
    BY <1>1, <1>2, <1>5 DEF UpdatePlace
  <1>6. CASE RemovePlace(q)
    BY <1>2, <1>6 DEF RemovePlace
  <1>7. CASE UNCHANGED places
    BY <1>2, <1>7
  <1>8. CASE Arrive(q) \/ Abort(q)
    BY <1>7, <1>8 DEF Arrive, Abort, db
  <1>9. CASE RecordStep(q)
    BY <1>7, <1>9 DEF RecordStep, Create, Get, Update, Reread, FindRows, db
  <1>10. CASE Deletion(q)
    BY <1>3, <1>7, <1>10 DEF Deletion, LockRow, db
  <1>11. CASE EntryStep(q)
    BY <1>7, <1>11 DEF EntryStep, UpsertFind, UpsertEntry, UpsertFails, Commit, RemoveEntry, db
  <1>12. CASE PhotoStep(q)
    BY <1>7, <1>12 DEF PhotoStep, RefuseUpload, FindUsage, Measure, Inspect, OwnsPhotoRecord, StorePhoto,
                       RemovePhoto, db
  <1>13. CASE PlaceStep(q)
    BY <1>4, <1>5, <1>6, <1>7, <1>13 DEF PlaceStep, FindPlaces, Verify, OwnsPlaceRecord, RereadPlace, db
  <1>14. QED
    BY <1>8, <1>9, <1>10, <1>11, <1>12, <1>13 DEF Runs

\* Whatever was stored, the tables of photos and of places are finite.
LEMMA RowsStayFinite == Spec => []RowsAreFinite
  <1>1. Init => RowsAreFinite
    BY FS_EmptySet DEF Init, RowsAreFinite
  <1>2. IInv /\ RowsAreFinite /\ QuotaIInv' /\ [Next]_vars => RowsAreFinite'
    <2> SUFFICES ASSUME IInv, RowsAreFinite, QuotaIInv', [Next]_vars
                 PROVE  IsFiniteSet(places')
      BY DEF RowsAreFinite, QuotaIInv
    <2>1. CASE UNCHANGED vars
      BY <2>1 DEF vars, RowsAreFinite
    <2>2. CASE Next
      BY <2>2, PlacesStayFinite DEF Next, RowsAreFinite
    <2>3. QED
      BY <2>1, <2>2
  <1>3. Spec => []QuotaIInv
    BY InitQuota, NextQuota, RecordsInvariance, PTL DEF Spec
  <1>4. QED
    BY <1>1, <1>2, <1>3, RecordsInvariance, PTL DEF Spec

\* The list of records and the detail of a record, which are made of other
\* statements, agree on its days, its texts and its cover, and the progress on
\* the map counts each place of the user once and by its true area, after any
\* requests side by side (toSummary, findDetail, tallyRegions, progress).
THEOREM ListsStayTrue == Spec => []ListsAreTrue
  <1>1. IInv => SummaryMatchesDetail
    BY SummaryIsTrue DEF IInv, RowsAgree, SummaryMatchesDetail
  <1>2. IInv /\ RowsAreFinite => ListsAreTrue
    BY <1>1, ProgressIsTrue DEF RowsAreFinite, ListsAreTrue
  <1>3. QED
    BY <1>2, RecordsInvariance, RowsStayFinite, PTL

(***************************************************************************)
(* What a search finds.                                                    *)
(***************************************************************************)
LEMMA ContentsOfKto ==
  /\ DOMAIN KtoItems \in SUBSET Nat /\ IsFiniteSet(DOMAIN KtoItems)
  /\ MaxRows \in Nat /\ MaxRows > 0
  <1>1. DOMAIN KtoItems = 1..Len(KtoItems) /\ Len(KtoItems) \in Nat
    BY KtoAssumption
  <1>2. QED
    BY <1>1, UpTo, KtoAssumption

LEMMA MoreBefore ==
  ASSUME NEW T \in SUBSET DOMAIN KtoItems, NEW S \in SUBSET T, NEW c
  PROVE  /\ Cardinality({o \in S : o < c}) \in Nat /\ Cardinality({o \in T : o < c}) \in Nat
         /\ Cardinality({o \in S : o < c}) <= Cardinality({o \in T : o < c})
  <1>1. PICK A : A = {o \in S : o < c}
    OBVIOUS
  <1>2. PICK B : B = {o \in T : o < c}
    OBVIOUS
  <1>3. IsFiniteSet(B) /\ A \in SUBSET B
    <2>1. B \in SUBSET DOMAIN KtoItems
      BY <1>2
    <2>2. IsFiniteSet(B)
      BY <2>1, ContentsOfKto, FS_Subset
    <2>3. QED
      BY <1>1, <1>2, <2>2
  <1>4. IsFiniteSet(A) /\ Cardinality(A) <= Cardinality(B)
    BY <1>3, FS_Subset
  <1>5. Cardinality(A) \in Nat /\ Cardinality(B) \in Nat
    BY <1>3, <1>4, FS_CardinalityType
  <1>6. QED
    BY <1>1, <1>2, <1>4, <1>5

\* A member of a set is in its list, or so many members come before it.
LEMMA CutList ==
  ASSUME NEW S \in SUBSET DOMAIN KtoItems, NEW n \in Nat, NEW c \in S
  PROVE  /\ First(n, ByTitle(S)) \in Seq(S) /\ Len(First(n, ByTitle(S))) <= n
         /\ Range(First(n, ByTitle(S))) \in SUBSET S
         /\ ListedOrLater(c, First(n, ByTitle(S)), S, n)
  <1>1. PICK s : s = ByTitle(S)
    OBVIOUS
  <1>2. PICK z : z = Cardinality(S)
    OBVIOUS
  <1>3. S \in SUBSET Nat /\ IsFiniteSet(S)
    BY ContentsOfKto, FS_Subset
  <1>4. /\ z \in Nat /\ s \in [1..z -> S]
        /\ \A i, j \in 1..z : i < j <=> s[i] < s[j]
        /\ \A x \in S : \E i \in 1..z : s[i] = x
    BY <1>1, <1>2, <1>3, AscendingList DEF ByTitle
  <1>5. s \in Seq(S) /\ Len(s) = z
    BY <1>4
  <1>6. PICK f : f = First(n, s)
    OBVIOUS
  <1>7. PICK l : l = SmallerOf(n, z)
    OBVIOUS
  <1>8. l \in Nat /\ l <= n /\ l <= z /\ (l = n \/ l = z)
    BY <1>4, <1>7 DEF SmallerOf
  <1>9. f \in Seq(S) /\ Len(f) = l /\ \A i \in 1..l : f[i] = s[i]
    BY <1>5, <1>6, <1>7, FirstList
  <1>10. PICK m \in 1..z : s[m] = c
    BY <1>4
  <1>11. ASSUME m <= l
         PROVE  c \in Range(f)
    <2>1. m \in DOMAIN f /\ f[m] = c
      BY <1>8, <1>9, <1>10, <1>11
    <2>2. QED
      BY <2>1 DEF Range
  <1>12. ASSUME ~(m <= l)
         PROVE  Cardinality({o \in S : o < c}) >= n
    <2>1. m - 1 \in Nat /\ m - 1 >= n
      BY <1>8, <1>10, <1>12
    <2>2. PICK B : B = {o \in S : o < c}
      OBVIOUS
    <2>3. /\ \A i \in 1..(m - 1) : s[i] \in B
          /\ \A i, j \in 1..(m - 1) : s[i] = s[j] => i = j
      <3>1. \A i \in 1..(m - 1) : i \in 1..z /\ i < m
        BY <1>4, <1>10, <2>1
      <3>2. \A i \in 1..(m - 1) : s[i] \in B
        BY <1>4, <1>10, <2>2, <3>1
      <3>3. ASSUME NEW i \in 1..(m - 1), NEW j \in 1..(m - 1), s[i] = s[j] PROVE i = j
        <4>1. i \in 1..z /\ j \in 1..z /\ s[i] \in Nat
          BY <1>3, <1>4, <3>1
        <4>2. ~(i < j) /\ ~(j < i)
          BY <1>4, <3>3, <4>1
        <4>3. QED
          BY <4>1, <4>2
      <3>4. QED
        BY <3>2, <3>3
    <2>4. ASSUME NEW o \in B PROVE \E i \in 1..(m - 1) : s[i] = o
      <3>1. o \in S /\ o < c
        BY <2>2
      <3>2. PICK i \in 1..z : s[i] = o
        BY <1>4, <3>1
      <3>3. i < m
        BY <1>4, <1>10, <3>1, <3>2
      <3>4. QED
        BY <1>10, <3>2, <3>3
    <2>5. IsFiniteSet(1..(m - 1)) /\ Cardinality(1..(m - 1)) = m - 1
      BY <2>1, UpTo
    <2>6. Cardinality(B) = m - 1
      BY <2>3, <2>4, <2>5, SameSize
    <2>7. QED
      BY <2>1, <2>2, <2>6
  <1>13. Range(f) \in SUBSET S
    BY <1>9 DEF Range
  <1>14. QED
    BY <1>1, <1>6, <1>8, <1>9, <1>11, <1>12, <1>13 DEF ListedOrLater

LEMMA CutListIn ==
  ASSUME NEW S \in SUBSET DOMAIN KtoItems, NEW n \in Nat
  PROVE  Range(First(n, ByTitle(S))) \in SUBSET S
  <1>1. S \in SUBSET Nat /\ IsFiniteSet(S)
    BY ContentsOfKto, FS_Subset
  <1>2. ByTitle(S) \in Seq(S)
    <2>1. PICK z \in Nat : ByTitle(S) \in [1..z -> S]
      BY <1>1, AscendingList DEF ByTitle
    <2>2. QED
      BY <2>1
  <1>3. First(n, ByTitle(S)) \in Seq(S)
    BY <1>2, FirstList
  <1>4. PICK f \in Seq(S) : f = First(n, ByTitle(S))
    BY <1>3
  <1>5. QED
    BY <1>4 DEF Range

\* An entry of the table has the codes of c.
LEMMA MappedEntry ==
  ASSUME NEW c \in DOMAIN KtoItems, Mapped(KtoItems[c]), NEW k, k = resolveKtoRegionCodes(KtoItems[c])
  PROVE  /\ KtoItems[c].legalArea # None /\ KtoItems[c].legalSigungu # None
         /\ \E e \in Entries : /\ e.legacy = k
                               /\ e.code = <<KtoItems[c].legalArea, KtoItems[c].legalSigungu.district>>
  <1>1. PICK item : item = KtoItems[c]
    OBVIOUS
  <1>2. PICK code : code = administrativeCode(item.legalArea, item.legalSigungu)
    OBVIOUS
  <1>3. code # None /\ code \in DOMAIN administrativeCodeToLegacy /\ k = administrativeCodeToLegacy[code]
    BY <1>1, <1>2 DEF Mapped, resolveKtoRegionCodes
  <1>4. /\ item.legalArea # None /\ item.legalSigungu # None
        /\ code = <<item.legalArea, item.legalSigungu.district>>
    BY <1>2, <1>3 DEF administrativeCode
  <1>5. \E e \in Entries : e.code = code
    BY <1>3 DEF administrativeCodeToLegacy
  <1>6. PICK e : e = (CHOOSE x \in Entries : x.code = code)
    OBVIOUS
  <1>7. e \in Entries /\ e.code = code
    BY <1>5, <1>6
  <1>8. e.legacy = k
    BY <1>3, <1>6 DEF administrativeCodeToLegacy
  <1>9. QED
    BY <1>1, <1>4, <1>7, <1>8

\* One of the questions for the codes of c is for its legal region.
LEMMA AreaLists ==
  ASSUME NEW c \in DOMAIN KtoItems, Mapped(KtoItems[c]), NEW k, k = resolveKtoRegionCodes(KtoItems[c]),
         NEW sigungu \in {None, k.sigungu}
  PROVE  /\ k \in [area : STRING, sigungu : STRING \cup {None}]
         /\ k.area # None /\ k.area \in DOMAIN legacyAreaCodeToLegal
         /\ \E f \in areaSearchFilters(k.area, sigungu) :
               c \in Lists(f) /\ Lists(f) \in SUBSET LegalRegion(c, sigungu = None)
  <1>1. PICK item : item = KtoItems[c]
    OBVIOUS
  <1>2. PICK e \in Entries : e.legacy = k /\ e.code = <<item.legalArea, item.legalSigungu.district>>
    BY <1>1, MappedEntry
  <1>3. item.legalSigungu # None
    BY <1>1, MappedEntry
  <1>4. /\ k \in [area : STRING, sigungu : STRING \cup {None}]
        /\ k.area \in DOMAIN legacyAreaCodeToLegal /\ legacyAreaCodeToLegal[k.area] = item.legalArea
    <2>1. e \in [code : STRING \X STRING, legacy : [area : STRING, sigungu : STRING \cup {None}]]
      BY RegionCodesAgree
    <2>2. e.legacy.area \in DOMAIN legacyAreaCodeToLegal /\ legacyAreaCodeToLegal[e.legacy.area] = e.code[1]
      BY RegionCodesAgree
    <2>3. QED
      BY <1>2, <2>1, <2>2
  <1>5. k.area # None
    BY <1>4, RegionCodesAgree
  <1>6. PICK legal : legal = item.legalArea
    OBVIOUS
  <1>7. CASE sigungu = None
    <2>1. PICK f : f = [kind |-> "legal", area |-> legal, sigungu |-> None]
      OBVIOUS
    <2>2. f \in areaSearchFilters(k.area, sigungu)
      BY <1>4, <1>6, <1>7, <2>1 DEF areaSearchFilters
    <2>3. Lists(f) = {o \in DOMAIN KtoItems : KtoItems[o].legalArea = legal}
      BY <2>1 DEF Lists
    <2>4. LegalRegion(c, sigungu = None) = {o \in DOMAIN KtoItems : KtoItems[o].legalArea = legal}
      BY <1>1, <1>6, <1>7 DEF LegalRegion
    <2>5. c \in Lists(f)
      BY <1>1, <1>6, <2>3
    <2>6. QED
      BY <1>4, <1>5, <2>2, <2>3, <2>4, <2>5
  <1>8. CASE sigungu # None
    <2>1. PICK district : district = item.legalSigungu.district
      OBVIOUS
    <2>2. PICK f : f = [kind |-> "legal", area |-> legal, sigungu |-> district]
      OBVIOUS
    <2>3. sigungu = k.sigungu /\ k = [area |-> k.area, sigungu |-> sigungu]
      BY <1>4, <1>8
    <2>4. district \in getLegalDistrictCodes(k.area, sigungu)
      <3>1. e \in {x \in Entries : x.legacy.sigungu # None}
        BY <1>2, <1>8, <2>3
      <3>2. k \in DOMAIN legalDistrictCodesByLegacyKey
        BY <1>2, <3>1 DEF legalDistrictCodesByLegacyKey
      <3>3. legalDistrictCodesByLegacyKey[k] = {x.code[2] : x \in {y \in Entries : y.legacy = k}}
        BY <3>2 DEF legalDistrictCodesByLegacyKey
      <3>4. e.code[2] = district
        BY <1>2, <2>1
      <3>5. district \in legalDistrictCodesByLegacyKey[k]
        BY <1>2, <3>3, <3>4
      <3>6. getLegalDistrictCodes(k.area, sigungu) = legalDistrictCodesByLegacyKey[k]
        BY <2>3, <3>2 DEF getLegalDistrictCodes
      <3>7. QED
        BY <3>5, <3>6
    <2>5. f \in areaSearchFilters(k.area, sigungu)
      BY <1>4, <1>6, <1>8, <2>2, <2>4 DEF areaSearchFilters
    <2>6. Lists(f) = {o \in DOMAIN KtoItems :
                         /\ KtoItems[o].legalArea = legal /\ KtoItems[o].legalSigungu # None
                         /\ KtoItems[o].legalSigungu.district = district}
      <3>1. district # None
        <4>1. e.code[2] # None
          BY <1>2, RegionCodesAgree
        <4>2. QED
          BY <1>2, <2>1, <4>1
      <3>2. QED
        BY <2>2, <3>1 DEF Lists
    <2>7. Lists(f) \in SUBSET LegalRegion(c, sigungu = None)
      <3>1. District(item) = district
        BY <1>3, <2>1 DEF District
      <3>2. \A o \in Lists(f) : District(KtoItems[o]) = district /\ KtoItems[o].legalArea = legal
        BY <2>6 DEF District
      <3>3. QED
        BY <1>1, <1>6, <2>6, <3>1, <3>2 DEF LegalRegion
    <2>8. c \in Lists(f)
      BY <1>1, <1>3, <1>6, <2>1, <2>6
    <2>9. QED
      BY <1>4, <1>5, <2>5, <2>7, <2>8
  <1>9. QED
    BY <1>7, <1>8

\* The search by area finds c, unless too much of its region comes before it.
LEMMA AreaFinds ==
  ASSUME NEW c \in DOMAIN KtoItems, parseListItem(c), Mapped(KtoItems[c]),
         NEW k, k = resolveKtoRegionCodes(KtoItems[c]),
         NEW sigungu \in {None, k.sigungu}, NEW limit \in 1..MaxRows
  PROVE  \/ ListedOrLater(c, findByArea(k.area, sigungu, limit), Region(k.area, sigungu), limit)
         \/ Cardinality({o \in LegalRegion(c, sigungu = None) : o < c}) >= RowsAsked(k.area, sigungu, limit)
  <1>1. /\ k.area \in DOMAIN legacyAreaCodeToLegal
        /\ \E f \in areaSearchFilters(k.area, sigungu) :
              c \in Lists(f) /\ Lists(f) \in SUBSET LegalRegion(c, sigungu = None)
    BY AreaLists
  <1>2. PICK f \in areaSearchFilters(k.area, sigungu) :
            c \in Lists(f) /\ Lists(f) \in SUBSET LegalRegion(c, sigungu = None)
    BY <1>1
  <1>3. limit \in Nat /\ MaxRows \in Nat /\ limit <= MaxRows /\ limit > 0 /\ listLimit(limit) = limit
    BY ContentsOfKto DEF listLimit, SmallerOf
  <1>4. PICK asked : asked = IF isSharedLegalArea(k.area, sigungu) THEN MaxRows ELSE limit
    OBVIOUS
  <1>5. PICK least : least = RowsAsked(k.area, sigungu, limit)
    OBVIOUS
  <1>6. asked \in Nat /\ least \in Nat /\ asked >= least
    <2>1. SharesLegalArea(k.area) => k.area \in {"5", "38"}
      BY <1>1, RegionCodesAgree
    <2>2. QED
      BY <1>3, <1>4, <1>5, <2>1 DEF RowsAsked, isSharedLegalArea
  <1>7. PICK rows : rows = UNION {Range(First(asked, ByTitle(Lists(g)))) : g \in areaSearchFilters(k.area, sigungu)}
    OBVIOUS
  <1>8. PICK R : R = {o \in rows : /\ parseListItem(o)
                                   /\ resolveKtoRegionCodes(KtoItems[o]).area = k.area
                                   /\ sigungu \in {None, resolveKtoRegionCodes(KtoItems[o]).sigungu}}
    OBVIOUS
  <1>9. findByArea(k.area, sigungu, limit) = First(limit, ByTitle(R))
    BY <1>3, <1>4, <1>7, <1>8 DEF findByArea
  <1>10. \A g : Lists(g) \in SUBSET DOMAIN KtoItems
    BY DEF Lists
  <1>11. rows \in SUBSET DOMAIN KtoItems
    <2>1. \A g : Range(First(asked, ByTitle(Lists(g)))) \in SUBSET DOMAIN KtoItems
      BY <1>6, <1>10, CutListIn
    <2>2. QED
      BY <1>7, <2>1
  <1>12. PICK region : region = Region(k.area, sigungu)
    OBVIOUS
  <1>13. R \in SUBSET DOMAIN KtoItems /\ R \in SUBSET region /\ region \in SUBSET DOMAIN KtoItems
    BY <1>8, <1>11, <1>12 DEF Region
  <1>14. PICK legal : legal = LegalRegion(c, sigungu = None)
    OBVIOUS
  <1>15. CASE c \in Range(First(asked, ByTitle(Lists(f))))
    <2>1. c \in rows
      BY <1>2, <1>7, <1>15
    <2>2. c \in R
      BY <1>8, <2>1
    <2>3. c \in Range(First(limit, ByTitle(R))) \/ Cardinality({o \in R : o < c}) >= limit
      BY <1>3, <1>13, <2>2, CutList DEF ListedOrLater
    <2>4. /\ Cardinality({o \in R : o < c}) \in Nat /\ Cardinality({o \in region : o < c}) \in Nat
          /\ Cardinality({o \in R : o < c}) <= Cardinality({o \in region : o < c})
      BY <1>13, MoreBefore
    <2>5. c \in Range(First(limit, ByTitle(R))) \/ Cardinality({o \in region : o < c}) >= limit
      BY <1>3, <2>3, <2>4
    <2>6. QED
      BY <1>9, <1>12, <2>5 DEF ListedOrLater
  <1>16. CASE Cardinality({o \in Lists(f) : o < c}) >= asked
    <2>1. PICK S : S = Lists(f)
      OBVIOUS
    <2>2. S \in SUBSET legal /\ legal \in SUBSET DOMAIN KtoItems
      BY <1>2, <1>14, <2>1 DEF LegalRegion
    <2>3. /\ Cardinality({o \in S : o < c}) \in Nat /\ Cardinality({o \in legal : o < c}) \in Nat
          /\ Cardinality({o \in S : o < c}) <= Cardinality({o \in legal : o < c})
      BY <2>2, MoreBefore
    <2>4. Cardinality({o \in legal : o < c}) >= least
      BY <1>6, <1>16, <2>1, <2>3
    <2>5. QED
      BY <1>5, <1>14, <2>4
  <1>17. QED
    BY <1>2, <1>6, <1>10, <1>15, <1>16, CutList DEF ListedOrLater

\* The search by a keyword of its title finds c, unless too many come before it.
LEMMA KeywordFinds ==
  ASSUME NEW c \in DOMAIN KtoItems, parseListItem(c), NEW limit \in 1..MaxRows,
         NEW keyword \in SUBSET DOMAIN KtoItems, c \in keyword
  PROVE  ListedOrLater(c, searchByKeyword(keyword, limit), keyword, limit)
  <1>1. limit \in Nat /\ listLimit(limit) = limit
    BY ContentsOfKto DEF listLimit, SmallerOf
  <1>2. PICK t : t = First(limit, ByTitle(keyword))
    OBVIOUS
  <1>3. /\ t \in Seq(keyword) /\ Len(t) <= limit
        /\ ListedOrLater(c, t, keyword, limit)
    <2>1. /\ First(limit, ByTitle(keyword)) \in Seq(keyword) /\ Len(First(limit, ByTitle(keyword))) <= limit
          /\ ListedOrLater(c, First(limit, ByTitle(keyword)), keyword, limit)
      BY <1>1, CutList
    <2>2. QED
      BY <1>2, <2>1
  <1>4. ASSUME c \in Range(t)
        PROVE  c \in Range(searchByKeyword(keyword, limit))
    <2>1. PICK K : K = {n \in DOMAIN t : parseListItem(t[n])}
      OBVIOUS
    <2>2. PICK kept : kept = Kept(t, K)
      OBVIOUS
    <2>3. Selected(t, parseListItem) = kept
      BY <2>1, <2>2 DEF Selected
    <2>4. /\ Cardinality(K) <= Len(t)
          /\ kept \in Seq(keyword) /\ Len(kept) = Cardinality(K)
          /\ Range(kept) = {t[n] : n \in K}
      <3>1. K \in SUBSET DOMAIN t
        BY <2>1
      <3>2. /\ Cardinality(K) <= Len(t)
            /\ Kept(t, K) \in Seq(keyword) /\ Len(Kept(t, K)) = Cardinality(K)
            /\ Range(Kept(t, K)) = {t[n] : n \in K}
        BY <1>3, <3>1, KeptList
      <3>3. QED
        BY <2>2, <3>2
    <2>5. c \in Range(kept)
      BY <1>4, <2>1, <2>4 DEF Range
    <2>6. PICK n \in 1..Len(kept) : kept[n] = c
      BY <2>4, <2>5 DEF Range
    <2>7. Len(kept) \in Nat /\ Len(kept) <= limit
      BY <1>1, <1>3, <2>4
    <2>8. PICK l : l = First(limit, kept)
      OBVIOUS
    <2>9. l \in Seq(keyword) /\ Len(l) = Len(kept) /\ \A i \in 1..Len(kept) : l[i] = kept[i]
      BY <1>1, <2>4, <2>7, <2>8, FirstList DEF SmallerOf
    <2>10. c \in Range(l)
      BY <2>6, <2>9 DEF Range
    <2>11. searchByKeyword(keyword, limit) = l
      BY <1>1, <1>2, <2>3, <2>8 DEF searchByKeyword
    <2>12. QED
      BY <2>10, <2>11
  <1>5. QED
    BY <1>3, <1>4 DEF ListedOrLater

\* A stored place whose district is mapped is found by the area and the district
\* that are stored with it, although KTO is asked in other codes, and by its
\* title, unless the limit is used up by the places before it or, in its region,
\* by the rows before it that KTO gives and the proxy drops
\* (resolveKtoRegionCodes, areaSearchFilters, findByArea, searchByKeyword).
THEOREM PlacesStayFound == Spec => []StoredPlacesAreFound
  <1>1. ASSUME IInv PROVE StoredPlacesAreFound
    <2> SUFFICES ASSUME NEW v \in places, Mapped(KtoItems[v.content])
                 PROVE  <<v.content, [area |-> v.area, sigungu |-> v.sigungu]>> \in FoundByCodes
      BY DEF StoredPlacesAreFound
    <2>1. PICK c : c = v.content
      OBVIOUS
    <2>2. PICK k : k = resolveKtoRegionCodes(KtoItems[c])
      OBVIOUS
    <2>3. c \in DOMAIN KtoItems /\ parseListItem(c) /\ v.area = k.area /\ v.sigungu = k.sigungu
      BY <1>1, <2>1, <2>2 DEF IInv, RowsAgree, CodesAreVerified
    <2>4. c \in Contents
      BY <1>1, <2>1 DEF IInv, RowsAgree, TypeOK
    <2>5. /\ k \in [area : STRING, sigungu : STRING \cup {None}] /\ k.area # None
      BY <2>1, <2>2, <2>3, AreaLists
    <2>6. k = [area |-> v.area, sigungu |-> v.sigungu]
      BY <2>3, <2>5
    <2>7. k \in Codes
      BY <2>2, <2>3 DEF Codes
    <2>8. Finds(c, k)
      <3>1. \A limit \in 1..MaxRows : \A sigungu \in {None, k.sigungu} :
               \/ ListedOrLater(c, findByArea(k.area, sigungu, limit), Region(k.area, sigungu), limit)
               \/ Cardinality({o \in LegalRegion(c, sigungu = None) : o < c})
                      >= RowsAsked(k.area, sigungu, limit)
        BY <2>1, <2>2, <2>3, AreaFinds
      <3>2. \A limit \in 1..MaxRows : \A keyword \in SUBSET DOMAIN KtoItems :
               c \in keyword => ListedOrLater(c, searchByKeyword(keyword, limit), keyword, limit)
        BY <2>3, KeywordFinds
      <3>3. QED
        BY <3>1, <3>2 DEF Finds
    <2>9. <<c, k>> \in FoundByCodes
      BY <2>3, <2>4, <2>5, <2>7, <2>8 DEF FoundByCodes
    <2>10. QED
      BY <2>1, <2>6, <2>9
  <1>2. QED
    BY <1>1, RecordsInvariance, PTL

=============================================================================
