---------------------------- MODULE MetricsProofs ----------------------------
(***************************************************************************)
(* Proofs about module Metrics, for any instances in any sequence, any     *)
(* counts and any number of requests for the dashboard.                    *)
(***************************************************************************)
EXTENDS Metrics, FiniteSetTheorems, WellFoundedInduction, SequenceTheorems, TLAPS

-----------------------------------------------------------------------------
(* The inductive invariant                                                 *)

\* The sum of the lines of a dashboard.
Total(L) == MapThenSumSet(LAMBDA h : L[h].queries, Instances)

\* Of the instances before index n of a scrape, the map has the last report.
Written(n) ==
  \A h \in Instances :
    (\E i \in 1..n - 1 : Order[i] = h) =>
      \E i \in 1..n - 1 : Order[i] = h /\ stats[h] = iml[i]

\* The list of reports grows while the instances are asked, and is written to
\* the map in the same sequence.
ScrapeInv ==
  /\ scraper = "wait" =>
       iml = <<>> \/ (Len(iml) = Len(Order) /\ Written(Len(Order) + 1))
  /\ scraper = "query" => at \in 1..Len(Order) /\ Len(iml) = at - 1
  /\ scraper \in {"update", "write"} =>
       at \in 1..Len(Order) /\ Len(iml) = Len(Order) /\ Written(at)

\* As long as a request has met no short series, its total is that of the lines
\* it has copied, whatever the map has become since.
PageInv ==
  \A d \in Requests :
    handler[d] \in {"iterating", "status", "answered"} =>
      /\ total[d] = Total(lines[d])
      /\ \A h \in Instances : ~lines[d][h].short
      /\ handler[d] # "iterating" => expected[d] \subseteq ShownBy(d)

Inv == TypeOK /\ ScrapeInv /\ PageInv
-----------------------------------------------------------------------------
(* The fold of a sum                                                       *)

One(s) == CHOOSE x \in s : TRUE

\* The equation of the fold, and that equation for the subsets of T alone.
AddsUp(L, f) ==
  f = [s \in SUBSET Instances |->
         IF s = {} THEN 0 ELSE L[One(s)].queries + f[s \ {One(s)}]]

Below(L, T, f) ==
  \A s \in SUBSET T :
    f[s] = IF s = {} THEN 0 ELSE L[One(s)].queries + f[s \ {One(s)}]

\* The instances are those that are asked, so they are finitely many.
LEMMA InstancesFinite == IsFiniteSet(Instances)
<1>1. /\ Order \in [1..Len(Order) -> Instances]
      /\ Len(Order) \in Nat
      BY MetricsAssumption
<1>2. \A h \in Instances : \E i \in 1..Len(Order) : Order[i] = h
      BY <1>1, MetricsAssumption
<1>3. Order \in Surjection(1..Len(Order), Instances)
      BY <1>1, <1>2 DEF Surjection
<1>4. IsFiniteSet(1..Len(Order))
      BY <1>1, FS_Interval
<1> QED
    BY <1>3, <1>4, FS_Surjection

\* Among some sets of instances there is one that contains no other of them.
LEMMA Smallest ==
  ASSUME NEW P \in SUBSET (SUBSET Instances), P # {}
  PROVE  \E T \in P : \A U \in P : U \subseteq T => U = T
<1> DEFINE R == StrictSubsetOrdering(Instances)
           S == FiniteSubsetsOf(Instances)
<1>1. IsWellFoundedOn(R, S)
      BY FS_StrictSubsetOrderingWellFounded
<1>2. S = SUBSET Instances
      BY InstancesFinite, FS_FiniteSubsetsOfFinite
<1>3. \A U, T \in SUBSET Instances : <<U, T>> \in R <=> U \subseteq T /\ U # T
      BY DEF StrictSubsetOrdering
<1> HIDE DEF R, S
<1>4. \E T \in P : \A U \in P : ~(<<U, T>> \in R)
      BY <1>1, <1>2, WFMin
<1> QED
    BY <1>3, <1>4

\* A nonempty set has the element that the fold takes next.
LEMMA OneIsIn ==
  ASSUME NEW s, s # {}
  PROVE  One(s) \in s
  BY DEF One

\* The equation has one solution.
LEMMA SumIsUnique ==
  ASSUME NEW L, NEW T \in SUBSET Instances, NEW U \in SUBSET Instances,
         NEW f, Below(L, T, f), NEW g, Below(L, U, g)
  PROVE  \A s \in SUBSET T : s \in SUBSET U => f[s] = g[s]
<1> DEFINE P == {s \in SUBSET T : s \in SUBSET U /\ f[s] # g[s]}
<1>1. SUFFICES ASSUME P # {} PROVE FALSE
      OBVIOUS
<1>2. P \in SUBSET (SUBSET Instances)
      OBVIOUS
<1>3. PICK s \in P : \A u \in P : u \subseteq s => u = s
  <2> HIDE DEF P
  <2> QED
      BY <1>1, <1>2, Smallest
<1>4. s # {}
      BY DEF Below
<1> PICK x : x = One(s)
    OBVIOUS
<1>5. x \in s
      BY <1>4, OneIsIn
<1>6. f[s \ {x}] = g[s \ {x}]
      BY <1>3, <1>5
<1>7. /\ f[s] = L[x].queries + f[s \ {x}]
      /\ g[s] = L[x].queries + g[s \ {x}]
      BY <1>4 DEF Below
<1> QED
    BY <1>6, <1>7
Lines == [Instances -> Reports \cup {Nil}]

\* A line has a natural number of queries.
LEMMA LineShape ==
  ASSUME NEW v \in Reports \cup {Nil}
  PROVE  v.queries \in Nat /\ v.short \in BOOLEAN
<1>1. Counts \subseteq Nat
      BY MetricsAssumption
<1>2. CASE v \in Long
      BY <1>1, <1>2 DEF Long
<1>5. CASE v = Short
      BY <1>5 DEF Short
<1>3. CASE v = Empty
      BY <1>3 DEF Empty
<1>4. CASE v = Nil
      BY <1>4 DEF Nil
<1> QED
    BY <1>2, <1>3, <1>4, <1>5 DEF Reports, Stats

\* The equation has a solution, in the natural numbers.
LEMMA SumExists ==
  ASSUME NEW L \in Lines
  PROVE  \E f \in [SUBSET Instances -> Nat] : Below(L, Instances, f)
<1> DEFINE Good(T) == \E f \in [SUBSET Instances -> Nat] : Below(L, T, f)
           P == {T \in SUBSET Instances : ~Good(T)}
<1>1. SUFFICES ASSUME P # {} PROVE FALSE
      OBVIOUS
<1>2. P \in SUBSET (SUBSET Instances)
      OBVIOUS
<1>3. PICK T \in P : \A U \in P : U \subseteq T => U = T
  <2> HIDE DEF P
  <2> QED
      BY <1>1, <1>2, Smallest
<1>4. T \in SUBSET Instances /\ ~Good(T)
      OBVIOUS
<1>5. \A U \in SUBSET T : U # T => Good(U)
      BY <1>3
<1> HIDE DEF P
<1> DEFINE F(U) == CHOOSE f \in [SUBSET Instances -> Nat] : Below(L, U, f)
<1>6. \A U \in SUBSET T : U # T =>
        F(U) \in [SUBSET Instances -> Nat] /\ Below(L, U, F(U))
      BY <1>5
<1> DEFINE rest == T \ {One(T)}
           f == [s \in SUBSET Instances |->
                   IF s \in SUBSET T /\ s # T THEN F(s)[s]
                   ELSE IF T = {} THEN 0
                   ELSE L[One(T)].queries + F(rest)[rest]]
<1>7. ASSUME T # {}
      PROVE  /\ One(T) \in T /\ rest \in SUBSET T /\ rest # T
             /\ L[One(T)].queries \in Nat /\ F(rest)[rest] \in Nat
  <2>1. One(T) \in T
        BY <1>7, OneIsIn
  <2>2. rest \in SUBSET T /\ rest # T /\ rest \in SUBSET Instances
        BY <1>4, <2>1
  <2>3. F(rest) \in [SUBSET Instances -> Nat]
        BY <1>6, <2>2
  <2>4. L[One(T)] \in Reports \cup {Nil}
        BY <1>4, <2>1 DEF Lines
  <2>5. L[One(T)].queries \in Nat
        BY <2>4, LineShape
  <2> HIDE DEF F, rest
  <2> QED
      BY <2>1, <2>2, <2>3, <2>5
<1> HIDE DEF F
<1>8. f \in [SUBSET Instances -> Nat]
  <2>1. ASSUME NEW s \in SUBSET Instances, s \in SUBSET T, s # T
        PROVE  F(s)[s] \in Nat
        BY <1>6, <2>1
  <2> HIDE DEF rest
  <2> QED
      BY <1>7, <2>1
<1>9. Below(L, T, f)
  <2> SUFFICES ASSUME NEW s \in SUBSET T
               PROVE  f[s] = IF s = {} THEN 0
                             ELSE L[One(s)].queries + f[s \ {One(s)}]
      BY DEF Below
  <2> PICK x : x = One(s)
      OBVIOUS
  <2>1. s # {} => x \in s
        BY OneIsIn
  <2>2. s \in SUBSET Instances /\ s \ {x} \in SUBSET Instances
        BY <1>4
  <2>3. CASE s = T
    <3>1. CASE T = {}
          BY <2>2, <2>3, <3>1
    <3>2. CASE T # {}
      <4>1. s \ {x} = rest /\ s \ {x} \in SUBSET T /\ s \ {x} # T
            BY <2>1, <2>3, <3>2
      <4>2. f[s] = L[x].queries + F(s \ {x})[s \ {x}]
            BY <2>2, <2>3, <3>2, <4>1
      <4>3. f[s \ {x}] = F(s \ {x})[s \ {x}]
            BY <2>2, <4>1
      <4> QED
          BY <2>3, <3>2, <4>2, <4>3
    <3> QED
        BY <3>1, <3>2
  <2>4. CASE s # T
    <3>1. f[s] = F(s)[s] /\ Below(L, s, F(s))
          BY <1>6, <2>2, <2>4
    <3>2. CASE s = {}
          BY <3>1, <3>2 DEF Below
    <3>3. CASE s # {}
      <4> PICK u : u = s \ {x}
          OBVIOUS
      <4>1. u \in SUBSET T /\ u # T /\ u \in SUBSET s /\ u \in SUBSET Instances
            BY <2>1, <2>2, <3>3
      <4>2. f[u] = F(u)[u] /\ Below(L, u, F(u))
            BY <1>6, <4>1
      <4>3. F(s)[u] = F(u)[u]
            BY <2>2, <3>1, <4>1, <4>2, SumIsUnique
      <4>4. F(s)[s] = L[x].queries + F(s)[u]
            BY <3>1, <3>3 DEF Below
      <4> QED
          BY <3>1, <3>3, <4>2, <4>3, <4>4
    <3> QED
        BY <3>2, <3>3
  <2> QED
      BY <2>3, <2>4
<1> QED
    BY <1>4, <1>8, <1>9

\* The fold is that solution.
LEMMA TotalAddsUp ==
  ASSUME NEW L \in Lines
  PROVE  \E f \in [SUBSET Instances -> Nat] :
           Below(L, Instances, f) /\ Total(L) = f[Instances]
<1>1. PICK f \in [SUBSET Instances -> Nat] : Below(L, Instances, f)
      BY SumExists
<1>2. AddsUp(L, f)
      BY <1>1 DEF AddsUp, Below
<1> PICK g : g = CHOOSE h : AddsUp(L, h)
    OBVIOUS
<1>3. AddsUp(L, g)
      BY <1>2, Zenon
<1>4. Total(L) = g[Instances]
      BY Zenon DEF Total, MapThenSumSet, MapThenFoldSet, AddsUp, One
<1>5. Below(L, Instances, g)
  <2>1. \A s \in SUBSET Instances :
          g[s] = IF s = {} THEN 0 ELSE L[One(s)].queries + g[s \ {One(s)}]
        BY <1>3 DEF AddsUp
  <2> QED
      BY <2>1 DEF Below
<1>6. f[Instances] = g[Instances]
      BY <1>1, <1>5, SumIsUnique
<1> QED
    BY <1>1, <1>4, <1>6

\* The total of no lines.
LEMMA TotalOfNothing == Total(NoLines) = 0
<1>1. NoLines \in Lines
      BY DEF NoLines, Lines
<1>2. PICK f \in [SUBSET Instances -> Nat] :
        Below(NoLines, Instances, f) /\ Total(NoLines) = f[Instances]
      BY <1>1, TotalAddsUp
<1> DEFINE P == {s \in SUBSET Instances : f[s] # 0}
<1>3. P = {}
  <2>1. SUFFICES ASSUME P # {} PROVE FALSE
        OBVIOUS
  <2>2. P \in SUBSET (SUBSET Instances)
        OBVIOUS
  <2>3. PICK s \in P : \A u \in P : u \subseteq s => u = s
    <3> HIDE DEF P
    <3> QED
        BY <2>1, <2>2, Smallest
  <2>4. s # {}
        BY <1>2 DEF Below
  <2> PICK x : x = One(s)
      OBVIOUS
  <2>5. x \in s
        BY <2>4, OneIsIn
  <2>6. f[s \ {x}] = 0
        BY <2>3, <2>5
  <2>7. f[s] = NoLines[x].queries + f[s \ {x}]
        BY <1>2, <2>4 DEF Below
  <2>8. NoLines[x].queries = 0
        BY <2>5 DEF NoLines, Nil
  <2> QED
      BY <2>6, <2>7, <2>8
<1> QED
    BY <1>2, <1>3

\* A line in place of none adds its queries to the total.
LEMMA TotalOfOneMore ==
  ASSUME NEW L \in Lines, NEW h \in Instances, L[h] = Nil,
         NEW v \in Reports \cup {Nil}, NEW M, M = [L EXCEPT ![h] = v]
  PROVE  Total(M) = Total(L) + v.queries
<1>1. M \in Lines /\ M[h] = v /\ \A i \in Instances : i # h => M[i] = L[i]
      BY DEF Lines
<1>2. PICK f \in [SUBSET Instances -> Nat] :
        Below(L, Instances, f) /\ Total(L) = f[Instances]
      BY TotalAddsUp
<1>3. PICK g \in [SUBSET Instances -> Nat] :
        Below(M, Instances, g) /\ Total(M) = g[Instances]
      BY <1>1, TotalAddsUp
<1>4. L[h].queries = 0 /\ v.queries \in Nat
      BY LineShape DEF Nil
<1> DEFINE P == {s \in SUBSET Instances :
                   g[s] # f[s] + (IF h \in s THEN v.queries ELSE 0)}
<1>5. P = {}
  <2>1. SUFFICES ASSUME P # {} PROVE FALSE
        OBVIOUS
  <2>2. P \in SUBSET (SUBSET Instances)
        OBVIOUS
  <2>3. PICK s \in P : \A u \in P : u \subseteq s => u = s
    <3> HIDE DEF P
    <3> QED
        BY <2>1, <2>2, Smallest
  <2>4. s # {}
    <3>1. f[{}] = 0 /\ g[{}] = 0
          BY <1>2, <1>3 DEF Below
    <3>2. {} \notin P
          BY <3>1
    <3> QED
        BY <3>2
  <2> PICK x : x = One(s)
      OBVIOUS
  <2>5. x \in s /\ x \in Instances
        BY <2>4, OneIsIn
  <2> PICK u : u = s \ {x}
      OBVIOUS
  <2>6. g[u] = f[u] + (IF h \in u THEN v.queries ELSE 0)
        BY <2>3, <2>5
  <2>7. f[s] = L[x].queries + f[u] /\ g[s] = M[x].queries + g[u]
        BY <1>2, <1>3, <2>4 DEF Below
  <2>8. f[u] \in Nat /\ f[s] \in Nat
        OBVIOUS
  <2>9. CASE x = h
        BY <1>1, <1>4, <2>5, <2>6, <2>7, <2>8, <2>9
  <2>10. CASE x # h
    <3>1. M[x].queries = L[x].queries /\ L[x].queries \in Nat
          BY <1>1, <2>5, <2>10, LineShape DEF Lines
    <3>2. h \in u <=> h \in s
          BY <2>10
    <3> QED
        BY <1>4, <2>6, <2>7, <2>8, <3>1, <3>2
  <2> QED
      BY <2>9, <2>10
<1> QED
    BY <1>2, <1>3, <1>5
-----------------------------------------------------------------------------
(* Steps                                                                   *)

\* There is an instance to ask, and each has its indexes.
LEMMA OrderShape ==
  /\ Len(Order) \in Nat /\ Len(Order) >= 1
  /\ \A i \in 1..Len(Order) : Order[i] \in Instances
  /\ \A h \in Instances : \E i \in 1..Len(Order) : Order[i] = h
<1>1. /\ Order \in [1..Len(Order) -> Instances]
      /\ Len(Order) \in Nat /\ DOMAIN Order = 1..Len(Order)
      /\ Order # <<>>
      BY MetricsAssumption
<1>2. \A h \in Instances : \E i \in 1..Len(Order) : Order[i] = h
      BY <1>1, MetricsAssumption
<1>3. Len(Order) # 0
      BY <1>1, MetricsAssumption, EmptySeq
<1> QED
    BY <1>1, <1>2, <1>3

\* The invariant holds at first.
LEMMA InvInit == Init => Inv
<1> SUFFICES ASSUME Init PROVE Inv
    OBVIOUS
<1>1. NoLines \in Lines /\ \A h \in Instances : NoLines[h] = Nil
      BY DEF NoLines, Lines
<1>2. TypeOK
  <2>1. iml \in Seq(Reports \cup {Nil}) /\ Len(iml) = 0
        BY DEF Init
  <2>2. at \in 1..Len(Order) + 1
        BY OrderShape DEF Init
  <2> QED
      BY <1>1, <2>1, <2>2, OrderShape DEF Init, TypeOK, Lines, Stages
<1>3. ScrapeInv
      BY DEF Init, ScrapeInv
<1>4. PageInv
      BY DEF Init, PageInv
<1> QED
    BY <1>2, <1>3, <1>4 DEF Inv

\* A scrape begins with an empty list.
LEMMA StartScrapeInv == Inv /\ StartScrape => Inv'
<1> SUFFICES ASSUME Inv, StartScrape PROVE Inv'
    OBVIOUS
<1>1. /\ scraper' = "query" /\ iml' = <<>> /\ at' = 1
      /\ UNCHANGED <<up, uncreatable, stats, handler, expected, lines, total>>
      BY DEF StartScrape, NewList, page
<1>2. iml' \in Seq(Reports \cup {Nil}) /\ Len(iml') = 0
      BY <1>1
<1>3. TypeOK'
      BY <1>1, <1>2, OrderShape DEF Inv, TypeOK
<1>4. ScrapeInv'
      BY <1>1, <1>2, OrderShape DEF ScrapeInv
<1>5. PageInv'
      BY <1>1 DEF Inv, PageInv, ShownBy
<1> QED
    BY <1>3, <1>4, <1>5 DEF Inv

\* A report is put at the end of the list.
LEMMA QueryInv == Inv /\ Query => Inv'
<1> SUFFICES ASSUME Inv, Query PROVE Inv'
    OBVIOUS
<1>1. PICK report \in Reports \cup {Nil} : iml' = Append(iml, report)
      BY DEF Query
<1>2. /\ scraper = "query"
      /\ UNCHANGED <<up, uncreatable, stats, handler, expected, lines, total>>
      /\ IF at + 1 > Len(Order) THEN scraper' = "update" /\ at' = 1
                                ELSE scraper' = scraper /\ at' = at + 1
      BY DEF Query, PastLast, page
<1>3. /\ iml \in Seq(Reports \cup {Nil})
      /\ at \in 1..Len(Order) /\ Len(iml) = at - 1
      BY <1>2 DEF Inv, TypeOK, ScrapeInv
<1>4. iml' \in Seq(Reports \cup {Nil}) /\ Len(iml') = at
      BY <1>1, <1>3
<1>5. TypeOK'
      BY <1>2, <1>3, <1>4, OrderShape DEF Inv, TypeOK
<1>6. ScrapeInv'
  <2>1. CASE at + 1 > Len(Order)
    <3>1. scraper' = "update" /\ at' = 1 /\ Len(iml') = Len(Order)
          BY <1>2, <1>3, <1>4, <2>1, OrderShape
    <3>2. 1..at' - 1 = {}
          BY <3>1
    <3>3. Written(at)'
          BY <3>2 DEF Written
    <3> QED
        BY <3>1, <3>3, OrderShape DEF ScrapeInv
  <2>2. CASE ~(at + 1 > Len(Order))
    <3>1. scraper' = "query" /\ at' \in 1..Len(Order) /\ Len(iml') = at' - 1
          BY <1>2, <1>3, <1>4, <2>2, OrderShape
    <3> QED
        BY <3>1 DEF ScrapeInv
  <2> QED
      BY <2>1, <2>2
<1>7. PageInv'
      BY <1>2 DEF Inv, PageInv, ShownBy
<1> QED
    BY <1>5, <1>6, <1>7 DEF Inv

\* An instance without a client ends the process.
LEMMA UpdateInv == Inv /\ Update => Inv'
<1> SUFFICES ASSUME Inv, Update PROVE Inv'
    OBVIOUS
<1>1. /\ scraper = "update" /\ scraper' = "write" /\ up' \in BOOLEAN
      /\ UNCHANGED <<uncreatable, stats, iml, at, handler, expected, lines, total>>
      BY DEF Update, page
<1>2. TypeOK'
      BY <1>1 DEF Inv, TypeOK
<1>3. ScrapeInv'
  <2>1. Written(at)' <=> Written(at)
        BY <1>1 DEF Written
  <2> QED
      BY <1>1, <2>1 DEF Inv, ScrapeInv
<1>4. PageInv'
      BY <1>1 DEF Inv, PageInv, ShownBy
<1> QED
    BY <1>2, <1>3, <1>4 DEF Inv

\* The entry of an index is written; that of an earlier index stays, unless it
\* is the same instance's.
LEMMA WriteInv == Inv /\ Write => Inv'
<1> SUFFICES ASSUME Inv, Write PROVE Inv'
    OBVIOUS
<1>1. /\ scraper = "write"
      /\ stats' = [stats EXCEPT ![Order[at]] = iml[at]]
      /\ scraper' = IF at + 1 > Len(Order) THEN "wait" ELSE "update"
      /\ at' = at + 1
      /\ UNCHANGED <<up, uncreatable, iml, handler, expected, lines, total>>
      BY DEF Write, Stored, PastLast, page
<1>2. /\ iml \in Seq(Reports \cup {Nil}) /\ Len(iml) = Len(Order)
      /\ stats \in [Instances -> Reports \cup {Nil}]
      /\ at \in 1..Len(Order) /\ Written(at)
      BY <1>1 DEF Inv, TypeOK, ScrapeInv
<1>3. iml[at] \in Reports \cup {Nil} /\ Order[at] \in Instances
      BY <1>2, OrderShape
<1>4. stats' \in [Instances -> Reports \cup {Nil}]
      BY <1>1, <1>2, <1>3
<1>5. TypeOK'
      BY <1>1, <1>2, <1>4, OrderShape DEF Inv, TypeOK
<1>6. ASSUME NEW h \in Instances, \E i \in 1..at : Order[i] = h
      PROVE  \E i \in 1..at : Order[i] = h /\ stats'[h] = iml[i]
  <2>1. CASE Order[at] = h
        BY <1>1, <1>2, <2>1
  <2>2. CASE Order[at] # h
    <3>1. PICK i \in 1..at : Order[i] = h
          BY <1>6
    <3>2. i \in 1..at - 1
          BY <1>2, <2>2, <3>1
    <3>3. PICK j \in 1..at - 1 : Order[j] = h /\ stats[h] = iml[j]
          BY <1>2, <3>1, <3>2 DEF Written
    <3>4. stats'[h] = stats[h] /\ j \in 1..at
          BY <1>1, <1>2, <2>2, <3>3
    <3> QED
        BY <3>3, <3>4
  <2> QED
      BY <2>1, <2>2
<1>7. ScrapeInv'
  <2>1. ASSUME NEW n, n = at + 1 PROVE Written(n)'
    <3>1. n - 1 = at /\ iml' = iml
          BY <1>1, <1>2, <2>1
    <3>2. SUFFICES ASSUME NEW h \in Instances, \E i \in 1..n - 1 : Order[i] = h
                   PROVE  \E i \in 1..n - 1 : Order[i] = h /\ stats'[h] = iml'[i]
          BY DEF Written
    <3>3. \E i \in 1..at : Order[i] = h
          BY <3>1, <3>2
    <3>4. \E i \in 1..at : Order[i] = h /\ stats'[h] = iml[i]
          BY <1>6, <3>3
    <3> QED
        BY <3>1, <3>4
  <2>2. CASE at + 1 > Len(Order)
    <3>1. scraper' = "wait" /\ Len(Order) + 1 = at + 1
          BY <1>1, <1>2, <2>2, OrderShape
    <3>2. Written(Len(Order) + 1)'
          BY <2>1, <3>1
    <3> QED
        BY <1>1, <1>2, <3>1, <3>2 DEF ScrapeInv
  <2>3. CASE ~(at + 1 > Len(Order))
    <3>1. scraper' = "update" /\ at' \in 1..Len(Order) /\ Len(iml') = Len(Order)
          BY <1>1, <1>2, <2>3, OrderShape
    <3> PICK n : n = at + 1
        OBVIOUS
    <3>2. Written(n)' /\ at' = n
          BY <1>1, <2>1
    <3>3. Written(at)'
          BY <3>2 DEF Written
    <3> QED
        BY <3>1, <3>3 DEF ScrapeInv
  <2> QED
      BY <2>2, <2>3
<1>8. PageInv'
      BY <1>1 DEF Inv, PageInv, ShownBy
<1> QED
    BY <1>5, <1>7, <1>8 DEF Inv
\* A request has the shape of the variables.
LEMMA PageShape ==
  ASSUME TypeOK
  PROVE  /\ handler \in [Requests -> Stages]
         /\ expected \in [Requests -> SUBSET Instances]
         /\ lines \in [Requests -> Lines]
         /\ total \in [Requests -> Nat]
         /\ stats \in Lines
  BY DEF TypeOK, Lines

\* A step of one request.
LEMMA PageStep ==
  ASSUME Inv, NEW d \in Requests,
         UNCHANGED <<up, uncreatable, stats, scraper, iml, at>>,
         handler' \in [Requests -> Stages],
         expected' \in [Requests -> SUBSET Instances],
         lines' \in [Requests -> Lines],
         total' \in [Requests -> Nat],
         \A e \in Requests : e # d =>
           /\ handler'[e] = handler[e] /\ expected'[e] = expected[e]
           /\ lines'[e] = lines[e] /\ total'[e] = total[e],
         handler'[d] \in {"iterating", "status", "answered"} =>
           /\ total'[d] = Total(lines'[d])
           /\ \A h \in Instances : ~lines'[d][h].short
           /\ handler'[d] # "iterating" =>
                \A h \in expected'[d] : lines'[d][h] # Nil
  PROVE  Inv'
<1>1. TypeOK'
      BY DEF Inv, TypeOK, Lines
<1>2. ScrapeInv'
  <2>1. ASSUME NEW n PROVE Written(n)' <=> Written(n)
        BY DEF Written
  <2>2. Written(at)' <=> Written(at)
        BY DEF Written
  <2> QED
      BY <2>1, <2>2 DEF Inv, ScrapeInv
<1>3. PageInv'
  <2> SUFFICES ASSUME NEW e \in Requests, handler'[e] \in {"iterating", "status", "answered"}
               PROVE  /\ total'[e] = Total(lines'[e])
                      /\ \A h \in Instances : ~lines'[e][h].short
                      /\ handler'[e] # "iterating" =>
                           expected'[e] \subseteq {h \in Instances : lines'[e][h] # Nil}
      BY DEF PageInv, ShownBy
  <2>1. CASE e = d
        BY <2>1
  <2>2. CASE e # d
        BY <2>2 DEF Inv, PageInv, ShownBy
  <2> QED
      BY <2>1, <2>2
<1> QED
    BY <1>1, <1>2, <1>3 DEF Inv

\* A request begins with no lines.
LEMMA BeginInv ==
  ASSUME Inv, NEW d \in Requests, Begin(d)
  PROVE  Inv'
<1>1. /\ handler' = [handler EXCEPT ![d] = "iterating"]
      /\ expected' = [expected EXCEPT ![d] = {h \in Instances : stats[h] # Nil}]
      /\ lines' = [lines EXCEPT ![d] = NoLines]
      /\ total' = [total EXCEPT ![d] = 0]
      /\ UNCHANGED <<up, uncreatable, stats, scraper, iml, at>>
      BY DEF Begin, scrape
<1>2. NoLines \in Lines /\ \A h \in Instances : ~NoLines[h].short
      BY DEF NoLines, Lines, Nil
<1>3. /\ handler \in [Requests -> Stages]
      /\ expected \in [Requests -> SUBSET Instances]
      /\ lines \in [Requests -> Lines]
      /\ total \in [Requests -> Nat]
      BY PageShape DEF Inv
<1>4. /\ handler' \in [Requests -> Stages]
      /\ expected' \in [Requests -> SUBSET Instances]
      /\ lines' \in [Requests -> Lines]
      /\ total' \in [Requests -> Nat]
      BY <1>1, <1>2, <1>3 DEF Stages
<1>5. \A e \in Requests : e # d =>
        /\ handler'[e] = handler[e] /\ expected'[e] = expected[e]
        /\ lines'[e] = lines[e] /\ total'[e] = total[e]
      BY <1>1, <1>3
<1>6. /\ total'[d] = Total(lines'[d])
      /\ \A h \in Instances : ~lines'[d][h].short
      /\ handler'[d] = "iterating"
      BY <1>1, <1>2, <1>3, TotalOfNothing
<1> QED
    BY <1>1, <1>4, <1>5, <1>6, PageStep

\* An entry that is copied is added to the total; a short one ends the request.
LEMMA VisitInv ==
  ASSUME Inv, NEW d \in Requests, NEW h \in Instances, Visit(d, h)
  PROVE  Inv'
<1> PICK v, L : v = stats[h] /\ L = lines[d]
    OBVIOUS
<1>1. /\ handler[d] = "iterating" /\ L[h] = Nil
      /\ lines' = [lines EXCEPT ![d][h] = v]
      /\ total' = [total EXCEPT ![d] = @ + v.queries]
      /\ handler' = [handler EXCEPT ![d] = IF v.short THEN "failed" ELSE @]
      /\ UNCHANGED <<up, uncreatable, stats, scraper, iml, at, expected>>
      BY DEF Visit, scrape
<1>2. /\ handler \in [Requests -> Stages]
      /\ expected \in [Requests -> SUBSET Instances]
      /\ lines \in [Requests -> Lines]
      /\ total \in [Requests -> Nat]
      /\ stats \in Lines
      BY PageShape DEF Inv
<1>3. v \in Reports \cup {Nil} /\ L \in Lines
      BY <1>2 DEF Lines
<1>4. v.queries \in Nat /\ v.short \in BOOLEAN
      BY <1>3, LineShape
<1> PICK M : M = [L EXCEPT ![h] = v]
    OBVIOUS
<1>5. /\ M \in Lines /\ M[h] = v
      /\ \A i \in Instances : i # h => M[i] = L[i]
      BY <1>3 DEF Lines
<1>6. lines' = [lines EXCEPT ![d] = M]
      BY <1>1
<1>7. /\ handler' \in [Requests -> Stages]
      /\ expected' \in [Requests -> SUBSET Instances]
      /\ lines' \in [Requests -> Lines]
      /\ total' \in [Requests -> Nat]
      BY <1>1, <1>2, <1>4, <1>5, <1>6 DEF Stages
<1>8. \A e \in Requests : e # d =>
        /\ handler'[e] = handler[e] /\ expected'[e] = expected[e]
        /\ lines'[e] = lines[e] /\ total'[e] = total[e]
      BY <1>1, <1>2, <1>6
<1>9. total[d] = Total(L) /\ \A i \in Instances : ~L[i].short
      BY <1>1 DEF Inv, PageInv
<1>10. ASSUME handler'[d] \in {"iterating", "status", "answered"}
       PROVE  /\ total'[d] = Total(lines'[d])
              /\ \A i \in Instances : ~lines'[d][i].short
              /\ handler'[d] = "iterating"
  <2>1. ~v.short /\ handler'[d] = "iterating"
        BY <1>1, <1>2, <1>4, <1>10
  <2>2. Total(M) = Total(L) + v.queries
        BY <1>1, <1>3, TotalOfOneMore
  <2>3. lines'[d] = M /\ total'[d] = total[d] + v.queries
        BY <1>1, <1>2, <1>6
  <2>4. \A i \in Instances : ~M[i].short
        BY <1>5, <1>9, <2>1
  <2> QED
      BY <1>9, <2>1, <2>2, <2>3, <2>4
<1> QED
    BY <1>1, <1>7, <1>8, <1>10, PageStep

\* The graph is ready when it has what was there when the request began.
LEMMA GraphInv ==
  ASSUME Inv, NEW d \in Requests, Graph(d)
  PROVE  Inv'
<1>1. /\ handler[d] = "iterating" /\ expected[d] \subseteq ShownBy(d)
      /\ handler' = [handler EXCEPT ![d] = "status"]
      /\ UNCHANGED <<up, uncreatable, stats, scraper, iml, at, expected, lines, total>>
      BY DEF Graph, scrape
<1>2. /\ handler \in [Requests -> Stages]
      /\ expected \in [Requests -> SUBSET Instances]
      /\ lines \in [Requests -> Lines]
      /\ total \in [Requests -> Nat]
      BY PageShape DEF Inv
<1>3. handler' \in [Requests -> Stages]
      BY <1>1, <1>2 DEF Stages
<1>4. \A e \in Requests : e # d => handler'[e] = handler[e]
      BY <1>1, <1>2
<1>5. total[d] = Total(lines[d]) /\ \A h \in Instances : ~lines[d][h].short
      BY <1>1 DEF Inv, PageInv
<1>6. \A h \in expected[d] : lines[d][h] # Nil
      BY <1>1 DEF ShownBy
<1>7. /\ total'[d] = Total(lines'[d])
      /\ \A h \in Instances : ~lines'[d][h].short
      /\ \A h \in expected'[d] : lines'[d][h] # Nil
      BY <1>1, <1>5, <1>6
<1> QED
    BY <1>1, <1>2, <1>3, <1>4, <1>7, PageStep

\* The answer shows what the graph has.
LEMMA AnswerInv ==
  ASSUME Inv, NEW d \in Requests, Answer(d)
  PROVE  Inv'
<1>1. /\ handler[d] = "status"
      /\ handler' = [handler EXCEPT ![d] = "answered"]
      /\ UNCHANGED <<up, uncreatable, stats, scraper, iml, at, expected, lines, total>>
      BY DEF Answer, scrape
<1>2. /\ handler \in [Requests -> Stages]
      /\ expected \in [Requests -> SUBSET Instances]
      /\ lines \in [Requests -> Lines]
      /\ total \in [Requests -> Nat]
      BY PageShape DEF Inv
<1>3. handler' \in [Requests -> Stages]
      BY <1>1, <1>2 DEF Stages
<1>4. \A e \in Requests : e # d => handler'[e] = handler[e]
      BY <1>1, <1>2
<1>5. total[d] = Total(lines[d]) /\ \A h \in Instances : ~lines[d][h].short
      BY <1>1 DEF Inv, PageInv
<1>6. \A h \in expected[d] : lines[d][h] # Nil
      BY <1>1 DEF Inv, PageInv, ShownBy
<1>7. /\ total'[d] = Total(lines'[d])
      /\ \A h \in Instances : ~lines'[d][h].short
      /\ \A h \in expected'[d] : lines'[d][h] # Nil
      BY <1>1, <1>5, <1>6
<1> QED
    BY <1>1, <1>2, <1>3, <1>4, <1>7, PageStep

\* Steps that leave all but the process.
LEMMA OtherInv ==
  ASSUME Inv, up' \in BOOLEAN,
         UNCHANGED <<uncreatable, stats, scraper, iml, at, handler, expected,
                     lines, total>>
  PROVE  Inv'
<1>1. TypeOK'
      BY DEF Inv, TypeOK
<1>2. ScrapeInv'
  <2>1. ASSUME NEW n PROVE Written(n)' <=> Written(n)
        BY DEF Written
  <2>2. Written(at)' <=> Written(at)
        BY DEF Written
  <2> QED
      BY <2>1, <2>2 DEF Inv, ScrapeInv
<1>3. PageInv'
      BY DEF Inv, PageInv, ShownBy
<1> QED
    BY <1>1, <1>2, <1>3 DEF Inv

\* The invariant is inductive.
LEMMA InvStep == Inv /\ [Next]_vars => Inv'
<1> SUFFICES ASSUME Inv, [Next]_vars PROVE Inv'
    OBVIOUS
<1>1. CASE Scrape
      BY <1>1, StartScrapeInv, QueryInv, UpdateInv, WriteInv DEF Scrape
<1>2. ASSUME NEW d \in Requests, Begin(d) \/ Page(d) \/ ConcurrentMapAccess(d)
      PROVE  Inv'
  <2>1. CASE Begin(d)
        BY <2>1, BeginInv
  <2>2. CASE Page(d)
        BY <2>2, VisitInv, GraphInv, AnswerInv DEF Page
  <2>3. CASE ConcurrentMapAccess(d)
    <3>1. up' \in BOOLEAN /\ UNCHANGED <<uncreatable, stats, scraper, iml, at,
                                          handler, expected, lines, total>>
          BY <2>3 DEF ConcurrentMapAccess, scrape, page
    <3> QED
        BY <3>1, OtherInv
  <2> QED
      BY <1>2, <2>1, <2>2, <2>3
<1>3. CASE UNCHANGED vars
  <2>1. up' \in BOOLEAN /\ UNCHANGED <<uncreatable, stats, scraper, iml, at,
                                        handler, expected, lines, total>>
        BY <1>3 DEF vars, scrape, page, Inv, TypeOK
  <2> QED
      BY <2>1, OtherInv
<1> QED
    BY <1>1, <1>2, <1>3 DEF Next

-----------------------------------------------------------------------------
(* Theorems                                                                *)

\* The inductive invariant holds.
THEOREM InvHolds == Spec => []Inv
<1> QED
    BY InvInit, InvStep, PTL DEF Spec

\* Type correctness; the list of reports never outgrows the instances.
THEOREM TypeCorrect == Spec => []TypeOK
<1>1. Inv => TypeOK
      BY DEF Inv
<1> QED
    BY <1>1, InvHolds, PTL

\* A dashboard's total is the sum of the first 24 values of the lines it shows,
\* it shows all that the map had when the request came, and no short series.
THEOREM AnswersAreWhole == Spec => []AnswerIsWhole
<1>1. Inv => AnswerIsWhole
  <2> SUFFICES ASSUME Inv, NEW d \in Requests, handler[d] = "answered"
               PROVE  /\ total[d] = MapThenSumSet(LAMBDA h : lines[d][h].queries, Instances)
                      /\ \A h \in expected[d] : lines[d][h] # Nil
                      /\ \A h \in Instances : ~lines[d][h].short
      BY DEF AnswerIsWhole
  <2>1. /\ total[d] = Total(lines[d])
        /\ \A h \in Instances : ~lines[d][h].short
        /\ expected[d] \subseteq ShownBy(d)
        BY DEF Inv, PageInv
  <2>2. total[d] = MapThenSumSet(LAMBDA h : lines[d][h].queries, Instances)
        BY <2>1, Zenon DEF Total
  <2> QED
      BY <2>1, <2>2, Zenon DEF ShownBy
<1> QED
    BY <1>1, InvHolds, PTL

\* Between two scrapes the map has the last scrape's report of every instance.
THEOREM EntriesAreOfLastScrape == Spec => []EntriesOfLastScrape
<1>1. Inv => EntriesOfLastScrape
  <2> SUFFICES ASSUME Inv, scraper = "wait", iml # <<>>, NEW h \in Instances
               PROVE  \E i \in DOMAIN iml : Order[i] = h /\ stats[h] = iml[i]
      BY DEF EntriesOfLastScrape
  <2>1. Len(iml) = Len(Order) /\ Written(Len(Order) + 1)
        BY DEF Inv, ScrapeInv
  <2>2. DOMAIN iml = 1..Len(Order) /\ Len(Order) + 1 - 1 = Len(Order)
        BY <2>1, OrderShape DEF Inv, TypeOK
  <2> QED
      BY <2>1, <2>2, OrderShape DEF Written
<1> QED
    BY <1>1, InvHolds, PTL
=============================================================================
