--------------------------- MODULE ReplicaEnvProofs ---------------------------
(***************************************************************************)
(* Proofs about module ReplicaEnv, for any number of replicas in the file  *)
(* and in the environment.                                                 *)
(***************************************************************************)
EXTENDS ReplicaEnv, FiniteSetTheorems, SequenceTheorems, TLAPS

-----------------------------------------------------------------------------
(* The inductive invariant: the list is a function of the input and of how *)
(* far the loops have come.                                                *)

InputInv ==
  /\ file \in 0..MaxNumber
  /\ urls \in Seq(Numbers)
  /\ Len(urls) <= MaxNumber + 1
  /\ \A i, j \in 1..Len(urls) : urls[i] = urls[j] => i = j
  /\ usernames \in SUBSET Numbers /\ malformed \in SUBSET Numbers

\* The list after the first loop.
Count == IF Len(urls) = 0 THEN file ELSE Len(urls)
Start(i) == IF Len(urls) = 0 THEN InFile(i) ELSE Base(urls[i])

CollectInv ==
  /\ at \in 1..Len(urls) + 1
  /\ Len(replicas) = at - 1
  /\ \A i \in 1..at - 1 : urls[i] # 0 /\ replicas[i] = Base(urls[i])

FillInv ==
  /\ 0 \notin Range(urls)
  /\ Len(replicas) = Count
  /\ at \in 1..Count + 1
  /\ \A i \in 1..Count :
       replicas[i] = IF i < at THEN Parsed(Start(i), i) ELSE Start(i)
  /\ \A i \in 1..at - 1 : Place(i) \notin malformed

Inv ==
  /\ InputInv
  /\ pc \in {"collect", "fill", "done", "failed"}
  /\ replicas \in Seq(Replica)
  /\ pc = "collect" => CollectInv
  /\ pc = "failed" => \/ CollectInv /\ 0 \in Range(urls)
                      \/ FillInv /\ Place(at) \in malformed
  /\ pc \in {"fill", "done"} => FillInv
  /\ pc = "done" => at = Count + 1

-----------------------------------------------------------------------------
(* Facts about the constants and the operators                             *)

\* There are MaxNumber + 1 numbers, of which every one in 1..n counts.
LEMMA NumbersAreFinite ==
  /\ IsFiniteSet(Numbers) /\ Cardinality(Numbers) = MaxNumber + 1
  /\ \A n \in Nat : IsFiniteSet(1..n) /\ Cardinality(1..n) = n
<1>1. MaxNumber \in Int /\ MaxNumber >= 0 /\ 0 \in Int
      BY ReplicaEnvAssumption
<1>2. IsFiniteSet(0..MaxNumber) /\ Cardinality(0..MaxNumber) = MaxNumber + 1
      BY <1>1, FS_Interval
<1>3. ASSUME NEW n \in Nat PROVE IsFiniteSet(1..n) /\ Cardinality(1..n) = n
  <2>1. n \in Int /\ n >= 0 /\ 1 \in Int
        OBVIOUS
  <2> QED
      BY <2>1, FS_Interval
<1> QED
    BY <1>2, <1>3 DEF Numbers

\* The range of the URL variables.
LEMMA RangeOfUrls ==
  ASSUME InputInv, NEW x
  PROVE  x \in Range(urls) <=> \E i \in 1..Len(urls) : urls[i] = x
<1>1. DOMAIN urls = 1..Len(urls)
      BY DEF InputInv
<1> QED
    BY <1>1 DEF Range

\* What the two loops put in the list are replicas.
LEMMA EntryTypes ==
  ASSUME InputInv
  PROVE  /\ \A n \in 1..file : InFile(n) \in Replica
         /\ \A i \in 1..Len(urls) : urls[i] # 0 => Base(urls[i]) \in Replica
         /\ \A v \in Replica, n \in Numbers : Parsed(v, n) \in Replica
<1>1. \A n \in Numbers : FromFile(n) \in Value /\ FromEnv(n) \in Value
      BY DEF FromFile, FromEnv, Value
<1>2. ASSUME NEW n \in 1..file PROVE InFile(n) \in Replica
  <2>1. n \in Numbers
        BY ReplicaEnvAssumption DEF InputInv, Numbers
  <2> QED
      BY <1>1, <2>1 DEF InFile, Replica
<1>3. ASSUME NEW i \in 1..Len(urls), urls[i] # 0 PROVE Base(urls[i]) \in Replica
  <2>1. urls[i] \in Numbers /\ urls[i] \in Nat
        BY ReplicaEnvAssumption DEF InputInv, Numbers
  <2>2. CASE urls[i] > file
        BY <1>1, <2>1, <2>2 DEF Base, Replica
  <2>3. CASE ~(urls[i] > file)
    <3>1. urls[i] \in 1..file
          BY <1>3, <2>1, <2>3, ReplicaEnvAssumption DEF InputInv, Numbers
    <3>2. Initial[urls[i]] = InFile(urls[i])
          BY <3>1 DEF Initial
    <3>3. Base(urls[i]) = [InFile(urls[i]) EXCEPT !.url = FromEnv(urls[i])]
          BY <2>3, <3>2 DEF Base
    <3> QED
        BY <1>1, <1>2, <2>1, <3>1, <3>3 DEF Replica
  <2> QED
      BY <2>2, <2>3
<1>4. ASSUME NEW v \in Replica, NEW n \in Numbers PROVE Parsed(v, n) \in Replica
      BY <1>1 DEF Parsed, Replica
<1> QED
    BY <1>2, <1>3, <1>4

\* As many replicas as are collected have a number of their own in
\* 1..MaxNumber.
LEMMA CollectedFit ==
  ASSUME InputInv, NEW n \in 0..Len(urls), \A i \in 1..n : urls[i] # 0
  PROVE  n <= MaxNumber
<1> DEFINE f == [i \in 1..n |-> urls[i]]
<1>1. n \in Nat /\ MaxNumber \in Nat
      BY ReplicaEnvAssumption DEF InputInv
<1>2. ASSUME NEW i \in 1..n PROVE i \in 1..Len(urls) /\ urls[i] \in 1..MaxNumber
      BY ReplicaEnvAssumption DEF InputInv, Numbers
<1>3. f \in [1..n -> 1..MaxNumber]
      BY <1>2
<1>4. ~\E x, y \in 1..n : x # y /\ f[x] = f[y]
      BY <1>2 DEF InputInv
<1>5. ~(Cardinality(1..MaxNumber) < Cardinality(1..n))
  <2> HIDE DEF f
  <2>1. IsFiniteSet(1..MaxNumber) /\ IsFiniteSet(1..n)
        BY <1>1, NumbersAreFinite
  <2> QED
      BY <1>3, <1>4, <2>1, FS_PigeonHole
<1> QED
    BY <1>1, <1>5, NumbersAreFinite

\* The list of the first loop fits.
LEMMA CountFits ==
  ASSUME InputInv, 0 \notin Range(urls)
  PROVE  Count \in 0..MaxNumber
<1>1. Len(urls) \in Nat
      BY DEF InputInv
<1>2. \A i \in 1..Len(urls) : urls[i] # 0
      BY RangeOfUrls
<1>3. Len(urls) <= MaxNumber
      BY <1>1, <1>2, CollectedFit
<1> QED
    BY <1>1, <1>3, ReplicaEnvAssumption DEF Count, InputInv

\* What is told of the input alone stays with the input.
LEMMA SameInput ==
  ASSUME UNCHANGED input
  PROVE  /\ Count' = Count
         /\ \A i : Base(i)' = Base(i) /\ Start(i)' = Start(i)
         /\ \A v, i : Parsed(v, i)' = Parsed(v, i)
         /\ malformed' = malformed
         /\ InputInv => InputInv'
  BY DEF input, InputInv, Count, Start, InFile, Base, Initial, Parsed,
         FromFile, FromEnv, Unset

-----------------------------------------------------------------------------
(* The invariant is inductive                                              *)

\* The initial states.
LEMMA InvInit == Init => Inv
<1> SUFFICES ASSUME Init PROVE Inv
    OBVIOUS
<1> USE DEF Init
<1> PICK S \in SUBSET Numbers : urls \in SetToSeqs(S)
    OBVIOUS
<1> DEFINE n == Cardinality(S)
<1>1. IsFiniteSet(S) /\ n \in Nat /\ n <= MaxNumber + 1
  <2>1. IsFiniteSet(S) /\ n <= Cardinality(Numbers)
        BY NumbersAreFinite, FS_Subset
  <2> QED
      BY <2>1, NumbersAreFinite, FS_CardinalityType
<1>2. /\ urls \in [1..n -> S]
      /\ \A i, j \in 1..n : i # j => urls[i] # urls[j]
      BY DEF SetToSeqs
<1>3. urls \in Seq(Numbers) /\ Len(urls) = n
  <2>1. urls \in [1..n -> Numbers]
        BY <1>2
  <2>2. urls \in Seq(Numbers)
        BY <1>1, <2>1, SeqDef
  <2>3. DOMAIN urls = 1..Len(urls) /\ DOMAIN urls = 1..n /\ Len(urls) \in Nat
        BY <2>1, <2>2, LenProperties
  <2>4. Len(urls) = n
        BY <1>1, <2>3
  <2> QED
      BY <2>2, <2>4
<1>4. InputInv
      BY <1>1, <1>2, <1>3 DEF InputInv
<1>5. CollectInv
      BY <1>1, <1>3 DEF CollectInv
<1> QED
    BY <1>4, <1>5 DEF Inv

\* The first loop takes a variable, or refuses the configuration.
LEMMA CollectKeeps == Inv /\ Collect => Inv'
<1> SUFFICES ASSUME Inv, Collect PROVE Inv'
    OBVIOUS
<1> USE DEF Collect, input
<1>1. InputInv /\ InputInv' /\ CollectInv
      BY DEF Inv, InputInv
<1>2. at \in 1..Len(urls) /\ Len(urls) \in Nat
      BY <1>1 DEF CollectInv, InputInv
<1>3. CASE urls[at] = 0
  <2>1. 0 \in Range(urls)
        BY <1>1, <1>2, <1>3, RangeOfUrls
  <2>2. CollectInv' /\ pc' = "failed" /\ replicas' = replicas /\ urls' = urls
        BY <1>1, <1>3, SameInput DEF CollectInv
  <2> QED
      BY <1>1, <2>1, <2>2 DEF Inv
<1>4. CASE urls[at] # 0
  <2>1. Base(urls[at]) \in Replica
        BY <1>1, <1>2, <1>4, EntryTypes
  <2>2. /\ replicas' = Append(replicas, Base(urls[at]))
        /\ at' = at + 1 /\ pc' = pc /\ urls' = urls /\ file' = file
        BY <1>4
  <2>3. replicas' \in Seq(Replica) /\ Len(replicas') = at
        BY <1>1, <1>2, <2>1, <2>2 DEF Inv, CollectInv
  <2>4. ASSUME NEW i \in 1..at PROVE urls[i] # 0 /\ replicas'[i] = Base(urls[i])
    <3>1. CASE i = at
          BY <1>1, <1>2, <1>4, <2>1, <2>2, <3>1 DEF Inv, CollectInv
    <3>2. CASE i # at
      <4>1. i \in 1..at - 1 /\ i \in 1..Len(replicas)
            BY <1>1, <1>2, <3>2 DEF CollectInv
      <4>2. replicas'[i] = replicas[i]
            BY <2>1, <2>2, <4>1 DEF Inv
      <4> QED
          BY <1>1, <4>1, <4>2 DEF CollectInv
    <3> QED
        BY <3>1, <3>2
  <2>5. \A x : Base(x)' = Base(x)
        BY SameInput
  <2>6. CollectInv'
    <3>1. at' \in 1..Len(urls) + 1 /\ Len(replicas') = at' - 1 /\ at' - 1 = at
          BY <1>2, <2>2, <2>3
    <3> QED
        BY <2>2, <2>4, <2>5, <3>1 DEF CollectInv
  <2> QED
      BY <1>1, <2>2, <2>3, <2>6 DEF Inv
<1> QED
    BY <1>3, <1>4

\* Between the loops nothing is lost: without a variable the list is that of
\* the file.
LEMMA CollectedKeeps == Inv /\ Collected => Inv'
<1> SUFFICES ASSUME Inv, Collected PROVE Inv'
    OBVIOUS
<1> USE DEF Collected, input
<1>1. InputInv /\ InputInv' /\ CollectInv
      BY DEF Inv, InputInv
<1>2. Len(urls) \in Nat /\ at = Len(urls) + 1 /\ Len(replicas) = Len(urls)
      BY <1>1 DEF CollectInv, InputInv
<1>3. \A i \in 1..Len(urls) : urls[i] # 0 /\ replicas[i] = Base(urls[i])
      BY <1>1, <1>2 DEF CollectInv
<1>4. 0 \notin Range(urls)
      BY <1>1, <1>3, RangeOfUrls
<1>5. file \in Nat
      BY <1>1, ReplicaEnvAssumption DEF InputInv
<1>6. Count \in Nat /\ Count' = Count /\ at' = 1
      BY <1>2, <1>5 DEF Count
<1>7. /\ replicas' \in Seq(Replica)
      /\ Len(replicas') = Count
      /\ \A i \in 1..Count : replicas'[i] = Start(i)
  <2>1. CASE Len(urls) = 0
    <3>1. replicas = <<>> /\ replicas' = Initial
          BY <1>2, <2>1 DEF Inv
    <3>2. Initial \in [1..file -> Replica]
          BY <1>1, EntryTypes DEF Initial
    <3>3. Initial \in Seq(Replica)
          BY <1>5, <3>2, SeqDef
    <3>4. Len(Initial) = file
          BY <1>5, <3>2, <3>3, LenProperties
    <3> QED
        BY <2>1, <3>1, <3>3, <3>4 DEF Count, Start, Initial
  <2>2. CASE Len(urls) # 0
    <3>1. replicas # <<>> /\ replicas' = replicas
          BY <1>2, <2>2
    <3> QED
        BY <1>2, <1>3, <2>2, <3>1 DEF Count, Start, Inv
  <2> QED
      BY <2>1, <2>2
<1>8. \A i : Start(i)' = Start(i)
      BY SameInput
<1>9. FillInv'
  <2>1. 1..at' - 1 = {}
        BY <1>6
  <2> QED
      BY <1>4, <1>6, <1>7, <1>8, <2>1 DEF FillInv
<1> QED
    BY <1>1, <1>7, <1>9 DEF Inv

\* The second loop takes a place.
LEMMA FillKeeps == Inv /\ Fill => Inv'
<1> SUFFICES ASSUME Inv, Fill PROVE Inv'
    OBVIOUS
<1> USE DEF Fill, input
<1>1. InputInv /\ InputInv' /\ FillInv
      BY DEF Inv, InputInv
<1>2. Count \in 0..MaxNumber /\ MaxNumber \in Nat
      BY <1>1, CountFits, ReplicaEnvAssumption DEF FillInv
<1>3. at \in 1..Count /\ at \in Numbers /\ Len(replicas) = Count
      BY <1>1, <1>2 DEF FillInv, Numbers
<1>4. Parsed(replicas[at], at) \in Replica
      BY <1>1, <1>3, EntryTypes DEF Inv
<1>5. replicas' = [replicas EXCEPT ![at] = Parsed(replicas[at], at)]
      BY DEF Place
<1>6. /\ replicas' \in Seq(Replica)
      /\ Len(replicas') = Count
      /\ \A i \in 1..Count : replicas'[i] = IF i = at THEN Parsed(replicas[at], at)
                                             ELSE replicas[i]
      BY <1>3, <1>4, <1>5, ExceptSeq DEF Inv
<1>7. /\ Count' = Count /\ at' = at + 1
      /\ \A i : Start(i)' = Start(i)
      /\ \A v, i : Parsed(v, i)' = Parsed(v, i)
      BY SameInput
<1>8. \A i \in 1..Count :
        replicas'[i] = IF i < at + 1 THEN Parsed(Start(i), i) ELSE Start(i)
  <2> TAKE i \in 1..Count
  <2>1. replicas[i] = IF i < at THEN Parsed(Start(i), i) ELSE Start(i)
        BY <1>1 DEF FillInv
  <2>2. CASE i = at
        BY <1>2, <1>3, <1>6, <2>1, <2>2
  <2>3. CASE i # at
    <3>1. i < at <=> i < at + 1
          BY <1>2, <1>3, <2>3
    <3> QED
        BY <1>6, <2>1, <2>3, <3>1
  <2> QED
      BY <2>2, <2>3
<1>9. at + 1 \in 1..Count + 1
      BY <1>2, <1>3
<1>10. FillInv'
  <2>1. \A i \in 1..at' - 1 : Place(i) \notin malformed'
        BY <1>1, <1>3, <1>7, SameInput DEF FillInv
  <2> QED
      BY <1>1, <1>6, <1>7, <1>8, <1>9, <2>1 DEF FillInv
<1> QED
    BY <1>1, <1>6, <1>10 DEF Inv

\* It refuses the configuration for a variable that it cannot parse.
LEMMA FillFailsKeeps == Inv /\ FillFails => Inv'
<1> SUFFICES ASSUME Inv, FillFails PROVE Inv'
    OBVIOUS
<1>1. /\ pc = "fill" /\ pc' = "failed" /\ Place(at) \in malformed
      /\ UNCHANGED <<input, at, replicas>>
      BY DEF FillFails
<1>2. InputInv' /\ FillInv /\ urls' = urls
      BY <1>1, SameInput DEF Inv, input
<1>3. FillInv' /\ Place(at)' \in malformed'
      BY <1>1, <1>2, SameInput DEF FillInv, Place
<1> QED
    BY <1>1, <1>2, <1>3 DEF Inv

\* The second loop ends after the last place.
LEMMA FilledKeeps == Inv /\ Filled => Inv'
<1> SUFFICES ASSUME Inv, Filled PROVE Inv'
    OBVIOUS
<1> USE DEF Filled, input
<1>1. InputInv /\ InputInv' /\ FillInv
      BY DEF Inv, InputInv
<1>2. Count \in 0..MaxNumber /\ MaxNumber \in Nat
      BY <1>1, CountFits, ReplicaEnvAssumption DEF FillInv
<1>3. at = Count + 1
      BY <1>1, <1>2 DEF FillInv
<1>4. Count' = Count /\ FillInv'
      BY <1>1, SameInput DEF FillInv
<1> QED
    BY <1>1, <1>3, <1>4 DEF Inv

\* The invariant is inductive.
LEMMA InvStep == Inv /\ [Next]_vars => Inv'
<1>1. ASSUME Inv, UNCHANGED vars PROVE Inv'
  <2>1. UNCHANGED input /\ urls' = urls
        BY <1>1 DEF vars, input
  <2>2. /\ CollectInv => CollectInv'
        /\ FillInv => FillInv'
        BY <1>1, <2>1, SameInput DEF vars, CollectInv, FillInv
  <2>3. Place(at)' \in malformed' <=> Place(at) \in malformed
        BY <1>1, <2>1, SameInput DEF vars, Place
  <2> QED
      BY <1>1, <2>1, <2>2, <2>3, SameInput DEF vars, Inv
<1> QED
    BY <1>1, CollectKeeps, CollectedKeeps, FillKeeps, FillFailsKeeps,
       FilledKeeps DEF Next

\* The list and the loops' index stay within their bounds.
LEMMA InvType == Inv => TypeOK
<1> SUFFICES ASSUME Inv PROVE TypeOK
    OBVIOUS
<1>1. InputInv /\ MaxNumber \in Nat /\ Len(urls) \in Nat
      BY ReplicaEnvAssumption DEF Inv, InputInv
<1>2. Len(replicas) <= MaxNumber /\ at \in 1..MaxNumber + 2
  <2>1. CASE CollectInv
    <3>1. /\ at \in 1..Len(urls) + 1 /\ Len(replicas) = at - 1
          /\ \A i \in 1..at - 1 : urls[i] # 0
          BY <2>1 DEF CollectInv
    <3>2. at - 1 \in 0..Len(urls)
          BY <1>1, <3>1
    <3>3. at - 1 <= MaxNumber
          BY <1>1, <3>1, <3>2, CollectedFit
    <3> QED
        BY <1>1, <3>1, <3>3
  <2>2. CASE FillInv
    <3>1. Count \in 0..MaxNumber
          BY <1>1, <2>2, CountFits DEF FillInv
    <3> QED
        BY <1>1, <2>2, <3>1 DEF FillInv
  <2> QED
      BY <2>1, <2>2 DEF Inv
<1>3. ASSUME pc = "done", NEW i \in 1..Len(replicas) PROVE Place(i) \notin malformed
  <2>1. FillInv /\ at = Count + 1 /\ Count \in 0..MaxNumber
        BY <1>1, <1>3, CountFits DEF Inv, FillInv
  <2>2. i \in 1..at - 1
        BY <1>1, <2>1 DEF FillInv
  <2> QED
      BY <2>1, <2>2 DEF FillInv
<1> QED
    BY <1>1, <1>2, <1>3 DEF Inv, InputInv, FillInv, TypeOK

\* In order, or with nothing in the file, the options are a replica's own.
LEMMA InvOwnOptions == Inv => OwnOptions
<1> SUFFICES ASSUME Inv, pc = "done", NoGap,
                    file = 0 \/ urls = [i \in DOMAIN urls |-> i],
                    NEW i \in DOMAIN replicas
             PROVE  replicas[i] = Meant(i)
    BY DEF OwnOptions
<1>1. InputInv /\ FillInv /\ at = Count + 1
      BY DEF Inv
<1>2. Count \in 0..MaxNumber /\ MaxNumber \in Nat
      BY <1>1, CountFits, ReplicaEnvAssumption DEF FillInv
<1>3. i \in 1..Count
      BY <1>1 DEF Inv, FillInv
<1>4. replicas[i] = Parsed(Start(i), i)
      BY <1>1, <1>2, <1>3 DEF FillInv
<1>5. CASE Len(urls) = 0
  <2>1. Range(urls) = {} /\ i <= file
        BY <1>1, <1>3, <1>5, RangeOfUrls DEF Count
  <2> QED
      BY <1>4, <1>5, <2>1 DEF Start, InFile, Parsed, Meant
<1>6. CASE Len(urls) # 0
  <2>1. i \in 1..Len(urls) /\ i \in Range(urls)
        BY <1>3, <1>6 DEF Count, NoGap
  <2>2. Start(i) = Base(urls[i])
        BY <1>6 DEF Start
  <2>3. Parsed(Start(i), i).username =
          IF i \in usernames THEN FromEnv(i)
          ELSE IF i <= file THEN FromFile(i) ELSE Unset
    <3>1. urls[i] \in Numbers /\ urls[i] # 0
          BY <1>1, <2>1, RangeOfUrls DEF InputInv, FillInv
    <3>2. CASE file = 0
      <4>1. urls[i] > file /\ ~(i <= file)
            BY <2>1, <3>1, <3>2, ReplicaEnvAssumption DEF Numbers
      <4> QED
          BY <2>2, <4>1 DEF Parsed, Base
    <3>3. CASE urls = [j \in DOMAIN urls |-> j]
      <4>1. urls[i] = i
            BY <1>1, <2>1, <3>3 DEF InputInv
      <4>2. CASE i > file
            BY <1>1, <1>2, <2>1, <2>2, <4>1, <4>2 DEF Parsed, Base, InputInv
      <4>3. CASE ~(i > file)
        <5>1. i \in 1..file /\ i <= file
              BY <1>1, <1>2, <2>1, <4>3 DEF InputInv
        <5>2. Initial[i] = InFile(i)
              BY <5>1 DEF Initial
        <5>3. Start(i).username = FromFile(i)
              BY <2>2, <4>1, <4>3, <5>2 DEF Base, InFile
        <5> QED
            BY <5>1, <5>3 DEF Parsed
      <4> QED
          BY <4>2, <4>3
    <3> QED
        BY <3>2, <3>3
  <2>4. Parsed(Start(i), i).url = FromEnv(i)
        BY <2>1 DEF Parsed
  <2> QED
      BY <1>4, <2>1, <2>3, <2>4 DEF Parsed, Meant
<1> QED
    BY <1>5, <1>6

-----------------------------------------------------------------------------
(* What holds of every behaviour                                           *)

\* The invariant holds always.
THEOREM InvHolds == Spec => []Inv
<1>1. Init => Inv
      BY InvInit
<1>2. Inv /\ [Next]_vars => Inv'
      BY InvStep
<1> QED
    BY <1>1, <1>2, PTL DEF Spec

\* The loops end within their bounds: the list never has more replicas than
\* there are numbers from 1, and a URL variable with number 0 refuses the
\* configuration.
THEOREM TypeCorrect == Spec => []TypeOK
BY InvType, InvHolds, PTL

\* Every replica gets its own options when the URL variables have no gap and
\* come in order, or the file has none of the replicas.
THEOREM OptionsAreOwn == Spec => []OwnOptions
BY InvOwnOptions, InvHolds, PTL
=============================================================================
