-------------------------- MODULE SyncSystemProofs --------------------------
(***************************************************************************)
(* Proofs about module SyncSystem, for any number of goroutines, replicas  *)
(* and parts of the settings, and any bounds.                              *)
(***************************************************************************)
EXTENDS SyncSystem, WorkerProofs

\* A step of a body changes no variable of the worker, or is a Return or a
\* Panic of it.
LEMMA BodyIsWorkerStep ==
  ASSUME NEW t \in Threads, Body(t)
  PROVE  Return(t) \/ Panic(t) \/ UNCHANGED vars
<1>1. CASE \E r \in Replicas, p \in Parts :
             LeaveOut(t, r, p) \/ CompareFails(t, r, p) \/ SendFails(t, r, p)
  <2>1. PICK dropped : GiveUp(t, dropped)
        BY <1>1 DEF LeaveOut, CompareFails, SendFails, AfterError
  <2> QED
      BY <2>1 DEF GiveUp
<1>2. CASE \E r \in Replicas, p \in Parts : Compare(t, r, p) \/ Send(t, r, p)
      BY <1>2 DEF Compare, Send
<1>3. CASE \/ ReadOriginFails(t) \/ EndBody(t) \/ PanicInBody(t)
           \/ \E p \in Parts : ReadOrigin(t, p)
      BY <1>3 DEF ReadOriginFails, EndBody, PanicInBody, ReadOrigin
<1> QED
    BY <1>1, <1>2, <1>3 DEF Body

\* What a sync gives up at a step: parts of one replica, with the one at hand.
LEMMA GivenUp ==
  ASSUME SysTypeOK, NEW t \in Threads, NEW r \in Replicas, NEW p \in Parts,
         LeaveOut(t, r, p) \/ CompareFails(t, r, p) \/ SendFails(t, r, p)
  PROVE  /\ \E dropped \in SUBSET Work : GiveUp(t, dropped) /\ <<r, p>> \in dropped
         /\ InBody(t) /\ Failure
         /\ replica' = replica \/ Apply(t, r, p)
<1>1. <<r, p>> \in Work
      BY DEF Work
<1>2. CASE LeaveOut(t, r, p)
      BY <1>1, <1>2 DEF LeaveOut, AtWork
<1>3. CASE CompareFails(t, r, p) \/ SendFails(t, r, p)
  <2>1. PICK others \in SUBSET ({r} \X Parts) :
          GiveUp(t, {<<r, p>>} \cup (others \cap left[t]))
        BY <1>3 DEF CompareFails, SendFails, AfterError
  <2>2. {<<r, p>>} \cup (others \cap left[t]) \in SUBSET Work
        BY <1>1 DEF SysTypeOK
  <2> QED
      BY <1>3, <2>1, <2>2 DEF CompareFails, SendFails, AtWork
<1> QED
    BY <1>2, <1>3

\* Every step of the system is a step of the worker or leaves it alone.
LEMMA WorkerStep == [SysNext]_sysVars => [Next]_vars
<1> SUFFICES ASSUME [SysNext]_sysVars
             PROVE  [Next]_vars
    OBVIOUS
<1>1. CASE Trigger
      BY <1>1 DEF Trigger, Next, Process
<1>2. CASE Stop \/ ShutdownEnds
      BY <1>2 DEF Stop, ShutdownEnds, Next, Process
<1>3. ASSUME NEW p \in Parts, EditOrigin(p)
      PROVE  UNCHANGED vars
      BY <1>3 DEF EditOrigin
<1>4. ASSUME NEW t \in Threads, SysOwn(t)
      PROVE  Own(t)
      BY <1>4 DEF SysOwn, Outside, StartBody, ProcessEnds, Own
<1>5. ASSUME NEW t \in Threads, Body(t)
      PROVE  [Next]_vars
      BY <1>5, BodyIsWorkerStep DEF Next
<1>6. CASE UNCHANGED sysVars
      BY <1>6 DEF sysVars
<1> QED
    BY <1>1, <1>2, <1>3, <1>4, <1>5, <1>6 DEF SysNext, Next

(* The program at work implements the worker: with the bodies, the edits   *)
(* and the failures it has no behaviour of the worker's state that module  *)
(* Worker lacks, so that what is shown there holds here.                   *)
THEOREM ImplementsWorker == SysSpec => Spec
<1>1. SysInit => Init
      BY DEF SysInit
<1> QED
    BY <1>1, WorkerStep, PTL DEF SysSpec, Spec

(* The flag is never left raised in the program at work.                   *)
THEOREM SystemFlagHasOwner == SysSpec => []RunningHasOwner
  BY ImplementsWorker, FlagHasOwner, PTL

-----------------------------------------------------------------------------
\* The initial states are well typed.
LEMMA SysTypeInit == SysInit => SysTypeOK
<1> SUFFICES ASSUME SysInit
             PROVE  SysTypeOK
    OBVIOUS
<1>1. TypeOK
      BY TypeInit DEF SysInit
<1>2. NoVersion \in [Parts -> Versions] /\ 0 \in 0..MaxFaults
      BY SystemAssumption DEF NoVersion, Versions
<1>3. \A t \in Threads : AtRest(t)
      BY DEF SysInit, AtRest
<1> QED
    BY <1>1, <1>2, <1>3 DEF SysInit, SysTypeOK

\* Forgetting keeps the types and leaves a goroutine at rest.
LEMMA ForgetStep ==
  ASSUME SysTypeOK, TypeOK', NEW t \in Threads, NEW to, to # "body",
         Goto(t, "body", to), UNCHANGED peers, faults' \in 0..MaxFaults,
         Forget(t)
  PROVE  SysTypeOK'
<1> USE DEF SysTypeOK, Forget, ForgetWork, peers
<1>1. NoVersion \in [Parts -> Versions]
      BY SystemAssumption DEF NoVersion, Versions
<1>2. pc \in [Threads -> Steps]
      BY DEF TypeOK
<1>3. ASSUME NEW u \in Threads, ~InBody(u)'
      PROVE  AtRest(u)'
  <2>1. CASE u = t
        BY <2>1 DEF AtRest
  <2>2. CASE u # t
        BY <2>2, <1>2, <1>3 DEF AtRest, InBody, Goto
  <2> QED
      BY <2>1, <2>2
<1> QED
    BY <1>1, <1>3

\* So does a process that goes down.
LEMMA DownTypeStep ==
  ASSUME SysTypeOK, TypeOK', Down, faults' \in 0..MaxFaults
  PROVE  SysTypeOK'
<1> USE DEF SysTypeOK, Down, peers
<1>1. NoVersion \in [Parts -> Versions]
      BY SystemAssumption DEF NoVersion, Versions
<1>2. \A t \in Threads : AtRest(t)'
      BY DEF AtRest
<1> QED
    BY <1>1, <1>2

\* A bounded counter of failures stays in its bounds.
LEMMA FailureType ==
  ASSUME faults \in 0..MaxFaults, Failure
  PROVE  faults' \in 0..MaxFaults
  BY SystemAssumption DEF Failure

\* Every step keeps every variable in its set, and goroutines outside the
\* body at rest.
LEMMA SysTypeStep ==
  SysTypeOK /\ DownIsQuiet /\ [SysNext]_sysVars => SysTypeOK'
<1> SUFFICES ASSUME SysTypeOK, DownIsQuiet, [SysNext]_sysVars
             PROVE  SysTypeOK'
    OBVIOUS
<1>0. TypeOK'
      BY TypeStep, WorkerStep DEF SysTypeOK
<1>p. pc \in [Threads -> Steps]
      BY DEF SysTypeOK, TypeOK
<1>f. faults \in 0..MaxFaults
      BY DEF SysTypeOK
\* Steps outside of the bodies: a goroutine that does not enter one.
<1>1. ASSUME UNCHANGED <<peers, locals, faults>>,
             \A t \in Threads : InBody(t) => InBody(t)'
      PROVE  SysTypeOK'
      BY <1>0, <1>1 DEF SysTypeOK, peers, locals, progress, AtRest
<1>2. CASE Trigger
  <2>1. ASSUME Boot
        PROVE  \A t \in Threads : InBody(t) => InBody(t)'
        BY <2>1 DEF Boot, InBody, DownIsQuiet, Quiet
  <2>2. ASSUME CronRun \/ Elapse
        PROVE  \A t \in Threads : InBody(t) => InBody(t)'
        BY <2>2 DEF CronRun, Elapse, InBody
  <2>3. ASSUME NEW u \in Threads, Begin(u)
        PROVE  \A t \in Threads : InBody(t) => InBody(t)'
        BY <2>3, <1>p DEF Begin, InBody
  <2>4. \A t \in Threads : InBody(t) => InBody(t)'
        BY <1>2, <2>1, <2>2, <2>3 DEF Trigger, CronFire, HandleSync, Threads,
           InBody
  <2> QED
      BY <1>1, <1>2, <2>4 DEF Trigger
<1>3. CASE Stop
  <2>1. CASE Kill /\ Failure /\ Down
        BY <2>1, <1>0, <1>f, FailureType, DownTypeStep
  <2>2. CASE Signal /\ Failure /\ UNCHANGED <<peers, locals>>
    <3>1. faults' \in 0..MaxFaults
          BY <2>2, <1>f, FailureType
    <3> QED
        BY <2>2, <3>1, <1>0 DEF Signal, SysTypeOK, peers, locals, progress,
           InBody, AtRest
  <2> QED
      BY <1>3, <2>1, <2>2 DEF Stop
<1>4. CASE ShutdownEnds
      BY <1>4, <1>0, <1>f, DownTypeStep DEF ShutdownEnds
<1>5. ASSUME NEW p \in Parts, EditOrigin(p)
      PROVE  SysTypeOK'
      BY <1>5, <1>0, SystemAssumption DEF EditOrigin, SysTypeOK, locals,
         progress, vars, Versions, InBody, AtRest
<1>6. ASSUME NEW t \in Threads, SysOwn(t)
      PROVE  SysTypeOK'
  <2>1. CASE Outside(t)
    <3>1. \A u \in Threads : InBody(u) => InBody(u)'
          BY <2>1, <1>p DEF Outside, Check, Clear, ReadNow, StoreLast,
             ReadEntry, StoreNext, LeaveWithoutCron, Leave, Goto, InBody
    <3> QED
        BY <2>1, <3>1, <1>1 DEF Outside
  <2>2. CASE StartBody(t)
    <3>1. \A u \in Threads : ~InBody(u)' => u # t /\ ~InBody(u)
          BY <2>2, <1>p DEF StartBody, Set, Goto, InBody, Steps
    <3>2. ASSUME NEW u \in Threads, ~InBody(u)'
          PROVE  AtRest(u)'
          BY <2>2, <3>1, <3>2 DEF StartBody, SysTypeOK, AtRest, progress
    <3>3. asked' \in [Threads -> [Parts -> Versions]]
          BY <2>2 DEF StartBody, SysTypeOK
    <3>4. overlapping' \in SUBSET Threads
          BY <2>2 DEF StartBody, SysTypeOK
    <3> QED
        BY <2>2, <3>2, <3>3, <3>4, <1>0 DEF StartBody, SysTypeOK, peers,
           progress
  <2>3. CASE ProcessEnds(t)
        BY <2>3, <1>0, <1>f, DownTypeStep DEF ProcessEnds
  <2> QED
      BY <1>6, <2>1, <2>2, <2>3 DEF SysOwn
<1>7. ASSUME NEW t \in Threads, Body(t)
      PROVE  SysTypeOK'
  <2>1. CASE ReadOriginFails(t) \/ EndBody(t) \/ PanicInBody(t)
    <3>1. faults' \in 0..MaxFaults
          BY <2>1, <1>f, FailureType DEF ReadOriginFails, EndBody, PanicInBody
    <3> QED
        BY <2>1, <3>1, <1>0, ForgetStep DEF ReadOriginFails, EndBody,
           PanicInBody, Return, Panic
  <2>2. ASSUME NEW p \in Parts, ReadOrigin(t, p)
        PROVE  SysTypeOK'
        BY <2>2, <1>0 DEF ReadOrigin, SysTypeOK, InBody, AtRest, vars, peers,
           progress
  <2>3. ASSUME NEW r \in Replicas, NEW p \in Parts, Compare(t, r, p)
        PROVE  SysTypeOK'
    <3>1. /\ left' \in [Threads -> SUBSET Work]
          /\ sending' \in [Threads -> SUBSET Work]
      <4>1. <<r, p>> \in Work
            BY DEF Work
      <4>2. /\ left \in [Threads -> SUBSET Work] /\ sending \in [Threads -> SUBSET Work]
            /\ left' = [left EXCEPT ![t] = left[t] \ {<<r, p>>}]
            /\ sending' = sending \/ sending' = [sending EXCEPT ![t] = {<<r, p>>}]
            BY <2>3 DEF Compare, SysTypeOK
      <4>3. {<<r, p>>} \in SUBSET Work /\ left[t] \ {<<r, p>>} \in SUBSET Work
            BY <4>1, <4>2
      <4> QED
          BY <4>2, <4>3
    <3>2. ASSUME NEW u \in Threads, ~InBody(u)'
          PROVE  AtRest(u)'
          BY <2>3, <3>2 DEF Compare, AtWork, InBody, AtRest, vars, SysTypeOK
    <3> QED
        BY <2>3, <1>0, <3>1, <3>2 DEF Compare, SysTypeOK, peers
  <2>4. ASSUME NEW r \in Replicas, NEW p \in Parts, Send(t, r, p)
        PROVE  SysTypeOK'
        BY <2>4, <1>0 DEF Send, Apply, SysTypeOK, InBody, AtRest, vars
  <2>5. ASSUME NEW r \in Replicas, NEW p \in Parts,
               LeaveOut(t, r, p) \/ CompareFails(t, r, p) \/ SendFails(t, r, p)
        PROVE  SysTypeOK'
    <3>1. PICK dropped \in SUBSET Work : GiveUp(t, dropped)
          BY <2>5, GivenUp
    <3>2. InBody(t) /\ Failure /\ (replica' = replica \/ Apply(t, r, p))
          BY <2>5, GivenUp
    <3>3. faults' \in 0..MaxFaults
          BY <3>2, <1>f, FailureType
    <3>4. replica' \in [Replicas -> [Parts -> Versions]]
      <4>1. held[t][p] \in Versions
            BY DEF SysTypeOK
      <4>2. CASE Apply(t, r, p)
            BY <4>1, <4>2 DEF Apply, SysTypeOK
      <4>3. CASE replica' = replica
            BY <4>3 DEF SysTypeOK
      <4> QED
          BY <3>2, <4>2, <4>3
    <3>5. ASSUME NEW u \in Threads, ~InBody(u)'
          PROVE  AtRest(u)'
          BY <3>1, <3>2, <3>5 DEF GiveUp, InBody, AtRest, vars, SysTypeOK
    <3>6. /\ sending' \in [Threads -> SUBSET Work]
          /\ left' \in [Threads -> SUBSET Work]
          /\ missed' \in [Threads -> SUBSET Work]
          BY <3>1 DEF GiveUp, SysTypeOK
    <3>7. UNCHANGED <<origin, unread, held, overlapping, asked>>
          BY <3>1 DEF GiveUp
    <3> QED
        BY <1>0, <3>3, <3>4, <3>5, <3>6, <3>7 DEF SysTypeOK
  <2> QED
      BY <1>7, <2>1, <2>2, <2>3, <2>4, <2>5 DEF Body
<1>8. CASE UNCHANGED sysVars
      BY <1>8, <1>0 DEF sysVars, vars, peers, locals, progress, SysTypeOK,
         InBody, AtRest
<1> QED
    BY <1>2, <1>3, <1>4, <1>5, <1>6, <1>7, <1>8 DEF SysNext

\* What is shown of the worker holds of the program at work.
LEMMA SystemDownIsQuiet == SysSpec => []DownIsQuiet
<1>1. Init => DownIsQuiet
      BY DEF Init, DownIsQuiet, Quiet
<1>2. Spec => []DownIsQuiet
      BY <1>1, DownStep, TypeCorrect, PTL DEF Spec
<1> QED
    BY <1>2, ImplementsWorker, PTL

(* Type correctness of the program at work; a goroutine outside the body   *)
(* keeps nothing of a sync.                                                *)
THEOREM SysTypeCorrect == SysSpec => []SysTypeOK
  BY SysTypeInit, SysTypeStep, SystemDownIsQuiet, PTL DEF SysSpec

-----------------------------------------------------------------------------
\* The inductive invariant: what is held is not newer than the origin; a sync
\* reads before it writes; of two syncs in the body each is marked; and a sync
\* without a mark holds nothing older than what the replicas have, and nothing
\* else than what it is done with and has not missed.
NeverAhead == \A r \in Replicas, p \in Parts : replica[r][p] <= origin[p]
HeldIsOld ==
  \A t \in Threads, p \in Parts :
    /\ asked[t][p] <= origin[p]
    /\ p \notin unread[t] => asked[t][p] <= held[t][p] /\ held[t][p] <= origin[p]
ReadsFirst ==
  \A t \in Threads : unread[t] # {} => left[t] = Work /\ sending[t] = {}
OneRequest == \A t \in Threads : \A w, v \in sending[t] : w = v
BothMarked ==
  \A t, u \in Threads : InBody(t) /\ InBody(u) /\ t # u => t \in overlapping
HoldsNewer ==
  \A t \in Threads \ overlapping : InBody(t) =>
    \A r \in Replicas, p \in Parts \ unread[t] : replica[r][p] <= held[t][p]
DoneWith ==
  \A t \in Threads \ overlapping : InBody(t) /\ unread[t] = {} =>
    \A r \in Replicas, p \in Parts :
      <<r, p>> \notin left[t] \cup sending[t] \cup missed[t]
        => replica[r][p] = held[t][p]
SysInv ==
  /\ NeverAhead /\ HeldIsOld /\ ReadsFirst /\ OneRequest /\ BothMarked
  /\ HoldsNewer /\ DoneWith

LEMMA SysInvInit == SysInit => SysInv
  BY DEF SysInit, SysInv, NeverAhead, HeldIsOld, ReadsFirst, OneRequest, BothMarked,
     HoldsNewer, DoneWith, NoVersion, InBody, Init

\* Steps by which no goroutine enters its body and nothing else changes.
LEMMA SysInvOutside ==
  ASSUME SysInv, UNCHANGED <<peers, locals>>,
         \A t \in Threads : InBody(t)' => InBody(t)
  PROVE  SysInv'
  BY DEF SysInv, NeverAhead, HeldIsOld, ReadsFirst, OneRequest, BothMarked,
     HoldsNewer, DoneWith, peers, locals, progress

\* A goroutine forgets its sync.
LEMMA SysInvForget ==
  ASSUME SysTypeOK, SysInv, NEW t \in Threads, NEW to, to # "body",
         Goto(t, "body", to), UNCHANGED peers, Forget(t)
  PROVE  SysInv'
<1> USE DEF SysInv, Forget, ForgetWork, peers
<1>1. /\ ~InBody(t)'
      /\ \A u \in Threads \ {t} : InBody(u)' <=> InBody(u)
      BY DEF InBody, Goto, SysTypeOK, TypeOK
<1>2. NeverAhead'
      BY DEF NeverAhead
<1>3. HeldIsOld'
      BY DEF HeldIsOld, NoVersion, SysTypeOK, Versions
<1>4. ReadsFirst' /\ OneRequest'
      BY DEF ReadsFirst, OneRequest, SysTypeOK
<1>5. BothMarked'
      BY <1>1 DEF BothMarked
<1>6. HoldsNewer'
      BY <1>1 DEF HoldsNewer, SysTypeOK
<1>7. DoneWith'
  <2>1. \A u \in Threads \ {t} :
          /\ unread'[u] = unread[u] /\ held'[u] = held[u] /\ left'[u] = left[u]
          /\ sending'[u] = sending[u] /\ missed'[u] = missed[u]
          /\ u \notin overlapping' => u \notin overlapping
        BY DEF SysTypeOK
  <2> QED
      BY <1>1, <2>1 DEF DoneWith
<1> QED
    BY <1>2, <1>3, <1>4, <1>5, <1>6, <1>7

\* The process goes down.
LEMMA SysInvDown ==
  ASSUME SysTypeOK, SysInv, GoDown, Down
  PROVE  SysInv'
<1> USE DEF SysInv, Down, peers
<1>1. \A t \in Threads : ~InBody(t)'
      BY DEF GoDown, InBody
<1>2. NeverAhead'
      BY DEF NeverAhead
<1>3. HeldIsOld'
      BY DEF HeldIsOld, NoVersion, SysTypeOK, Versions
<1>4. ReadsFirst' /\ OneRequest'
      BY DEF ReadsFirst, OneRequest
<1>5. BothMarked' /\ HoldsNewer' /\ DoneWith'
      BY <1>1 DEF BothMarked, HoldsNewer, DoneWith
<1> QED
    BY <1>2, <1>3, <1>4, <1>5

\* A sync begins.
LEMMA SysInvStart ==
  ASSUME SysTypeOK, SysInv, NEW t \in Threads, StartBody(t)
  PROVE  SysInv'
<1> USE DEF SysInv, StartBody, peers, progress
<1>1. /\ ~InBody(t) /\ InBody(t)'
      /\ \A u \in Threads \ {t} : InBody(u)' <=> InBody(u)
      BY DEF InBody, Set, Goto, SysTypeOK, TypeOK
<1>2. AtRest(t)
      BY <1>1 DEF SysTypeOK
<1>3. overlapping \subseteq overlapping'
      OBVIOUS
<1>4. NeverAhead'
      BY DEF NeverAhead
<1>5. HeldIsOld'
      BY <1>2 DEF HeldIsOld, AtRest, SysTypeOK, Versions
<1>6. ReadsFirst' /\ OneRequest'
      BY DEF ReadsFirst, OneRequest
<1>7. BothMarked'
      BY <1>1 DEF BothMarked
<1>8. HoldsNewer'
      BY <1>1, <1>2, <1>3 DEF HoldsNewer, AtRest
<1>9. DoneWith'
  <2>1. SUFFICES ASSUME NEW u \in Threads, u \notin overlapping',
                        InBody(u)', unread[u]' = {},
                        NEW r \in Replicas, NEW p \in Parts,
                        <<r, p>> \notin left'[u] \cup sending'[u] \cup missed'[u]
                 PROVE  replica'[r][p] = held'[u][p]
        BY DEF DoneWith
  <2>2. CASE u = t
        BY <2>1, <2>2, <1>2 DEF AtRest, Work
  <2>3. CASE u # t
        BY <2>1, <2>3, <1>1, <1>3 DEF DoneWith
  <2> QED
      BY <2>2, <2>3
<1> QED
    BY <1>4, <1>5, <1>6, <1>7, <1>8, <1>9

\* The origin is edited.
LEMMA SysInvEdit ==
  ASSUME SysTypeOK, SysInv, NEW p \in Parts, EditOrigin(p)
  PROVE  SysInv'
<1> USE DEF SysInv, EditOrigin, locals, progress, vars
<1>1. \A q \in Parts : origin[q] \in Nat /\ origin'[q] \in Nat
                         /\ origin[q] <= origin'[q]
      BY DEF SysTypeOK, Versions
<1>2. NeverAhead'
      BY <1>1, SystemAssumption DEF NeverAhead, SysTypeOK, Versions
<1>3. HeldIsOld'
      BY <1>1, SystemAssumption DEF HeldIsOld, SysTypeOK, Versions
<1>4. ReadsFirst' /\ OneRequest' /\ BothMarked' /\ HoldsNewer' /\ DoneWith'
      BY DEF ReadsFirst, OneRequest, BothMarked, HoldsNewer, DoneWith, InBody
<1> QED
    BY <1>2, <1>3, <1>4

\* A part is read from the origin.
LEMMA SysInvRead ==
  ASSUME SysTypeOK, SysInv, NEW t \in Threads, NEW p \in Parts, ReadOrigin(t, p)
  PROVE  SysInv'
<1> USE DEF SysInv, ReadOrigin, vars, peers, progress
<1>1. \A u \in Threads : InBody(u)' <=> InBody(u)
      BY DEF InBody
<1>2. /\ left[t] = Work /\ sending[t] = {}
      BY DEF ReadsFirst
<1>3. /\ held'[t][p] = origin[p]
      /\ \A q \in Parts \ {p} : held'[t][q] = held[t][q]
      /\ \A u \in Threads \ {t} : held'[u] = held[u] /\ unread'[u] = unread[u]
      /\ unread'[t] = unread[t] \ {p}
      BY DEF SysTypeOK
<1>4. NeverAhead' /\ BothMarked'
      BY <1>1 DEF NeverAhead, BothMarked
<1>5. HeldIsOld'
      BY <1>3 DEF HeldIsOld, SysTypeOK, Versions
<1>6. ReadsFirst' /\ OneRequest'
      BY <1>2, <1>3 DEF ReadsFirst, OneRequest
<1>7. HoldsNewer'
      BY <1>1, <1>3 DEF HoldsNewer, NeverAhead
<1>8. DoneWith'
      BY <1>1, <1>2, <1>3 DEF DoneWith, Work
<1> QED
    BY <1>4, <1>5, <1>6, <1>7, <1>8

\* An action compares a part.
LEMMA SysInvCompare ==
  ASSUME SysTypeOK, SysInv, NEW t \in Threads, NEW r \in Replicas,
         NEW p \in Parts, Compare(t, r, p)
  PROVE  SysInv'
<1> USE DEF SysInv, Compare, AtWork, vars, peers
<1>1. \A u \in Threads : InBody(u)' <=> InBody(u)
      BY DEF InBody
<1>2. /\ left'[t] = left[t] \ {<<r, p>>}
      /\ \/ sending'[t] = {<<r, p>>}
         \/ sending'[t] = {} /\ replica[r][p] = held[t][p]
      /\ unread[t] = {}
      /\ \A u \in Threads \ {t} : left'[u] = left[u] /\ sending'[u] = sending[u]
      BY DEF SysTypeOK
<1>3. NeverAhead' /\ HeldIsOld' /\ BothMarked' /\ HoldsNewer'
      BY <1>1 DEF NeverAhead, HeldIsOld, BothMarked, HoldsNewer
<1>4. ReadsFirst' /\ OneRequest'
      BY <1>2 DEF ReadsFirst, OneRequest
<1>5. DoneWith'
  <2>1. SUFFICES ASSUME NEW u \in Threads, u \notin overlapping,
                        InBody(u), unread[u] = {},
                        NEW s \in Replicas, NEW q \in Parts,
                        <<s, q>> \notin left'[u] \cup sending'[u] \cup missed[u]
                 PROVE  replica[s][q] = held[u][q]
        BY <1>1 DEF DoneWith
  <2>2. CASE u = t
        BY <2>1, <2>2, <1>2 DEF DoneWith
  <2>3. CASE u # t
        BY <2>1, <2>3, <1>2 DEF DoneWith
  <2> QED
      BY <2>2, <2>3
<1> QED
    BY <1>3, <1>4, <1>5

\* A request ends: applied or not, with an error or without.
LEMMA SysInvSend ==
  ASSUME SysTypeOK, SysInv, NEW t \in Threads, NEW r \in Replicas,
         NEW p \in Parts, InBody(t), unread[t] = {},
         replica' = replica \/ Apply(t, r, p),
         UNCHANGED <<vars, origin, unread, held, overlapping, asked>>,
         sending' = [sending EXCEPT ![t] = {}],
         sending[t] \subseteq {<<r, p>>},
         NEW dropped, left' = [left EXCEPT ![t] = left[t] \ dropped],
         missed' = [missed EXCEPT ![t] = missed[t] \cup dropped],
         <<r, p>> \in dropped \/ Apply(t, r, p)
  PROVE  SysInv'
<1> USE DEF SysInv, vars
<1>1. \A u \in Threads : InBody(u)' <=> InBody(u)
      BY DEF InBody
<1>2. held[t][p] <= origin[p]
      BY DEF HeldIsOld
<1>3. \A s \in Replicas, q \in Parts :
        replica'[s][q] = replica[s][q] \/ (q = p /\ replica'[s][q] = held[t][p])
  <2>1. ASSUME Apply(t, r, p), NEW s \in Replicas, NEW q \in Parts
        PROVE  replica'[s][q] = IF s = r /\ q = p THEN held[t][p] ELSE replica[s][q]
        BY <2>1 DEF Apply, SysTypeOK
  <2> QED
      BY <2>1
<1>4. NeverAhead'
      BY <1>2, <1>3 DEF NeverAhead
<1>5. HeldIsOld' /\ BothMarked'
      BY <1>1 DEF HeldIsOld, BothMarked
<1>6. ReadsFirst' /\ OneRequest'
  <2>1. \A u \in Threads \ {t} : left'[u] = left[u] /\ sending'[u] = sending[u]
        BY DEF SysTypeOK
  <2> QED
      BY <2>1 DEF ReadsFirst, OneRequest
\* Another sync without a mark is not in its body.
<1>7. \A u \in Threads \ overlapping : InBody(u) => u = t
      BY DEF BothMarked
<1>8. HoldsNewer'
      BY <1>1, <1>3, <1>7 DEF HoldsNewer, SysTypeOK, Versions
<1>9. DoneWith'
  <2>1. SUFFICES ASSUME t \notin overlapping,
                        NEW s \in Replicas, NEW q \in Parts,
                        <<s, q>> \notin left'[t] \cup sending'[t] \cup missed'[t]
                 PROVE  replica'[s][q] = held[t][q]
        BY <1>1, <1>7 DEF DoneWith, SysTypeOK
  <2>2. <<s, q>> \notin left[t] \cup missed[t] \cup dropped
        BY <2>1 DEF SysTypeOK
  <2>3. CASE s = r /\ q = p
        BY <2>2, <2>3 DEF Apply, SysTypeOK
  <2>4. CASE ~(s = r /\ q = p)
    <3>1. <<s, q>> \notin sending[t]
          BY <2>4
    <3>2. replica[s][q] = held[t][q]
          BY <2>1, <2>2, <3>1 DEF DoneWith
    <3> QED
        BY <2>4, <3>2 DEF Apply, SysTypeOK
  <2> QED
      BY <2>3, <2>4
<1> QED
    BY <1>4, <1>5, <1>6, <1>8, <1>9

\* Every step preserves the invariant.
LEMMA SysInvStep ==
  SysTypeOK /\ DownIsQuiet /\ SysInv /\ [SysNext]_sysVars => SysInv'
<1> SUFFICES ASSUME SysTypeOK, DownIsQuiet, SysInv, [SysNext]_sysVars
             PROVE  SysInv'
    OBVIOUS
<1>p. pc \in [Threads -> Steps]
      BY DEF SysTypeOK, TypeOK
<1>1. CASE Trigger
  <2>1. ASSUME Boot
        PROVE  \A t \in Threads : InBody(t)' => InBody(t)
        BY <2>1, <1>p DEF Boot, RunOnStart, InBody
  <2>2. ASSUME CronRun \/ Elapse
        PROVE  \A t \in Threads : InBody(t)' => InBody(t)
        BY <2>2 DEF CronRun, Elapse, InBody
  <2>3. ASSUME NEW u \in Threads, Begin(u)
        PROVE  \A t \in Threads : InBody(t)' => InBody(t)
        BY <2>3, <1>p DEF Begin, InBody
  <2>4. \A t \in Threads : InBody(t)' => InBody(t)
        BY <1>1, <2>1, <2>2, <2>3 DEF Trigger, CronFire, HandleSync, Threads
  <2> QED
      BY <1>1, <2>4, SysInvOutside DEF Trigger
<1>2. CASE Stop
  <2>1. CASE Kill /\ Down
        BY <2>1, SysInvDown DEF Kill
  <2>2. CASE Signal /\ UNCHANGED <<peers, locals>>
    <3>1. \A t \in Threads : InBody(t)' => InBody(t)
          BY <2>2 DEF Signal, InBody
    <3> QED
        BY <2>2, <3>1 DEF SysInv, NeverAhead, HeldIsOld, ReadsFirst,
           OneRequest, BothMarked, HoldsNewer, DoneWith, peers, locals, progress
  <2> QED
      BY <1>2, <2>1, <2>2 DEF Stop
<1>3. CASE ShutdownEnds
      BY <1>3, SysInvDown DEF ShutdownEnds, ShutdownDone, ShutdownTimeout
<1>4. ASSUME NEW p \in Parts, EditOrigin(p)
      PROVE  SysInv'
      BY <1>4, SysInvEdit
<1>5. ASSUME NEW t \in Threads, SysOwn(t)
      PROVE  SysInv'
  <2>1. CASE Outside(t)
    <3>1. \A u \in Threads : InBody(u)' => InBody(u)
          BY <2>1, <1>p DEF Outside, Check, Clear, ReadNow, StoreLast,
             ReadEntry, StoreNext, LeaveWithoutCron, Leave, Goto, InBody
    <3> QED
        BY <2>1, <3>1, SysInvOutside DEF Outside
  <2>2. CASE StartBody(t)
        BY <2>2, SysInvStart
  <2>3. CASE ProcessEnds(t)
        BY <2>3, SysInvDown DEF ProcessEnds, EndProcess
  <2> QED
      BY <1>5, <2>1, <2>2, <2>3 DEF SysOwn
<1>6. ASSUME NEW t \in Threads, Body(t)
      PROVE  SysInv'
  <2>1. CASE ReadOriginFails(t) \/ EndBody(t) \/ PanicInBody(t)
        BY <2>1, SysInvForget DEF ReadOriginFails, EndBody, PanicInBody,
           Return, Panic
  <2>2. ASSUME NEW p \in Parts, ReadOrigin(t, p)
        PROVE  SysInv'
        BY <2>2, SysInvRead
  <2>3. ASSUME NEW r \in Replicas, NEW p \in Parts, Compare(t, r, p)
        PROVE  SysInv'
        BY <2>3, SysInvCompare
  <2>4. ASSUME NEW r \in Replicas, NEW p \in Parts, Send(t, r, p)
        PROVE  SysInv'
    <3>1. unread[t] = {} /\ sending[t] \subseteq {<<r, p>>}
          BY <2>4 DEF Send, SysInv, ReadsFirst, OneRequest
    <3>2. /\ left' = [left EXCEPT ![t] = left[t] \ {}]
          /\ missed' = [missed EXCEPT ![t] = missed[t] \cup {}]
          BY <2>4 DEF Send, SysTypeOK
    <3> QED
        BY <2>4, <3>1, <3>2, SysInvSend DEF Send
  <2>5. ASSUME NEW r \in Replicas, NEW p \in Parts,
               LeaveOut(t, r, p) \/ CompareFails(t, r, p) \/ SendFails(t, r, p)
        PROVE  SysInv'
    <3>1. PICK dropped \in SUBSET Work : GiveUp(t, dropped) /\ <<r, p>> \in dropped
          BY <2>5, GivenUp
    <3>2. InBody(t) /\ (replica' = replica \/ Apply(t, r, p))
          BY <2>5, GivenUp
    <3>3. sending[t] \subseteq {<<r, p>>}
          BY <2>5 DEF LeaveOut, CompareFails, SendFails, AtWork, SysInv, OneRequest
    <3>4. unread[t] = {}
          BY <2>5 DEF LeaveOut, CompareFails, SendFails, AtWork, SysInv, ReadsFirst
    <3> QED
        BY <3>1, <3>2, <3>3, <3>4, SysInvSend DEF GiveUp
  <2> QED
      BY <1>6, <2>1, <2>2, <2>3, <2>4, <2>5 DEF Body
<1>7. CASE UNCHANGED sysVars
  <2>1. \A t \in Threads : InBody(t)' => InBody(t)
        BY <1>7 DEF sysVars, vars, InBody
  <2> QED
      BY <1>7, <2>1, SysInvOutside DEF sysVars
<1> QED
    BY <1>1, <1>2, <1>3, <1>4, <1>5, <1>6, <1>7 DEF SysNext

\* The invariant of the program at work.
LEMMA SysInvCorrect == SysSpec => [](SysTypeOK /\ DownIsQuiet /\ SysInv)
  BY SysInvInit, SysInvStep, SysTypeCorrect, SystemDownIsQuiet, PTL DEF SysSpec

-----------------------------------------------------------------------------
\* A step maps to a step of module Replication or to a stutter.
LEMMA PromiseStep ==
  SysTypeOK /\ SysInv /\ [SysNext]_sysVars => [Promise!Next]_Promise!vars
<1> SUFFICES ASSUME SysTypeOK, SysInv, [SysNext]_sysVars
             PROVE  [Promise!Next]_Promise!vars
    OBVIOUS
<1>1. ASSUME UNCHANGED peers
      PROVE  [Promise!Next]_Promise!vars
      BY <1>1 DEF peers, Overlap, Promise!Next, Promise!StartOrEnd
<1>2. ASSUME NEW p \in Parts, EditOrigin(p)
      PROVE  [Promise!Next]_Promise!vars
      BY <1>2 DEF EditOrigin, locals, Overlap, Promise!Next, Promise!Edit
<1>3. ASSUME NEW t \in Threads, NEW r \in Replicas, NEW p \in Parts,
             InBody(t), Apply(t, r, p), UNCHANGED <<origin, overlapping>>,
             unread[t] = {}
      PROVE  [Promise!Next]_Promise!vars
  <2> DEFINE v == held[t][p]
  <2>1. /\ v \in 0..origin[p]
        /\ replica[r][p] \in Nat
        BY <1>3 DEF SysTypeOK, Versions, SysInv, HeldIsOld
  <2>2. UNCHANGED Overlap
        BY <1>3 DEF Overlap
  <2>3. Promise!Write(r, p, v)
        BY <1>3, <2>2 DEF Apply, Promise!Write
  <2>4. CASE v > replica[r][p]
        BY <2>1, <2>3, <2>4 DEF Promise!Bring, Promise!Next
  <2>5. CASE v < replica[r][p]
    <3>1. Overlap
          BY <1>3, <2>1, <2>5 DEF SysInv, HoldsNewer, Overlap
    <3> QED
        BY <2>1, <2>3, <2>5, <3>1 DEF Promise!Revert, Promise!Next
  <2>6. CASE v = replica[r][p]
        BY <1>3, <2>2, <2>6 DEF Apply, SysTypeOK, Promise!vars
  <2>7. v \in Nat
        BY <2>1 DEF SysTypeOK, Versions
  <2> QED
      BY <2>1, <2>4, <2>5, <2>6, <2>7
<1>4. ASSUME NEW t \in Threads, Body(t)
      PROVE  [Promise!Next]_Promise!vars
  <2>1. CASE ReadOriginFails(t) \/ EndBody(t) \/ PanicInBody(t)
        BY <2>1, <1>1 DEF ReadOriginFails, EndBody, PanicInBody
  <2>2. ASSUME NEW p \in Parts, ReadOrigin(t, p)
        PROVE  UNCHANGED peers
        BY <2>2 DEF ReadOrigin
  <2>3. ASSUME NEW r \in Replicas, NEW p \in Parts,
               \/ Compare(t, r, p) \/ CompareFails(t, r, p) \/ LeaveOut(t, r, p)
               \/ Send(t, r, p) \/ SendFails(t, r, p)
        PROVE  [Promise!Next]_Promise!vars
    <3>1. CASE Compare(t, r, p)
          BY <3>1, <1>1 DEF Compare
    <3>2. CASE Send(t, r, p)
          BY <3>2, <1>3 DEF Send, SysInv, ReadsFirst
    <3>3. CASE LeaveOut(t, r, p) \/ CompareFails(t, r, p) \/ SendFails(t, r, p)
      <4>1. PICK dropped \in SUBSET Work : GiveUp(t, dropped)
            BY <3>3, GivenUp
      <4>2. unread[t] = {}
            BY <3>3 DEF LeaveOut, CompareFails, SendFails, AtWork, SysInv, ReadsFirst
      <4>3. InBody(t) /\ UNCHANGED <<origin, overlapping>>
            BY <3>3, <4>1, GivenUp DEF GiveUp
      <4>4. replica' = replica \/ Apply(t, r, p)
            BY <3>3, GivenUp
      <4> QED
          BY <4>2, <4>3, <4>4, <1>1, <1>3 DEF peers
    <3> QED
        BY <2>3, <3>1, <3>2, <3>3
  <2> QED
      BY <1>4, <1>1, <2>1, <2>2, <2>3 DEF Body
<1>5. CASE Trigger \/ Stop \/ ShutdownEnds
      BY <1>5, <1>1 DEF Trigger, Stop, ShutdownEnds, Down
<1>6. ASSUME NEW t \in Threads, SysOwn(t)
      PROVE  [Promise!Next]_Promise!vars
      BY <1>6, <1>1 DEF SysOwn, Outside, StartBody, ProcessEnds, Down
<1>7. CASE UNCHANGED sysVars
      BY <1>7, <1>1 DEF sysVars
<1> QED
    BY <1>2, <1>4, <1>5, <1>6, <1>7 DEF SysNext

(* The program at work keeps the promise of module Replication: a replica  *)
(* gets versions that the origin has had, and an older one than it has     *)
(* only while syncs overlap.                                               *)
THEOREM PromiseKept == SysSpec => KeepsPromise
<1>1. SysInit => Promise!Init
      BY DEF SysInit, Promise!Init, Overlap, NoVersion
<1> QED
    BY <1>1, PromiseStep, SysInvCorrect, PTL DEF SysSpec, KeepsPromise,
       Promise!Spec

(* A sync that overlapped with no other leaves every replica, but for the  *)
(* parts that it has failed to bring or left out, with what the origin had *)
(* when the sync began, or newer.                                          *)
THEOREM CleanSyncIsFresh == SysSpec => FreshWhenDone
<1>1. ASSUME SysTypeOK, SysInv, NEW t \in Threads \ overlapping, Completes(t),
             NEW r \in Replicas, NEW p \in Parts, <<r, p>> \notin missed[t]
      PROVE  replica[r][p] >= asked[t][p]
  <2>1. replica[r][p] = held[t][p]
        BY <1>1 DEF Completes, Finished, SysInv, DoneWith
  <2>2. asked[t][p] <= held[t][p]
        BY <1>1 DEF Completes, Finished, SysInv, HeldIsOld
  <2> QED
      BY <2>1, <2>2, <1>1 DEF SysTypeOK, Versions
<1>2. SysTypeOK /\ SysInv =>
        [\A t \in Threads \ overlapping : Completes(t) =>
           \A r \in Replicas, p \in Parts :
             <<r, p>> \notin missed[t] => replica[r][p] >= asked[t][p]]_sysVars
      BY <1>1
<1> QED
    BY <1>2, SysInvCorrect, PTL DEF SysSpec, FreshWhenDone
=============================================================================
