--------------------------- MODULE StatusApiProofs ---------------------------
(***************************************************************************)
(* Proofs about module StatusApi, for any replicas, any number of requests *)
(* under way and any number of changes at the peers.                       *)
(***************************************************************************)
EXTENDS StatusApi, TLAPS

-----------------------------------------------------------------------------
(* The inductive invariant: every value in a status has a witness in the   *)
(* history of its request.                                                 *)

HistoryTypes ==
  /\ wasOk \in [Requests -> SUBSET Hosts]
  /\ wasBad \in [Requests -> SUBSET Hosts]
  /\ flags \in [Requests -> SUBSET BOOLEAN]

\* A code and a whole status are there when the request has ended, and only
\* then is there a code; between getStatus and the read of w.running a replica
\* is being asked.
Phase(d) ==
  /\ handler[d] = "ended" <=> code[d] # "none"
  /\ handler[d] = "ended" => \A h \in Hosts : status[d][h] # "none"
  /\ handler[d] = "asked" => asked[d] \in Replicas

\* What is so now, is part of the request.
Present(d) ==
  handler[d] # "idle" =>
    /\ running \in flags[d]
    /\ \A h \in Hosts : IF Ok(h) THEN h \in wasOk[d] ELSE h \in wasBad[d]

\* What the status says was so; the flag was read for every replica but the
\* one that is being asked.
Witness(d, h) ==
  /\ status[d][h] = "success" => h \in wasOk[d]
  /\ status[d][h] \in {"warning", "danger"} => h \in wasBad[d]
  /\ status[d][h] = "info" => TRUE \in flags[d]
  /\ /\ h \in Replicas
     /\ status[d][h] \notin {"none", "info"}
     /\ ~(handler[d] = "asked" /\ asked[d] = h)
     => FALSE \in flags[d]

Verdict(d) ==
  /\ code[d] = "200" => Healthy(d)
  /\ code[d] = "503" => ~Healthy(d)
  /\ handler[d] = "ended" => syncRunning[d] \in flags[d]

RequestInv(d) ==
  /\ Phase(d)
  /\ Present(d)
  /\ \A h \in Hosts : Witness(d, h)
  /\ Verdict(d)

Inv == TypeOK /\ HistoryTypes /\ \A d \in Requests : RequestInv(d)

\* The flag w.running has always a value.
LEMMA RunningType ==
  ASSUME TypeOK
  PROVE  running \in BOOLEAN
  BY DEF TypeOK

\* The initial states.
LEMMA InvInit == Init => Inv
<1> SUFFICES ASSUME Init PROVE Inv
    OBVIOUS
<1> USE DEF Init
<1>1. Origin \in Hosts
      BY DEF Hosts
<1>2. TypeOK
  <2>1. running \in BOOLEAN
        BY Zenon
  <2>2. syncRunning \in [Requests -> BOOLEAN]
        BY Zenon
  <2>3. asked \in [Requests -> Hosts] /\ changes \in 0..MaxChanges
        BY <1>1, StatusApiAssumption
  <2>4. health \in [Hosts -> {"ok", "setup", "down"}]
        OBVIOUS
  <2>5. status \in [Requests ->
                      [Hosts -> {"none", "success", "warning", "danger", "info"}]]
        OBVIOUS
  <2>6. /\ handler \in [Requests -> {"idle", "asking", "asked", "ended"}]
        /\ code \in [Requests -> {"none", "200", "503"}]
        OBVIOUS
  <2> QED
      BY <2>1, <2>2, <2>3, <2>4, <2>5, <2>6 DEF TypeOK
<1>3. HistoryTypes
      BY DEF HistoryTypes
<1>4. ASSUME NEW d \in Requests PROVE RequestInv(d)
      BY DEF RequestInv, Phase, Present, Witness, Verdict
<1> QED
    BY <1>2, <1>3, <1>4 DEF Inv

\* A change at a peer adds it to the history of every request.
LEMMA PeerChangesKeeps == Inv /\ PeerChanges => Inv'
<1> SUFFICES ASSUME Inv, PeerChanges PROVE Inv'
    OBVIOUS
<1> USE DEF PeerChanges, local
<1> PICK h0 \in Hosts, s0 \in {"ok", "setup", "down"} :
      /\ health' = [health EXCEPT ![h0] = s0]
      /\ wasOk' = [d \in Requests |->
                     IF s0 = "ok" THEN wasOk[d] \cup {h0} ELSE wasOk[d]]
      /\ wasBad' = [d \in Requests |->
                      IF s0 # "ok" THEN wasBad[d] \cup {h0} ELSE wasBad[d]]
    OBVIOUS
<1>1. TypeOK'
  <2>1. changes' \in 0..MaxChanges
        BY StatusApiAssumption DEF Inv, TypeOK
  <2>2. health' \in [Hosts -> {"ok", "setup", "down"}]
        BY DEF Inv, TypeOK
  <2> QED
      BY <2>1, <2>2 DEF Inv, TypeOK
<1>2. HistoryTypes'
      BY DEF Inv, HistoryTypes
<1>3. ASSUME NEW d \in Requests PROVE RequestInv(d)'
  <2>1. RequestInv(d)
        BY DEF Inv
  <2>2. Phase(d)'
        BY <2>1 DEF RequestInv, Phase
  <2>3. Present(d)'
        BY <2>1 DEF RequestInv, Present, Ok, Inv, TypeOK
  <2>4. ASSUME NEW h \in Hosts PROVE Witness(d, h)'
        BY <2>1 DEF RequestInv, Witness
  <2>5. Verdict(d)'
        BY <2>1 DEF RequestInv, Verdict, Healthy
  <2> QED
      BY <2>2, <2>3, <2>4, <2>5 DEF RequestInv
<1> QED
    BY <1>1, <1>2, <1>3 DEF Inv

\* The start and the end of a sync are in the history of every request.
LEMMA SetRunningKeeps ==
  ASSUME Inv, NEW value \in BOOLEAN, SetRunning(value), changes' \in 0..MaxChanges
  PROVE  Inv'
<1> USE DEF SetRunning, local
<1>1. TypeOK'
  <2>1. running' \in BOOLEAN
        BY Zenon
  <2> QED
      BY <2>1 DEF Inv, TypeOK
<1>2. HistoryTypes'
  <2>1. ASSUME NEW d \in Requests PROVE flags[d] \cup {value} \in SUBSET BOOLEAN
    <3>1. flags[d] \in SUBSET BOOLEAN
          BY DEF Inv, HistoryTypes
    <3> QED
        BY <3>1
  <2>2. flags' \in [Requests -> SUBSET BOOLEAN]
        BY <2>1
  <2> QED
      BY <2>2 DEF Inv, HistoryTypes
<1>3. ASSUME NEW d \in Requests PROVE RequestInv(d)'
  <2>1. RequestInv(d)
        BY DEF Inv
  <2>2. flags'[d] = flags[d] \cup {value} /\ running' = value
        OBVIOUS
  <2>3. Phase(d)'
        BY <2>1 DEF RequestInv, Phase
  <2>4. Present(d)'
    <3>1. value \in flags'[d]
          BY <2>2
    <3> QED
        BY <2>1, <2>2, <3>1 DEF RequestInv, Present, Ok
  <2>5. ASSUME NEW h \in Hosts PROVE Witness(d, h)'
    <3>1. \A v : v \in flags[d] => v \in flags'[d]
          BY <2>2
    <3>2. Witness(d, h)
          BY <2>1 DEF RequestInv
    <3> QED
        BY <3>1, <3>2 DEF Witness
  <2>6. Verdict(d)'
    <3>1. \A v : v \in flags[d] => v \in flags'[d]
          BY <2>2
    <3> QED
        BY <2>1, <3>1 DEF RequestInv, Verdict, Healthy
  <2> QED
      BY <2>3, <2>4, <2>5, <2>6 DEF RequestInv
<1> QED
    BY <1>1, <1>2, <1>3 DEF Inv

\* What another request does changes nothing for a request.
LEMMA OthersKeep ==
  ASSUME NEW d, RequestInv(d), UNCHANGED peers,
         handler'[d] = handler[d], asked'[d] = asked[d], status'[d] = status[d],
         syncRunning'[d] = syncRunning[d], code'[d] = code[d],
         wasOk'[d] = wasOk[d], wasBad'[d] = wasBad[d], flags'[d] = flags[d]
  PROVE  RequestInv(d)'
  BY DEF RequestInv, Phase, Present, Ok, Witness, Verdict, Healthy, peers

\* A request begins with what is so now.
LEMMA BeginKeeps == ASSUME NEW d \in Requests PROVE Inv /\ Begin(d) => Inv'
<1> SUFFICES ASSUME Inv, Begin(d) PROVE Inv'
    OBVIOUS
<1> USE DEF Begin, peers
<1>1. TypeOK'
      BY DEF Inv, TypeOK
<1>2. HistoryTypes'
  <2>1. {running} \in SUBSET BOOLEAN
        BY RunningType DEF Inv
  <2>2. flags' \in [Requests -> SUBSET BOOLEAN]
        BY <2>1 DEF Inv, HistoryTypes
  <2> QED
      BY <2>2 DEF Inv, HistoryTypes
<1>3. ASSUME NEW e \in Requests PROVE RequestInv(e)'
  <2>1. RequestInv(e)
        BY DEF Inv
  <2>2. CASE e # d
        BY <2>1, <2>2, OthersKeep DEF Inv, TypeOK, HistoryTypes
  <2>3. CASE e = d
    <3>1. /\ handler'[d] = "asking" /\ code'[d] = "none"
          /\ \A h \in Hosts : status'[d][h] = "none"
          BY DEF Inv, TypeOK
    <3>2. /\ wasOk'[d] = {h \in Hosts : Ok(h)}
          /\ wasBad'[d] = {h \in Hosts : ~Ok(h)}
          /\ flags'[d] = {running}
          BY DEF Inv, HistoryTypes
    <3>3. Present(d)'
          BY <3>2 DEF Present, Ok
    <3> QED
        BY <2>3, <3>1, <3>3 DEF RequestInv, Phase, Witness, Verdict
  <2> QED
      BY <2>2, <2>3
<1> QED
    BY <1>1, <1>2, <1>3 DEF Inv

\* getStatus tells what is so now.
LEMMA AskKeeps == ASSUME NEW d \in Requests PROVE Inv /\ Ask(d) => Inv'
<1> SUFFICES ASSUME Inv, Ask(d) PROVE Inv'
    OBVIOUS
<1> USE DEF Ask, peers, history
<1> PICK h0 \in Unasked(d) :
      /\ asked' = [asked EXCEPT ![d] = h0]
      /\ status' = [status EXCEPT ![d][h0] = getStatus(h0)]
      /\ handler' = [handler EXCEPT ![d] = IF h0 = Origin THEN "asking" ELSE "asked"]
    OBVIOUS
<1>1. h0 \in Hosts /\ (h0 # Origin => h0 \in Replicas)
      BY DEF Unasked, Hosts
<1>2. IF health[h0] = "ok" THEN getStatus(h0) = "success"
                            ELSE getStatus(h0) \in {"warning", "danger"}
      BY <1>1 DEF getStatus, Inv, TypeOK
<1>3. RequestInv(d)
      BY DEF Inv
<1>4. code[d] = "none"
      BY <1>3 DEF RequestInv, Phase, Inv, TypeOK
<1>5. TypeOK'
  <2>1. getStatus(h0) \in {"success", "warning", "danger"}
        BY <1>2
  <2>2. status' \in [Requests ->
                       [Hosts -> {"none", "success", "warning", "danger", "info"}]]
        BY <1>1, <2>1 DEF Inv, TypeOK
  <2>3. /\ handler' \in [Requests -> {"idle", "asking", "asked", "ended"}]
        /\ asked' \in [Requests -> Hosts]
        BY <1>1 DEF Inv, TypeOK
  <2>4. ASSUME NEW e \in Requests
        PROVE  (handler'[e] = "ended") <=> (\A h \in Hosts : status'[e][h] # "none")
                                           /\ code[e] # "none"
    <3>1. CASE e # d
          BY <3>1 DEF Inv, TypeOK
    <3>2. CASE e = d
          BY <1>4, <3>2 DEF Inv, TypeOK
    <3> QED
        BY <3>1, <3>2
  <2> QED
      BY <2>2, <2>3, <2>4 DEF Inv, TypeOK
<1>6. HistoryTypes'
      BY DEF Inv, HistoryTypes
<1>7. ASSUME NEW e \in Requests PROVE RequestInv(e)'
  <2>1. CASE e # d
        BY <2>1, OthersKeep DEF Inv, TypeOK
  <2>2. CASE e = d
    <3>1. /\ status'[d][h0] = getStatus(h0) /\ asked'[d] = h0
          /\ handler'[d] = IF h0 = Origin THEN "asking" ELSE "asked"
          /\ \A h \in Hosts : h # h0 => status'[d][h] = status[d][h]
          BY <1>1 DEF Inv, TypeOK
    <3>2. Phase(d)'
          BY <1>1, <1>4, <3>1 DEF Phase
    <3>3. Present(d)'
          BY <1>3, <3>1 DEF RequestInv, Present, Ok
    <3>4. ASSUME NEW h \in Hosts PROVE Witness(d, h)'
      <4>1. CASE h # h0
            BY <1>3, <3>1, <4>1 DEF RequestInv, Witness
      <4>2. CASE h = h0
        <5>1. IF health[h0] = "ok" THEN h0 \in wasOk[d] ELSE h0 \in wasBad[d]
              BY <1>1, <1>3 DEF RequestInv, Present, Ok
        <5>2. h0 \in Replicas => handler'[d] = "asked"
              BY <3>1, StatusApiAssumption
        <5> QED
            BY <1>2, <3>1, <4>2, <5>1, <5>2 DEF Witness
      <4> QED
          BY <4>1, <4>2
    <3>5. Verdict(d)'
          BY <1>4, <3>1 DEF Verdict
    <3> QED
        BY <2>2, <3>2, <3>3, <3>4, <3>5 DEF RequestInv
  <2> QED
      BY <2>1, <2>2
<1> QED
    BY <1>5, <1>6, <1>7 DEF Inv

\* The flag is read for the replica that is being asked.
LEMMA ReadRunningKeeps ==
  ASSUME NEW d \in Requests PROVE Inv /\ ReadRunning(d) => Inv'
<1> SUFFICES ASSUME Inv, ReadRunning(d) PROVE Inv'
    OBVIOUS
<1> USE DEF ReadRunning, peers, history
<1> DEFINE r == asked[d]
<1>1. RequestInv(d)
      BY DEF Inv
<1>2. r \in Hosts /\ code[d] = "none"
      BY <1>1 DEF RequestInv, Phase, Inv, TypeOK
<1>3. Overwritten(d, r) = IF running THEN "info" ELSE status[d][r]
      BY DEF Overwritten
<1>4. TypeOK'
  <2>1. Overwritten(d, r) \in {"none", "success", "warning", "danger", "info"}
        BY <1>2, <1>3 DEF Inv, TypeOK
  <2>2. status' \in [Requests ->
                       [Hosts -> {"none", "success", "warning", "danger", "info"}]]
        BY <1>2, <2>1 DEF Inv, TypeOK
  <2> QED
      BY <1>2, <2>2 DEF Inv, TypeOK
<1>5. HistoryTypes'
      BY DEF Inv, HistoryTypes
<1>6. ASSUME NEW e \in Requests PROVE RequestInv(e)'
  <2>1. CASE e # d
        BY <2>1, OthersKeep DEF Inv, TypeOK
  <2>2. CASE e = d
    <3>1. /\ status'[d][r] = Overwritten(d, r) /\ handler'[d] = "asking"
          /\ \A h \in Hosts : h # r => status'[d][h] = status[d][h]
          BY <1>2 DEF Inv, TypeOK
    <3>2. Phase(d)'
          BY <1>2, <3>1 DEF Phase
    <3>3. Present(d)'
          BY <1>1 DEF RequestInv, Present, Ok
    <3>4. running \in BOOLEAN /\ running \in flags[d]
          BY <1>1 DEF RequestInv, Present, Inv, TypeOK
    <3>5. CASE running
      <4>1. TRUE \in flags[d]
            BY <3>4, <3>5
      <4> QED
          BY <1>1, <1>2, <1>3, <2>2, <3>1, <3>2, <3>3, <3>5, <4>1
             DEF RequestInv, Witness, Verdict
    <3>6. CASE ~running
      <4>1. FALSE \in flags[d]
            BY <3>4, <3>6
      <4> QED
          BY <1>1, <1>2, <1>3, <2>2, <3>1, <3>2, <3>3, <3>6, <4>1
             DEF RequestInv, Witness, Verdict
    <3> QED
        BY <3>5, <3>6
  <2> QED
      BY <2>1, <2>2
<1> QED
    BY <1>4, <1>5, <1>6 DEF Inv

\* A request ends with a whole status.
LEMMA EndKeeps == ASSUME NEW d \in Requests PROVE Inv /\ End(d) => Inv'
<1> SUFFICES ASSUME Inv, End(d) PROVE Inv'
    OBVIOUS
<1> USE DEF End, peers, history
<1>1. RequestInv(d)
      BY DEF Inv
<1>2. \A h \in Hosts : status[d][h] # "none"
      BY DEF Unasked, Hosts
<1>3. running \in BOOLEAN
      BY RunningType DEF Inv
<1>4. TypeOK'
  <2>1. syncRunning' \in [Requests -> BOOLEAN]
        BY <1>3 DEF Inv, TypeOK
  <2>2. handler' \in [Requests -> {"idle", "asking", "asked", "ended"}]
        BY DEF Inv, TypeOK
  <2>3. code' \in [Requests -> {"none", "200", "503"}]
        BY DEF Inv, TypeOK
  <2> QED
      BY <2>1, <2>2, <2>3, <1>2 DEF Inv, TypeOK
<1>5. HistoryTypes'
      BY DEF Inv, HistoryTypes
<1>6. ASSUME NEW e \in Requests PROVE RequestInv(e)'
  <2>1. CASE e # d
        BY <2>1, OthersKeep DEF Inv, TypeOK
  <2>2. CASE e = d
    <3>1. /\ handler'[d] = "ended" /\ syncRunning'[d] = running
          /\ code'[d] = IF Healthy(d) THEN "200" ELSE "503"
          BY DEF Inv, TypeOK
    <3>2. running \in flags[d]
          BY <1>1 DEF RequestInv, Present
    <3>3. Verdict(d)'
          BY <3>1, <3>2 DEF Verdict, Healthy
    <3>4. Phase(d)' /\ Present(d)'
          BY <1>1, <1>2, <3>1 DEF RequestInv, Phase, Present, Ok
    <3>5. ASSUME NEW h \in Hosts PROVE Witness(d, h)'
      <4>1. handler[d] = "asking" /\ Witness(d, h)
            BY <1>1 DEF RequestInv
      <4> QED
          BY <4>1 DEF Witness
    <3> QED
        BY <2>2, <3>3, <3>4, <3>5 DEF RequestInv
  <2> QED
      BY <2>1, <2>2
<1> QED
    BY <1>4, <1>5, <1>6 DEF Inv

\* The invariant is inductive.
LEMMA InvStep == Inv /\ [Next]_vars => Inv'
<1> SUFFICES ASSUME Inv, [Next]_vars PROVE Inv'
    OBVIOUS
<1>1. CASE PeerChanges
      BY <1>1, PeerChangesKeeps
<1>2. CASE SyncBegins
  <2>1. changes' \in 0..MaxChanges
        BY <1>2, StatusApiAssumption DEF SyncBegins, Inv, TypeOK
  <2> QED
      BY <1>2, <2>1, SetRunningKeeps DEF SyncBegins
<1>3. CASE SyncEnds
  <2>1. changes' \in 0..MaxChanges
        BY <1>3 DEF SyncEnds, Inv, TypeOK
  <2> QED
      BY <1>3, <2>1, SetRunningKeeps DEF SyncEnds
<1>4. CASE \E d \in Requests : Begin(d) \/ Handle(d)
      BY <1>4, BeginKeeps, AskKeeps, ReadRunningKeeps, EndKeeps DEF Handle
<1>5. CASE UNCHANGED vars
  <2> USE <1>5 DEF vars, peers, local, history
  <2>1. TypeOK' /\ HistoryTypes'
        BY DEF Inv, TypeOK, HistoryTypes
  <2>2. ASSUME NEW d \in Requests PROVE RequestInv(d)'
        BY OthersKeep DEF Inv
  <2> QED
      BY <2>1, <2>2 DEF Inv
<1> QED
    BY <1>1, <1>2, <1>3, <1>4, <1>5 DEF Next

\* The evidence makes the code true of some time of the request.
LEMMA InvJustifies == Inv => CodeIsJustified
<1> SUFFICES ASSUME Inv, NEW d \in Requests
             PROVE  /\ code[d] = "200" => /\ wasOk[d] = Hosts
                                          /\ Replicas = {} \/ FALSE \in flags[d]
                    /\ code[d] = "503" => wasBad[d] # {} \/ TRUE \in flags[d]
    BY DEF CodeIsJustified
<1>1. RequestInv(d)
      BY DEF Inv
<1>2. \A r \in Replicas : r \in Hosts
      BY DEF Hosts
<1>3. ASSUME code[d] = "200"
      PROVE  wasOk[d] = Hosts /\ (Replicas = {} \/ FALSE \in flags[d])
  <2>1. \A h \in Hosts : status[d][h] = "success"
        BY <1>1, <1>3 DEF RequestInv, Verdict, Healthy
  <2>2. handler[d] = "ended"
        BY <1>1, <1>3 DEF RequestInv, Phase
  <2>3. \A h \in Hosts : h \in wasOk[d]
        BY <1>1, <2>1 DEF RequestInv, Witness
  <2>4. \A r \in Replicas : FALSE \in flags[d]
        BY <1>1, <1>2, <2>1, <2>2 DEF RequestInv, Witness
  <2> QED
      BY <2>3, <2>4 DEF Inv, HistoryTypes
<1>4. ASSUME code[d] = "503"
      PROVE  wasBad[d] # {} \/ TRUE \in flags[d]
  <2>1. PICK h \in Hosts : status[d][h] # "success"
        BY <1>1, <1>4 DEF RequestInv, Verdict, Healthy
  <2>2. status[d][h] # "none"
        BY <1>1, <1>4 DEF RequestInv, Phase
  <2>3. status[d][h] \in {"warning", "danger", "info"}
        BY <2>1, <2>2 DEF Inv, TypeOK
  <2> QED
      BY <1>1, <2>3 DEF RequestInv, Witness
<1> QED
    BY <1>3, <1>4

\* With one value of the flag all the readings agree.
LEMMA InvAgrees == Inv => StatusAgrees
<1> SUFFICES ASSUME Inv, NEW d \in Requests, NEW r \in Replicas,
                    handler[d] = "ended", flags[d] # BOOLEAN
             PROVE  (status[d][r] = "info") <=> syncRunning[d]
    BY DEF StatusAgrees
<1>1. RequestInv(d) /\ r \in Hosts
      BY DEF Inv, Hosts
<1>2. ~(TRUE \in flags[d] /\ FALSE \in flags[d])
      BY DEF Inv, HistoryTypes
<1>3. syncRunning[d] \in BOOLEAN /\ syncRunning[d] \in flags[d]
      BY <1>1 DEF RequestInv, Verdict, Inv, TypeOK
<1>4. syncRunning[d] = TRUE \/ syncRunning[d] = FALSE
      BY <1>3
<1>5. IF status[d][r] = "info" THEN TRUE \in flags[d] ELSE FALSE \in flags[d]
      BY <1>1 DEF RequestInv, Phase, Witness
<1> QED
    BY <1>2, <1>3, <1>4, <1>5

-----------------------------------------------------------------------------
(* What holds of every behaviour                                           *)

\* The invariant holds always.
THEOREM InvHolds == Spec => []Inv
<1>1. Init => Inv
      BY InvInit
<1>2. Inv /\ [Next]_vars => Inv'
      BY InvStep
<1> QED
    BY <1>1, <1>2, PTL DEF Spec

\* The state keeps its type, and only a request that has ended has a code
\* and a whole status.
THEOREM TypeCorrect == Spec => []TypeOK
<1>1. Inv => TypeOK
      BY DEF Inv
<1> QED
    BY <1>1, InvHolds, PTL

\* The code of /healthz is true of some time of its request.
THEOREM CodeJustified == Spec => []CodeIsJustified
BY InvJustifies, InvHolds, PTL

\* The parts of a status agree on whether a sync runs, unless one began or
\* ended during the request.
THEOREM StatusInAgreement == Spec => []StatusAgrees
BY InvAgrees, InvHolds, PTL
=============================================================================
