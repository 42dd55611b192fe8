----------------------------- MODULE ReplicaEnv -----------------------------
(***************************************************************************)
(* The replicas of the configuration, from the config file and from the    *)
(* numbered environment variables REPLICA1_URL, REPLICA1_USERNAME, ...     *)
(* (enrichReplicasFromEnv, internal/config/env.go).  One loop over the     *)
(* environment, which comes in any order, collects the replicas that have  *)
(* a URL variable; a second loop reads the other variables of each by the  *)
(* place it has got in the list.                                           *)
(*                                                                         *)
(* A value is the source it comes from: "file" or "env" and the number of  *)
(* the replica it was meant for; username stands for every option but the  *)
(* URL.                                                                    *)
(***************************************************************************)
EXTENDS Naturals, Sequences, FiniteSets, SequencesExt

CONSTANT MaxNumber   \* bound of the numbers, and of the replicas in the file

ASSUME ReplicaEnvAssumption == MaxNumber \in Nat

Numbers == 0..MaxNumber
Value == [source : {"file", "env"}, number : Numbers]
Unset == [source |-> "none", number |-> 0]
FromFile(n) == [source |-> "file", number |-> n]
FromEnv(n) == [source |-> "env", number |-> n]
Replica == [url : Value, username : Value \cup {Unset}]

VARIABLES
  file,       \* the number of replicas in the config file
  urls,       \* the URL variables, in the order of the environment
  usernames,  \* numbers that have a USERNAME variable
  malformed,  \* numbers with a variable that cannot be parsed
  pc,         \* collect, fill, done, failed
  at,         \* the loops' index
  replicas    \* the result

input == <<file, urls, usernames, malformed>>
vars == <<input, pc, at, replicas>>

InFile(n) == [url |-> FromFile(n), username |-> FromFile(n)]
Initial == [n \in 1..file |-> InFile(n)]

\* Mutant: the variables are numbered from 0.
PlaceFromZero(i) == i - 1

\* reID, the number whose variables a place of the list gets.
Place(i) == i

\* The types; a URL variable with number 0 and a malformed variable of a place
\* in the list refuse the configuration.
TypeOK ==
  /\ file \in 0..MaxNumber
  /\ urls \in Seq(Numbers)
  /\ usernames \in SUBSET Numbers /\ malformed \in SUBSET Numbers
  /\ pc \in {"collect", "fill", "done", "failed"}
  /\ at \in 1..MaxNumber + 2
  /\ replicas \in Seq(Replica)
  /\ Len(replicas) <= MaxNumber
  /\ pc = "failed" => 0 \in Range(urls) \/ Place(at) \in malformed
  /\ pc \in {"fill", "done"} => 0 \notin Range(urls)
  /\ pc = "done" => \A i \in 1..Len(replicas) : Place(i) \notin malformed

Init ==
  /\ file \in 0..MaxNumber
  /\ \E S \in SUBSET Numbers : urls \in SetToSeqs(S)
  /\ usernames \in SUBSET (Numbers \ {0})
  /\ malformed \in SUBSET (Numbers \ {0})
  /\ pc = "collect"
  /\ at = 1
  /\ replicas = <<>>

\* The replica of a URL variable: new, or the one of that number in the file.
Base(id) ==
  IF id > file THEN [url |-> FromEnv(id), username |-> Unset]
  ELSE [Initial[id] EXCEPT !.url = FromEnv(id)]

\* Mutant: a URL variable with number 0 is passed over.
CollectSkipsZero ==
  /\ pc = "collect" /\ at <= Len(urls)
  /\ replicas' = IF urls[at] = 0 THEN replicas ELSE Append(replicas, Base(urls[at]))
  /\ at' = at + 1
  /\ UNCHANGED <<input, pc>>

Collect ==
  /\ pc = "collect" /\ at <= Len(urls)
  /\ IF urls[at] = 0
     THEN pc' = "failed" /\ UNCHANGED <<at, replicas>>
     ELSE /\ replicas' = Append(replicas, Base(urls[at]))
          /\ at' = at + 1
          /\ UNCHANGED pc
  /\ UNCHANGED input

\* Without a URL variable the replicas of the file stay.
Collected ==
  /\ pc = "collect" /\ at > Len(urls)
  /\ replicas' = IF replicas = <<>> THEN Initial ELSE replicas
  /\ pc' = "fill"
  /\ at' = 1
  /\ UNCHANGED input

\* env.ParseWithOptions with the prefix of the place, when every variable can
\* be parsed: those that are set overwrite, the URL too.
Parsed(replica, id) ==
  [url |-> IF id \in Range(urls) THEN FromEnv(id) ELSE replica.url,
   username |-> IF id \in usernames THEN FromEnv(id) ELSE replica.username]

Fill ==
  /\ pc = "fill" /\ at <= Len(replicas)
  /\ Place(at) \notin malformed
  /\ replicas' = [replicas EXCEPT ![at] = Parsed(@, Place(at))]
  /\ at' = at + 1
  /\ UNCHANGED <<input, pc>>

FillFails ==
  /\ pc = "fill" /\ at <= Len(replicas)
  /\ Place(at) \in malformed
  /\ pc' = "failed"
  /\ UNCHANGED <<input, at, replicas>>

Filled ==
  /\ pc = "fill" /\ at > Len(replicas)
  /\ pc' = "done"
  /\ UNCHANGED <<input, at, replicas>>

Next == Collect \/ Collected \/ Fill \/ FillFails \/ Filled

Spec == Init /\ [][Next]_vars

-----------------------------------------------------------------------------
(* Properties                                                              *)

\* The URL variables are numbered from 1 without a gap.
NoGap == Range(urls) = 1..Len(urls)

\* What the variables and the file say of number n, the variables first.
Meant(n) ==
  [url |-> IF n \in Range(urls) THEN FromEnv(n) ELSE FromFile(n),
   username |-> IF n \in usernames THEN FromEnv(n)
                ELSE IF n <= file THEN FromFile(n) ELSE Unset]

\* REPLICA#_USERNAME belongs to REPLICA#_URL (README.md, "For Replicas replace
\* # with the index number for the replica"): when the URL variables are
\* numbered without a gap and come in the order of their numbers, or the file
\* has none of the replicas, every replica gets its own options.
OwnOptions ==
  (pc = "done" /\ NoGap /\ (file = 0 \/ urls = [i \in DOMAIN urls |-> i])) =>
    \A i \in DOMAIN replicas : replicas[i] = Meant(i)
=============================================================================
