----------------------------- MODULE Replication -----------------------------
(***************************************************************************)
(* What syncing promises, without saying how it is done: the origin's      *)
(* settings are edited, and each part of a replica's settings is brought   *)
(* to a version the origin has had, one part at a time.  A part goes back  *)
(* to an older version only while two syncs overlap.                       *)
(*                                                                         *)
(* A version counts the edits of a part.  Version 0 at a replica stands    *)
(* for whatever it has before the first sync.                              *)
(***************************************************************************)
EXTENDS Naturals

CONSTANTS Replicas, Parts

VARIABLES
  origin,     \* the version of each part at the origin
  replica,    \* the version of each part at each replica
  overlap     \* two syncs write at the same time

vars == <<origin, replica, overlap>>

Init ==
  /\ origin = [p \in Parts |-> 0]
  /\ replica = [r \in Replicas |-> [p \in Parts |-> 0]]
  /\ overlap = FALSE

Edit(p) ==
  /\ origin' = [origin EXCEPT ![p] = origin[p] + 1]
  /\ UNCHANGED <<replica, overlap>>

\* Any version that the origin has or has had.
Write(r, p, v) ==
  /\ replica' = [replica EXCEPT ![r][p] = v]
  /\ UNCHANGED <<origin, overlap>>

Bring(r, p) == \E v \in 0..origin[p] : v > replica[r][p] /\ Write(r, p, v)

Revert(r, p) ==
  /\ overlap
  /\ \E v \in 0..origin[p] : v < replica[r][p] /\ Write(r, p, v)

StartOrEnd ==
  /\ overlap' \in BOOLEAN
  /\ UNCHANGED <<origin, replica>>

Next ==
  \/ \E p \in Parts : Edit(p)
  \/ \E r \in Replicas, p \in Parts : Bring(r, p) \/ Revert(r, p)
  \/ StartOrEnd

Spec == Init /\ [][Next]_vars
=============================================================================
