------------------------------ MODULE Registry ------------------------------
(***************************************************************************)
(* What the supervisor promises about cameras and their RTSP paths: while  *)
(* it lives, the list of (name, path) entries only grows, at its end, one  *)
(* entry at a time, each with a path no other entry has.  A client may     *)
(* keep the URL of a camera for as long as the supervisor runs.  Nothing   *)
(* is promised across restarts.                                            *)
(***************************************************************************)
EXTENDS Naturals, Sequences

CONSTANT Names

VARIABLES
  alive,     \* whether the supervisor runs
  entries    \* its cameras, in the order it learnt of them

vars == <<alive, entries>>

Entry == [name : Names, path : Nat]

UniquePaths(es) ==
  \A i, j \in DOMAIN es : i # j => es[i].path # es[j].path

Init == alive = FALSE /\ entries = <<>>

\* The supervisor starts with at least one camera.
Start ==
  /\ ~alive /\ alive' = TRUE
  /\ entries' \in Seq(Entry) /\ entries' # <<>> /\ UniquePaths(entries')

\* A camera never seen before gets an entry and a free path.
Learn ==
  /\ alive /\ alive' = TRUE
  /\ entries' \in Seq(Entry) /\ Len(entries') = Len(entries) + 1
  /\ \A i \in DOMAIN entries : entries'[i] = entries[i]
  /\ UniquePaths(entries')

\* The supervisor exits or dies.
Die == alive /\ alive' = FALSE /\ entries' = <<>>

Next == Start \/ Learn \/ Die

Spec == Init /\ [][Next]_vars
=============================================================================
