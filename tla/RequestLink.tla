----------------------------- MODULE RequestLink -----------------------------
(***************************************************************************)
(* What the request/reply protocol promises its users: a lossy first-in    *)
(* first-out link.  Requests are numbered as they are made; each is        *)
(* answered at most once, in the order they were made; any of them may be  *)
(* lost.                                                                   *)
(***************************************************************************)
EXTENDS Naturals

VARIABLES
  issued,    \* requests made so far
  pending,   \* the numbers of those on their way
  answered   \* the last one answered

link == <<issued, pending, answered>>

Init == issued = 0 /\ pending = {} /\ answered = 0

Issue ==
  /\ issued' = issued + 1
  /\ pending' = pending \cup {issued + 1}
  /\ UNCHANGED answered

\* the oldest of those on their way
Answer ==
  \E n \in pending :
    /\ \A k \in pending : n <= k
    /\ answered' = n
    /\ pending' = pending \ {n}
    /\ UNCHANGED issued

Drop ==
  /\ \E n \in pending : pending' = pending \ {n}
  /\ UNCHANGED <<issued, answered>>

Next == Issue \/ Answer \/ Drop

Spec == Init /\ [][Next]_link
=============================================================================
