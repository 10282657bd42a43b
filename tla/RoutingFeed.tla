----------------------------- MODULE RoutingFeed -----------------------------
(***************************************************************************)
(* What the routing feed promises the data plane, whatever the clock, the  *)
(* stream and the workers do: the proxy's table is one that the head       *)
(* published, whole, and the proxy never goes back to an older one.        *)
(***************************************************************************)
EXTENDS Integers, Sequences

VARIABLES
  published,   \* all tables published so far, oldest first
  seen         \* the one the proxy uses, as an index; 0 before the first

Init == published = <<>> /\ seen = 0

\* The head publishes one more table.
Publish ==
  /\ Len(published') = Len(published) + 1
  /\ \A i \in 1..Len(published) : published'[i] = published[i]
  /\ UNCHANGED seen

\* The proxy moves on to a later table; it may skip some.
Advance ==
  /\ seen' \in (seen + 1)..Len(published)
  /\ UNCHANGED published

Next == Publish \/ Advance

Spec == Init /\ [][Next]_<<published, seen>>
=============================================================================
