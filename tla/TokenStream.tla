----------------------------- MODULE TokenStream -----------------------------
(***************************************************************************)
(* What a replica promises the caller of SendRequest: it receives a prefix *)
(* of the text the engine generates for its request, in order and without  *)
(* gaps or repetitions; and if the call ends well, with no chunk marked as *)
(* an error, it has received the whole text.                               *)
(***************************************************************************)
EXTENDS Sequences, SequencesExt

CONSTANT Requests

VARIABLES
  text,       \* what the engine has generated for each request
  finished,   \* whether that is all
  received,   \* what its caller has received
  verdict     \* "open", "complete" (ended well) or "broken"

Init ==
  /\ text = [r \in Requests |-> <<>>]
  /\ finished = [r \in Requests |-> FALSE]
  /\ received = [r \in Requests |-> <<>>]
  /\ verdict = [r \in Requests |-> "open"]

EngineSame(r) == text'[r] = text[r] /\ finished'[r] = finished[r]
CallerSame(r) == received'[r] = received[r] /\ verdict'[r] = verdict[r]

\* The engine adds to the text of a request, or ends it.
Generate(r) ==
  /\ ~finished[r]
  /\ IsPrefix(text[r], text'[r])
  /\ CallerSame(r)

Deliver(r) ==
  /\ verdict[r] = "open"
  /\ IsPrefix(received[r], received'[r]) /\ IsPrefix(received'[r], text[r])
  /\ verdict'[r] = verdict[r] /\ EngineSame(r)

Complete(r) ==
  /\ verdict[r] = "open" /\ finished[r] /\ received[r] = text[r]
  /\ verdict'[r] = "complete"
  /\ received'[r] = received[r] /\ EngineSame(r)

\* The caller leaves or is told of an error.
Break(r) ==
  /\ verdict[r] = "open"
  /\ verdict'[r] = "broken"
  /\ received'[r] = received[r] /\ EngineSame(r)

Next ==
  \A r \in Requests :
    \/ Generate(r) \/ Deliver(r) \/ Complete(r) \/ Break(r)
    \/ EngineSame(r) /\ CallerSame(r)

Spec == Init /\ [][Next]_<<text, finished, received, verdict>>
=============================================================================
