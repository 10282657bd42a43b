------------------------------ MODULE PyReplica ------------------------------
(***************************************************************************)
(* The replica process of the Python data plane, add_replica_vllm.py: a    *)
(* ReplicaManager that serves SendRequest on one asyncio event loop and    *)
(* registers with the scheduler that started it.                           *)
(*                                                                         *)
(* A text is kept as its length: its k-th character is the number k, and a *)
(* reply is the slice from+1 .. to of it.  An action is the code between   *)
(* two suspension points: an engine report, a yield, an RPC.  The counters *)
(* and histograms for Prometheus, Ping and poll_metrics_periodically read  *)
(* state and change none; they are left out.                               *)
(***************************************************************************)
EXTENDS Integers, Sequences

CONSTANTS
  Replicas,      \* replica processes
  Requests,      \* SendRequest calls, one at most for each HTTP request
  NumAttempts,   \* attempts of send_with_retries_async
  MaxReports     \* bound: engine reports for one request (max_tokens)

ASSUME ReplicaAssumption == NumAttempts \in Nat \ {0} /\ MaxReports \in Nat \ {0}

NoReplica == "none"
ASSUME NoReplicaAssumption == NoReplica \notin Replicas

\* What SendRequest yields, and the end of its stream.
Reply == [kind : {"text", "error", "end"}, from : 0..MaxReports, to : 0..MaxReports]
Text(a, b) == [kind |-> "text", from |-> a, to |-> b]
Error == [kind |-> "error", from |-> 0, to |-> 0]
End == [kind |-> "end", from |-> 0, to |-> 0]

VARIABLES
  life,            \* main: "loading", "serving", "registered", "exited"
  engine,          \* self.engine: "missing" or "loaded"
  attempt,         \* the registration attempt under way
  server,          \* the replica a call was sent to
  call,            \* where its SendRequest coroutine is
  text,            \* the text the engine has reported, as its length
  finished,        \* request_output.finished: "no", "yes"
  sent_position,
  reports,         \* counted for the bound
  wire             \* replies on their way to the proxy

process == <<life, engine, attempt>>
serving == <<server, call, text, finished, sent_position, reports, wire>>
rvars == <<process, serving>>

CallStates == {"none", "sent", "generating", "yielding", "over"}

ReplicaTypeOK ==
  /\ life \in [Replicas -> {"loading", "serving", "registered", "exited"}]
  /\ engine \in [Replicas -> {"missing", "loaded"}]
  /\ attempt \in [Replicas -> 1..NumAttempts]
  /\ server \in [Requests -> Replicas \union {NoReplica}]
  /\ call \in [Requests -> CallStates]
  /\ text \in [Requests -> 0..MaxReports]
  /\ finished \in [Requests -> {"no", "yes"}]
  /\ sent_position \in [Requests -> 0..MaxReports]
  /\ reports \in [Requests -> 0..MaxReports]
  /\ wire \in [Requests -> Seq(Reply)]

ReplicaInit ==
  /\ life = [p \in Replicas |-> "loading"]
  /\ engine = [p \in Replicas |-> "missing"]
  /\ attempt = [p \in Replicas |-> 1]
  /\ server = [r \in Requests |-> NoReplica]
  /\ call = [r \in Requests |-> "none"]
  /\ text = [r \in Requests |-> 0]
  /\ finished = [r \in Requests |-> "no"]
  /\ sent_position = [r \in Requests |-> 0]
  /\ reports = [r \in Requests |-> 0]
  /\ wire = [r \in Requests |-> <<>>]

Up(p) == life[p] \in {"serving", "registered"}

\* What the head may list: an attempt to register may have reached the scheduler
\* before it is acknowledged, or though it never is.
Started == {p \in Replicas : life[p] # "loading"}

-----------------------------------------------------------------------------
(* main: load the model, start the server, register.                       *)

\* init_model catches what from_engine_args raises; main goes on without.
init_model(p, e) ==
  /\ life[p] = "loading"
  /\ engine' = [engine EXCEPT ![p] = e]
  /\ life' = [life EXCEPT ![p] = "serving"]
  /\ UNCHANGED <<attempt, serving>>

register_replica(p) ==
  /\ life[p] = "serving"
  /\ life' = [life EXCEPT ![p] = "registered"]
  /\ UNCHANGED <<engine, attempt, serving>>

\* Slip: the test of the last attempt lets one more through.
retries_once_more(p) ==
  /\ life[p] = "serving"
  /\ life' = [life EXCEPT ![p] = IF attempt[p] > NumAttempts THEN "exited" ELSE @]
  /\ attempt' = [attempt EXCEPT ![p] = IF @ > NumAttempts THEN @ ELSE @ + 1]
  /\ UNCHANGED <<engine, serving>>

\* An attempt raises, before or after it reached the scheduler.  After the
\* last one the process sends itself SIGTERM.
send_with_retries_async(p) ==
  /\ life[p] = "serving"
  /\ life' = [life EXCEPT ![p] = IF attempt[p] = NumAttempts THEN "exited" ELSE @]
  /\ attempt' = [attempt EXCEPT ![p] = IF @ = NumAttempts THEN @ ELSE @ + 1]
  /\ UNCHANGED <<engine, serving>>

\* The process crashes, or its scheduler kills it.
Exit(p) ==
  /\ life[p] = "registered"
  /\ life' = [life EXCEPT ![p] = "exited"]
  /\ UNCHANGED <<engine, attempt, serving>>

-----------------------------------------------------------------------------
(* SendRequest.                                                            *)

Goes(r, l) == call' = [call EXCEPT ![r] = l]
Puts(r, reply) == wire' = [wire EXCEPT ![r] = Append(@, reply)]

\* The exception handler: a last reply, marked as an error.
Raises(r) == Puts(r, Error) /\ Goes(r, "over")

\* engine.generate, inside the try: a missing attribute is an error like any.
SendRequest(r) ==
  /\ call[r] = "sent" /\ Up(server[r])
  /\ IF engine[server[r]] = "loaded" THEN Goes(r, "generating") /\ UNCHANGED wire
                                     ELSE Raises(r)
  /\ UNCHANGED <<process, server, text, finished, sent_position, reports>>

\* Slip: the whole text is sent again with every report.
new_text_whole(r, n) == Text(0, n)

\* current_text[sent_position:]
new_text(r, n) == Text(sent_position[r], n)

\* The next report: the text so far, and whether that is all.  New text is
\* yielded; a last report without new text ends the loop (one that is neither
\* changes nothing).
EngineReports(r, n, f) ==
  /\ call[r] = "generating" /\ Up(server[r])
  /\ reports[r] < MaxReports /\ (reports[r] + 1 = MaxReports => f = "yes")
  /\ n = text[r] + 1 \/ (n = text[r] /\ f = "yes")
  /\ text' = [text EXCEPT ![r] = n]
  /\ finished' = [finished EXCEPT ![r] = f]
  /\ reports' = [reports EXCEPT ![r] = @ + 1]
  /\ \/ n > sent_position[r] /\ Puts(r, new_text(r, n)) /\ Goes(r, "yielding")
     \/ n = sent_position[r] /\ Puts(r, End) /\ Goes(r, "over")
  /\ UNCHANGED <<process, server, sent_position>>

\* Back from the yield: only now sent_position moves.
YieldReturns(r) ==
  /\ call[r] = "yielding" /\ Up(server[r])
  /\ sent_position' = [sent_position EXCEPT ![r] = text[r]]
  /\ IF finished[r] = "yes" THEN Puts(r, End) /\ Goes(r, "over")
                            ELSE Goes(r, "generating") /\ UNCHANGED wire
  /\ UNCHANGED <<process, server, text, finished, reports>>

EngineRaises(r) ==
  /\ call[r] = "generating" /\ Up(server[r])
  /\ Raises(r)
  /\ UNCHANGED <<process, server, text, finished, sent_position, reports>>

ReplicaMain(p) ==
  \/ \E e \in {"missing", "loaded"} : init_model(p, e)
  \/ register_replica(p)
  \/ send_with_retries_async(p)
  \/ Exit(p)

SendRequestStep(r) ==
  \/ SendRequest(r)
  \/ \E n \in 0..MaxReports, f \in {"no", "yes"} : EngineReports(r, n, f)
  \/ YieldReturns(r)
  \/ EngineRaises(r)
=============================================================================
