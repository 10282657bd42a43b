------------------------------- MODULE PyProxy -------------------------------
(***************************************************************************)
(* The Python data plane: the FastAPI proxy (http_proxy.py) with its       *)
(* DeploymentHandles (deployment_handle.py), composed with the replicas it *)
(* calls (PyReplica).                                                      *)
(*                                                                         *)
(* The proxy is one asyncio event loop.  routing_lock is held over a       *)
(* suspension on one path only: a request for an unknown deployment yields *)
(* its answer inside the lock.  The ASGI server may then suspend the       *)
(* generator until the client takes the chunk or leaves; other requests    *)
(* and routing updates queue for the lock in the order they came.          *)
(* replica_lock is never held over a suspension, so it is left out.        *)
(*                                                                         *)
(* A generator whose client left is closed later, by a task the event loop *)
(* starts for it; until then it keeps what it holds.  One deployment is    *)
(* modelled; every update builds a new handle for it, numbered by gen.     *)
(***************************************************************************)
EXTENDS PyReplica, FiniteSets

CONSTANT MaxUpdates      \* bound: routing updates

ASSUME UpdatesAssumption == MaxUpdates \in Nat
ASSUME RequestsAssumption == IsFiniteSet(Requests)

Gens == 1..MaxUpdates
NoHandle == 0
Free == "free"
Subscriber == "subscriber"
ASSUME LockAssumption == {Free, Subscriber} \cap Requests = {}

VARIABLES
  gen,         \* the handle in routing_table, NoHandle while it is empty
  listed,      \* handle.replicas; the head lists them all as RUNNING
  replica_cache,   \* handle.replica_cache: outstanding requests
  owner,       \* who holds routing_lock over a suspension
  waiters,     \* who waits for it
  sub,         \* subscribe_to_head_node: "reading" or "applying"
  update,      \* the update it has read
  at,          \* where the stream_generator of a request is
  handle,      \* the handle it looked up
  chunk,       \* the token_data it is yielding
  received,    \* what its client has got from the replica
  ended,       \* how the attempt ended: "open", "returned", "raised"
  outcome      \* the status PROXY_REQUEST_COUNT counts it under

table == <<gen, listed>>
lock  == <<owner, waiters>>
feed  == <<sub, update>>
session == <<at, handle, chunk, received, ended, outcome>>
pvars == <<table, replica_cache, lock, feed, session>>
vars  == <<rvars, pvars>>

Streaming == {"streaming", "yielding", "closing", "leaving"}
Waiting == {"waiting", "waiting_unknown"}   \* for the lock; the path is not served
Places == {"idle", "missing", "failing", "done"} \union Waiting \union Streaming

TypeOK ==
  /\ ReplicaTypeOK
  /\ gen \in 0..MaxUpdates
  /\ listed \in [Gens -> SUBSET Replicas]
  /\ replica_cache \in [Gens -> [Replicas -> Nat]]
  /\ owner \in Requests \union {Free}
  /\ waiters \in Seq(Requests \union {Subscriber})
  /\ sub \in {"reading", "applying"}
  /\ update \subseteq Replicas
  /\ at \in [Requests -> Places]
  /\ handle \in [Requests -> 0..MaxUpdates]
  /\ chunk \in [Requests -> Reply]
  /\ received \in [Requests -> Seq(Nat)]
  /\ ended \in [Requests -> {"open", "returned", "raised"}]
  /\ outcome \in [Requests -> {"none", "success", "error"}]

Init ==
  /\ ReplicaInit
  /\ gen = NoHandle
  /\ listed = [g \in Gens |-> {}]
  /\ replica_cache = [g \in Gens |-> [p \in Replicas |-> 0]]
  /\ owner = Free /\ waiters = <<>>
  /\ sub = "reading" /\ update = {}
  /\ at = [r \in Requests |-> "idle"]
  /\ handle = [r \in Requests |-> NoHandle]
  /\ chunk = [r \in Requests |-> End]
  /\ received = [r \in Requests |-> <<>>]
  /\ ended = [r \in Requests |-> "open"]
  /\ outcome = [r \in Requests |-> "none"]

Goto(r, l) == at' = [at EXCEPT ![r] = l]
EndsAs(r, e) == ended' = [ended EXCEPT ![r] = e]
Counted(r, status) == outcome' = [outcome EXCEPT ![r] = status]

\* asyncio.Lock is free and x is the one it goes to.
Turn(x) ==
  /\ owner = Free /\ waiters # <<>> /\ Head(waiters) = x
  /\ waiters' = Tail(waiters)

\* asyncio.Lock: a waiter that is cancelled takes itself out of the queue.
StopsWaiting(x) ==
  \/ \E i \in DOMAIN waiters :
       /\ waiters[i] = x
       /\ waiters' = SubSeq(waiters, 1, i - 1) \o SubSeq(waiters, i + 1, Len(waiters))
  \/ x \notin {waiters[i] : i \in DOMAIN waiters} /\ UNCHANGED waiters

-----------------------------------------------------------------------------
(* The routing table.                                                      *)

\* subscribe_to_head_node reads on, or opens a broken stream again and reads: a
\* table of replicas whose registration has reached the scheduler at some time.
ReadUpdate(R) ==
  /\ sub = "reading" /\ gen < MaxUpdates /\ R \subseteq Started
  /\ update' = R
  /\ sub' = "applying"
  /\ waiters' = Append(waiters, Subscriber)
  /\ UNCHANGED <<rvars, table, replica_cache, owner, session>>

\* The old table is dropped and the new one built in one segment.
apply_routing_update ==
  /\ sub = "applying" /\ Turn(Subscriber)
  /\ gen' = gen + 1
  /\ listed' = [listed EXCEPT ![gen + 1] = update]
  /\ replica_cache' = [replica_cache EXCEPT ![gen + 1] = [p \in Replicas |-> 0]]
  /\ sub' = "reading" /\ update' = {}
  /\ UNCHANGED <<rvars, owner, session>>

-----------------------------------------------------------------------------
(* A request up to the dispatch.                                           *)

\* An empty body, or one that is not UTF-8, is answered 400.
RejectBody(r) ==
  /\ at[r] = "idle"
  /\ Goto(r, "done") /\ EndsAs(r, "raised")
  /\ UNCHANGED <<rvars, table, replica_cache, lock, feed, handle, chunk,
                 received, outcome>>

handle_process_string_request(r, w) ==
  /\ at[r] = "idle"
  /\ Goto(r, w)
  /\ waiters' = Append(waiters, r)
  /\ UNCHANGED <<rvars, table, replica_cache, owner, feed, handle, chunk,
                 received, ended, outcome>>

Found(r) == gen # NoHandle /\ at[r] = "waiting"

\* The answer is yielded inside the lock.
NotFound(r) ==
  /\ at[r] \in Waiting /\ Turn(r) /\ ~Found(r)
  /\ owner' = r
  /\ Goto(r, "missing")
  /\ UNCHANGED <<rvars, table, replica_cache, feed, handle, chunk,
                 received, ended, outcome>>

\* min() of no replica raises outside the try of send_request.
NoRunningReplica(r) ==
  /\ at[r] \in Waiting /\ Turn(r) /\ Found(r) /\ listed[gen] = {}
  /\ Goto(r, "failing") /\ EndsAs(r, "raised") /\ Counted(r, "error")
  /\ UNCHANGED <<rvars, table, replica_cache, owner, feed, handle, chunk,
                 received>>

\* The least loaded replica is counted and called, all in one segment.
pick_next_replica(r, p) ==
  /\ at[r] \in Waiting /\ Turn(r) /\ Found(r) /\ p \in listed[gen]
  /\ \A o \in listed[gen] : replica_cache[gen][p] <= replica_cache[gen][o]
  /\ replica_cache' = [replica_cache EXCEPT ![gen][p] = @ + 1]
  /\ handle' = [handle EXCEPT ![r] = gen]
  /\ server' = [server EXCEPT ![r] = p]
  /\ call' = [call EXCEPT ![r] = "sent"]
  /\ Goto(r, "streaming")
  /\ UNCHANGED <<process, text, finished, sent_position, reports, wire, table,
                 owner, feed, chunk, received, ended, outcome>>

-----------------------------------------------------------------------------
(* _attempt_streaming_request_to_worker_node.                              *)

Reads(r, kind) ==
  /\ at[r] = "streaming" /\ wire[r] # <<>> /\ Head(wire[r]).kind = kind
  /\ wire' = [wire EXCEPT ![r] = Tail(@)]
  /\ UNCHANGED <<process, server, call, text, finished, sent_position, reports,
                 table, replica_cache, lock, feed, handle, received, outcome>>

ReadText(r) ==
  /\ Reads(r, "text")
  /\ chunk' = [chunk EXCEPT ![r] = Head(wire[r])]
  /\ Goto(r, "yielding") /\ UNCHANGED ended

\* is_error: an exception leaves the loop and closes the channel.
ReadError(r) ==
  /\ Reads(r, "error")
  /\ Goto(r, "closing") /\ EndsAs(r, "raised") /\ UNCHANGED chunk

ReadEnd(r) ==
  /\ Reads(r, "end")
  /\ Goto(r, "closing") /\ EndsAs(r, "returned") /\ UNCHANGED chunk

\* AioRpcError: the replica is gone or the connection broke.
CallBreaks(r) ==
  /\ at[r] = "streaming"
  /\ Goto(r, "closing") /\ EndsAs(r, "raised")
  /\ UNCHANGED <<rvars, table, replica_cache, lock, feed, handle, chunk,
                 received, outcome>>

\* The channel is closed and the RPC with it: what the replica does until it
\* finds its call cancelled is seen by nobody.  The locals of the call are gone.
Hangup(r) ==
  /\ Goes(r, "over")
  /\ wire' = [wire EXCEPT ![r] = <<>>]
  /\ sent_position' = [sent_position EXCEPT ![r] = 0]
  /\ reports' = [reports EXCEPT ![r] = 0]
  /\ server' = [server EXCEPT ![r] = NoReplica]
  /\ handle' = [handle EXCEPT ![r] = NoHandle]
  /\ UNCHANGED <<process, text, finished>>

\* finally: the count of the handle the request holds.
Decremented(r) ==
  replica_cache' = [replica_cache EXCEPT ![handle[r]][server[r]] =
                      IF @ > 0 THEN @ - 1 ELSE 0]

\* send_request logs an exception and goes on, so the request is counted as a
\* success however the attempt ended.
ChannelClosed(r) ==
  /\ at[r] = "closing"
  /\ Hangup(r) /\ Decremented(r)
  /\ Goto(r, "done") /\ Counted(r, "success")
  /\ UNCHANGED <<table, lock, feed, chunk, received, ended>>

-----------------------------------------------------------------------------
(* The client.                                                             *)

Slice(c) == [i \in 1..(c.to - c.from) |-> c.from + i]

TakesChunk(r) ==
  /\ at[r] = "yielding"
  /\ received' = [received EXCEPT ![r] = @ \o Slice(chunk[r])]
  /\ chunk' = [chunk EXCEPT ![r] = End]
  /\ Goto(r, "streaming")
  /\ UNCHANGED <<rvars, table, replica_cache, lock, feed, handle, ended,
                 outcome>>

\* The generator returns and leaves the lock.
TakesNotFound(r) ==
  /\ at[r] = "missing"
  /\ owner' = Free
  /\ Goto(r, "done") /\ EndsAs(r, "raised")
  /\ UNCHANGED <<rvars, table, replica_cache, waiters, feed, handle,
                 chunk, received, outcome>>

TakesError(r) ==
  /\ at[r] = "failing"
  /\ Goto(r, "done")
  /\ UNCHANGED <<rvars, table, replica_cache, lock, feed, handle, chunk,
                 received, ended, outcome>>

Leaves(r) ==
  /\ at[r] \in Waiting \union {"missing", "streaming", "yielding", "closing"}
  /\ Goto(r, IF at[r] \in Waiting THEN "done" ELSE "leaving")
  /\ IF ended[r] = "open" THEN EndsAs(r, "raised") ELSE UNCHANGED ended
  /\ StopsWaiting(r)
  /\ UNCHANGED <<rvars, table, replica_cache, owner, feed, handle, chunk,
                 received, outcome>>

LetsGo(r) ==
  IF handle[r] = NoHandle THEN UNCHANGED <<rvars, replica_cache, handle>>
                          ELSE Hangup(r) /\ Decremented(r)

\* Slips: the count is not given back; the lock is not.
aclose_keeps_count(r) ==
  /\ at[r] = "leaving"
  /\ owner' = IF owner = r THEN Free ELSE owner
  /\ Goto(r, "done")
  /\ UNCHANGED <<rvars, table, replica_cache, waiters, feed, handle, chunk,
                 received, ended, outcome>>

aclose_keeps_lock(r) ==
  /\ at[r] = "leaving"
  /\ LetsGo(r)
  /\ Goto(r, "done")
  /\ UNCHANGED <<table, lock, feed, chunk, received, ended, outcome>>

\* The abandoned generator is closed: `async with` and `finally` run, the
\* counters of `except Exception` do not.
aclose(r) ==
  /\ at[r] = "leaving"
  /\ owner' = IF owner = r THEN Free ELSE owner
  /\ LetsGo(r)
  /\ Goto(r, "done")
  /\ UNCHANGED <<table, waiters, feed, chunk, received, ended, outcome>>

-----------------------------------------------------------------------------
Dispatch(r) ==
  \/ NotFound(r)
  \/ NoRunningReplica(r)
  \/ \E p \in Replicas : pick_next_replica(r, p)

Attempt(r) ==
  \/ ReadText(r) \/ ReadError(r) \/ ReadEnd(r)
  \/ ChannelClosed(r) \/ aclose(r)

Takes(r) == TakesChunk(r) \/ TakesNotFound(r) \/ TakesError(r)

Next ==
  \/ \E R \in SUBSET Replicas : ReadUpdate(R)
  \/ apply_routing_update
  \/ \E r \in Requests : RejectBody(r)
  \/ \E r \in Requests, w \in Waiting :
       handle_process_string_request(r, w)
  \/ \E r \in Requests : Dispatch(r)
  \/ \E r \in Requests : Attempt(r)
  \/ \E r \in Requests : CallBreaks(r)
  \/ \E r \in Requests : Takes(r)
  \/ \E r \in Requests : Leaves(r)
  \/ \E p \in Replicas : ReplicaMain(p) /\ UNCHANGED pvars
  \/ \E r \in Requests : SendRequestStep(r) /\ UNCHANGED pvars

Spec == Init /\ [][Next]_vars

\* What brings a request nearer its end.  The event loops run what can run; the
\* engine reports until it is finished; the connection to a process that has
\* ended breaks.  Clients owe nothing: nothing in the proxy limits the time they
\* may leave what they are sent untaken.
Progress(r) ==
  \/ Dispatch(r) \/ Attempt(r)
  \/ SendRequestStep(r) /\ UNCHANGED pvars
  \/ at[r] = "streaming" /\ life[server[r]] = "exited" /\ CallBreaks(r)

Fairness ==
  /\ WF_vars(apply_routing_update)
  /\ \A r \in Requests : WF_vars(Progress(r))

FairSpec == Spec /\ Fairness

-----------------------------------------------------------------------------
(* Safety.                                                                 *)

\* replica_cache counts exactly the requests a handle has at a replica, in
\* replaced handles too, and also for requests that failed or were abandoned:
\* the load the proxy balances by neither leaks nor falls below zero.
Holders(g, p) == {r \in Requests : at[r] \in Streaming /\ handle[r] = g /\ server[r] = p}
CountsAreExact ==
  \A g \in Gens, p \in Replicas : replica_cache[g][p] = Cardinality(Holders(g, p))

\* Why: a request holds a handle while it streams and no longer, one that is in
\* the table or was, so that a new one begins with nobody on it.
HoldersKnown ==
  /\ sub = "applying" => gen < MaxUpdates
  /\ \A r \in Requests :
       /\ at[r] \in Streaming \ {"leaving"} => handle[r] # NoHandle
       /\ handle[r] # NoHandle => /\ at[r] \in Streaming
                                  /\ handle[r] \in 1..gen /\ server[r] \in Replicas

\* Through proxy and replica together a client gets a prefix of the text the
\* engine generated, in order, without gap or repetition; and where the attempt
\* returned instead of raising, the whole text.
Whole(n) == [i \in 1..n |-> i]

Stream == INSTANCE TokenStream WITH
  text <- [r \in Requests |-> Whole(text[r])],
  finished <- [r \in Requests |-> finished[r] = "yes"],
  verdict <- [r \in Requests |->
                IF ended[r] = "returned" THEN "complete"
                ELSE IF ended[r] = "raised" THEN "broken" ELSE "open"]

StreamSpec == Stream!Spec

-----------------------------------------------------------------------------
(* Liveness.                                                               *)

\* A client that sits on the answer it got inside routing_lock stops the proxy:
\* no update is applied and no request dispatched until it takes it or leaves.
\* Nothing else does.  While no such answer is left for ever, whatever other
\* clients leave untaken and whoever leaves, also in the middle of that answer:
\* again and again no update waits to be applied, and every request that came
\* has ended or has a chunk that its own client has not taken.
LockMovesOn == \A o \in Requests : []<>(at[o] # "missing")

Settled ==
  /\ sub = "reading"
  /\ \A r \in Requests : at[r] \in {"idle", "yielding", "failing", "done"}

EverybodyIsServed == LockMovesOn => []<>Settled
=============================================================================
