------------------------------ MODULE HttpProxy ------------------------------
(***************************************************************************)
(* The data plane: the HTTP sessions of the C++ proxy (http_proxy.cpp) and *)
(* the DeploymentHandle through which they reach a replica                 *)
(* (deployment_handle.cpp), for one deployment.                            *)
(*                                                                         *)
(* Sessions are coroutines on an io_context that several threads run; the  *)
(* routing subscription runs on a thread of its own.  A session action is  *)
(* the code between two suspension points, except where the code touches   *)
(* active_requests: it is a plain int, incremented under the mutex of the  *)
(* handle and decremented by ~ReplicaReleaser without it, so each of the   *)
(* two is a load and a store that other threads may run in between.  (A    *)
(* data race; losing one of two updates is what the generated code does.)  *)
(* The auxiliary variable overlapped keeps which counters that has         *)
(* happened to; no action reads it.                                        *)
(*                                                                         *)
(* Every routing update builds new handles with new counters; a session    *)
(* keeps the one it looked up.  Handles are numbered by generation.        *)
(* Tokens are counted, not named; the order of the replica list, which     *)
(* only breaks ties, is left out.  Latency histograms are left out.        *)
(***************************************************************************)
EXTENDS Integers, FiniteSets

CONSTANTS
  Sessions,      \* accepted connections
  Replicas,      \* replica ids that routing updates may list
  Threads,       \* threads that run the io_context
  MaxUpdates,    \* bound: routing updates
  MaxTokens      \* bound: tokens of one reply

ASSUME ThreadsAssumption == Threads \in Nat \ {0}
ASSUME SessionsAssumption == IsFiniteSet(Sessions)
ASSUME ProxyBounds == MaxUpdates \in Nat /\ MaxTokens \in Nat

NoHandle == 0
None == "none"
ASSUME NoneAssumption == None \notin Replicas

Gens == 1..MaxUpdates
Health == {"healthy", "cooling", "expired"}   \* cooling: failed within 15 s

\* Where a session is.  "picked" and "releasing" are inside a statement, with
\* active_requests loaded and not yet stored.
Waits == {"idle", "reading", "not_found", "header", "picking", "starting",
          "streaming", "unwinding", "closing", "done"}
Inside == {"picked", "releasing"}
Outcomes == {"none", "success", "error"}

VARIABLES
  gen,          \* routing_table_: generation of the current handle, 0 if none
  listed,       \* replicas_ of each handle
  active,       \* active_requests of each ReplicaInfo
  health,       \* health_status and last_failure_time of each ReplicaInfo
  pc,
  handle,       \* the handle a session looked up
  replica,      \* the replica it was given
  tmp,          \* active_requests as it loaded it
  tokens,       \* chunks written to the client
  outcome,      \* the status it is counted under in proxy_requests_total
  gauge,        \* proxy_active_requests
  overlapped    \* auxiliary: counters of which a release overlapped another access

table == <<gen, listed>>
count == <<active, overlapped>>
info  == <<count, health>>
sess  == <<pc, handle, replica, tmp, tokens, outcome>>
vars  == <<table, info, sess, gauge>>

Holding == {"starting", "streaming", "unwinding", "releasing"}

Typed ==
  /\ gen \in 0..MaxUpdates
  /\ listed \in [Gens -> SUBSET Replicas]
  /\ active \in [Gens -> [Replicas -> Int]]
  /\ overlapped \subseteq Gens \X Replicas
  /\ health \in [Gens -> [Replicas -> Health]]
  /\ pc \in [Sessions -> Waits \union Inside]
  /\ handle \in [Sessions -> Gens \union {NoHandle}]
  /\ replica \in [Sessions -> Replicas \union {None}]
  /\ tmp \in [Sessions -> Int]
  /\ tokens \in [Sessions -> 0..MaxTokens]
  /\ outcome \in [Sessions -> Outcomes]
  /\ gauge \in Int

HandlesKept ==
  \A s \in Sessions :
    /\ pc[s] \in {"header", "picking"} \union Inside \union Holding => handle[s] \in Gens
    /\ pc[s] \in Inside \union Holding => replica[s] \in Replicas

\* Every variable has its type, and a session in flight has a handle and a
\* replica: send_request never goes on with the nullopt of pick_next_replica.
TypeOK == Typed /\ HandlesKept

Init ==
  /\ gen = 0
  /\ listed = [g \in Gens |-> {}]
  /\ active = [g \in Gens |-> [r \in Replicas |-> 0]]
  /\ overlapped = {}
  /\ health = [g \in Gens |-> [r \in Replicas |-> "healthy"]]
  /\ pc = [s \in Sessions |-> "idle"]
  /\ handle = [s \in Sessions |-> NoHandle]
  /\ replica = [s \in Sessions |-> None]
  /\ tmp = [s \in Sessions |-> 0]
  /\ tokens = [s \in Sessions |-> 0]
  /\ outcome = [s \in Sessions |-> "none"]
  /\ gauge = 0

Goto(s, l) == pc' = [pc EXCEPT ![s] = l]

\* A thread of the io_context is free to run a session.
ThreadFree == Cardinality({s \in Sessions : pc[s] \in Inside}) < Threads

\* mtx_ of handle g is held across a pick.
Locked(g) == \E s \in Sessions : pc[s] = "picked" /\ handle[s] = g

\* The session gives up or is finished, and is counted.
Counted(s, status) == outcome' = [outcome EXCEPT ![s] = status]

-----------------------------------------------------------------------------
(* The routing table.                                                      *)

\* A whole new handle for the deployment replaces the old one in one swap.
apply_routing_update(R) ==
  /\ gen < MaxUpdates
  /\ gen' = gen + 1
  /\ listed' = [listed EXCEPT ![gen + 1] = R]
  /\ UNCHANGED <<info, sess, gauge>>

\* Fifteen seconds have passed since a replica was marked.
CoolingEnds(g, r) ==
  /\ health[g][r] = "cooling"
  /\ health' = [health EXCEPT ![g][r] = "expired"]
  /\ UNCHANGED <<table, count, sess, gauge>>

-----------------------------------------------------------------------------
(* http_session up to the dispatch.                                        *)

Accept(s) ==
  /\ pc[s] = "idle" /\ ThreadFree
  /\ gauge' = gauge + 1
  /\ Goto(s, "reading")
  /\ UNCHANGED <<table, info, handle, replica, tmp, tokens, outcome>>

\* Slip: the early return skips the gauge.
ServeMetrics_leak(s) ==
  /\ pc[s] = "reading" /\ ThreadFree
  /\ Goto(s, "done")
  /\ UNCHANGED <<table, info, handle, replica, tmp, tokens, outcome, gauge>>

\* A scrape of /metrics is answered and leaves at once, uncounted.
ServeMetrics(s) ==
  /\ pc[s] = "reading" /\ ThreadFree
  /\ gauge' = gauge - 1
  /\ Goto(s, "done")
  /\ UNCHANGED <<table, info, handle, replica, tmp, tokens, outcome>>

\* The request cannot be read, or the header not written.
SessionFails(s) ==
  /\ pc[s] \in {"reading", "header"} /\ ThreadFree
  /\ Counted(s, "error")
  /\ Goto(s, "closing")
  /\ UNCHANGED <<table, info, handle, replica, tmp, tokens, gauge>>

\* Lookup under the shared lock; the session keeps the handle it found.
Route(s) ==
  /\ pc[s] = "reading" /\ ThreadFree
  /\ handle' = [handle EXCEPT ![s] = gen]
  /\ Goto(s, IF gen = 0 THEN "not_found" ELSE "header")
  /\ UNCHANGED <<table, info, replica, tmp, tokens, outcome, gauge>>

\* The 404 is written or not; either way the handler throws.
NotFound(s) ==
  /\ pc[s] = "not_found" /\ ThreadFree
  /\ Counted(s, "error")
  /\ Goto(s, "closing")
  /\ UNCHANGED <<table, info, handle, replica, tmp, tokens, gauge>>

HeaderWritten(s) ==
  /\ pc[s] = "header" /\ ThreadFree
  /\ Goto(s, "picking")
  /\ UNCHANGED <<table, info, handle, replica, tmp, tokens, outcome, gauge>>

-----------------------------------------------------------------------------
(* DeploymentHandle::send_request.                                         *)

Eligible(g) == {r \in listed[g] : health[g][r] # "cooling"}
LeastLoaded(g) ==
  {r \in Eligible(g) : \A q \in Eligible(g) : active[g][r] <= active[g][q]}

\* The loop of pick_next_replica makes every replica whose time is up healthy.
Revive(g) ==
  health' = [health EXCEPT ![g] =
    [r \in Replicas |-> IF r \in listed[g] /\ @[r] = "expired" THEN "healthy" ELSE @[r]]]

mark_replica_unhealthy(g, r) ==
  /\ ~Locked(g)
  /\ health' = [health EXCEPT ![g][r] = "cooling"]

PickLoad(s) ==
  /\ pc[s] = "picking" /\ ThreadFree /\ ~Locked(handle[s])
  /\ \E r \in LeastLoaded(handle[s]) :
       /\ replica' = [replica EXCEPT ![s] = r]
       /\ tmp' = [tmp EXCEPT ![s] = active[handle[s]][r]]
  /\ Revive(handle[s])
  /\ Goto(s, "picked")
  /\ UNCHANGED <<table, count, handle, tokens, outcome, gauge>>

\* What s stores into its counter; noted if another session that is between its
\* load and its store of the same counter is releasing, or s itself is.
Store(s, v) ==
  LET c == <<handle[s], replica[s]>>
      Releases(t) == /\ pc[t] \in Inside /\ <<handle[t], replica[t]>> = c
                     /\ "releasing" \in {pc[s], pc[t]}
  IN  /\ active' = [active EXCEPT ![handle[s]][replica[s]] = v]
      /\ overlapped' = overlapped \union
           {d \in {c} : \E t \in Sessions \ {s} : Releases(t)}

PickStore(s) ==
  /\ pc[s] = "picked"
  /\ Store(s, tmp[s] + 1)
  /\ Goto(s, "starting")
  /\ UNCHANGED <<table, health, handle, replica, tmp, tokens, outcome, gauge>>

\* Slip: the optional is not tested.
PickNone_unchecked(s) ==
  /\ pc[s] = "picking" /\ ThreadFree /\ ~Locked(handle[s])
  /\ Eligible(handle[s]) = {}
  /\ Goto(s, "starting")
  /\ UNCHANGED <<table, info, handle, replica, tmp, tokens, outcome, gauge>>

\* Slip: only an empty list is an error; a list of failed replicas is not.
PickNone_empty(s) ==
  /\ pc[s] = "picking" /\ ThreadFree /\ ~Locked(handle[s])
  /\ listed[handle[s]] = {}
  /\ Counted(s, "error")
  /\ Goto(s, "closing")
  /\ UNCHANGED <<table, info, handle, replica, tmp, tokens, gauge>>

\* No replica is eligible: on_token gets the error and throws.
PickNone(s) ==
  /\ pc[s] = "picking" /\ ThreadFree /\ ~Locked(handle[s])
  /\ Eligible(handle[s]) = {}
  /\ Counted(s, "error")
  /\ Goto(s, "closing")
  /\ UNCHANGED <<table, info, handle, replica, tmp, tokens, gauge>>

RpcStarts(s) ==
  /\ pc[s] = "starting" /\ ThreadFree
  /\ Goto(s, "streaming")
  /\ UNCHANGED <<table, info, handle, replica, tmp, tokens, outcome, gauge>>

\* Slip: the error path leaves without a release.
RpcFails_unreleased(s) ==
  /\ pc[s] \in {"starting", "streaming"} /\ ThreadFree
  /\ mark_replica_unhealthy(handle[s], replica[s])
  /\ Counted(s, "error")
  /\ Goto(s, "closing")
  /\ UNCHANGED <<table, count, handle, replica, tmp, tokens, gauge>>

\* The RPC cannot start, or ends with an error or at its deadline: the replica
\* is marked and on_token throws.
RpcFails(s) ==
  /\ pc[s] \in {"starting", "streaming"} /\ ThreadFree
  /\ mark_replica_unhealthy(handle[s], replica[s])
  /\ Counted(s, "error")
  /\ Goto(s, "unwinding")
  /\ UNCHANGED <<table, count, handle, replica, tmp, tokens, gauge>>

\* One reply is read and written to the client as a chunk.
Token(s) ==
  /\ pc[s] = "streaming" /\ ThreadFree
  /\ tokens[s] < MaxTokens
  /\ tokens' = [tokens EXCEPT ![s] = @ + 1]
  /\ UNCHANGED <<table, info, pc, handle, replica, tmp, outcome, gauge>>

\* The client is gone: the write throws, the replica is not to blame.
ClientGone(s) ==
  /\ pc[s] = "streaming" /\ ThreadFree
  /\ Counted(s, "error")
  /\ Goto(s, "unwinding")
  /\ UNCHANGED <<table, info, handle, replica, tmp, tokens, gauge>>

\* Slip: an RPC that ends well is read for more.
RpcFinishes_again(s) ==
  /\ pc[s] = "streaming" /\ ThreadFree
  /\ Counted(s, "success")
  /\ UNCHANGED <<table, info, pc, handle, replica, tmp, tokens, gauge>>

RpcFinishes(s) ==
  /\ pc[s] = "streaming" /\ ThreadFree
  /\ Counted(s, "success")
  /\ Goto(s, "unwinding")
  /\ UNCHANGED <<table, info, handle, replica, tmp, tokens, gauge>>

\* ~ReplicaReleaser, on every way out of send_request: no lock.
ReleaseLoad(s) ==
  /\ pc[s] = "unwinding" /\ ThreadFree
  /\ tmp' = [tmp EXCEPT ![s] = active[handle[s]][replica[s]]]
  /\ Goto(s, "releasing")
  /\ UNCHANGED <<table, info, handle, replica, tokens, outcome, gauge>>

ReleaseStore(s) ==
  /\ pc[s] = "releasing"
  /\ Store(s, tmp[s] - 1)
  /\ Goto(s, "closing")
  /\ UNCHANGED <<table, health, handle, replica, tmp, tokens, outcome, gauge>>

\* The last chunk is tried, the socket closed, the gauge released.
Close(s) ==
  /\ pc[s] = "closing" /\ ThreadFree
  /\ gauge' = gauge - 1
  /\ Goto(s, "done")
  /\ UNCHANGED <<table, info, handle, replica, tmp, tokens, outcome>>

-----------------------------------------------------------------------------
SessionStep(s) ==
  \/ Accept(s) \/ ServeMetrics(s) \/ SessionFails(s) \/ Route(s)
  \/ NotFound(s) \/ HeaderWritten(s)
  \/ PickLoad(s) \/ PickStore(s) \/ PickNone(s)
  \/ RpcStarts(s) \/ RpcFails(s) \/ Token(s) \/ ClientGone(s) \/ RpcFinishes(s)
  \/ ReleaseLoad(s) \/ ReleaseStore(s) \/ Close(s)

Next ==
  \/ \E s \in Sessions : SessionStep(s)
  \/ \E R \in SUBSET Replicas : apply_routing_update(R)
  \/ \E g \in Gens, r \in Replicas : CoolingEnds(g, r)

Spec == Init /\ [][Next]_vars

\* A session whose request was read goes on: threads are not blocked for ever,
\* every RPC has a deadline of 120 s, and a client that stops reading is
\* assumed to be disconnected in the end.  Nothing bounds how long a client may
\* take to send its request.
Dispatched(s) == pc[s] \notin {"idle", "reading"} /\ SessionStep(s)

FairSpec == Spec /\ \A s \in Sessions : WF_vars(Dispatched(s))

-----------------------------------------------------------------------------
(* Properties.                                                             *)

Holders(g, r) == {s \in Sessions : handle[s] = g /\ replica[s] = r /\ pc[s] \in Holding}

\* For any number of threads: active_requests is the number of requests in
\* flight on that replica through that handle, unless ~ReplicaReleaser, which
\* takes no lock, has overlapped another access to that counter.  Every way out
\* of send_request releases once, on the handle it picked from, and mtx_ keeps
\* picks apart from each other.
ExactUnlessOverlapped ==
  \A g \in Gens, r \in Replicas :
    <<g, r>> \notin overlapped => active[g][r] = Cardinality(Holders(g, r))

\* Why: one session at a time is inside a pick of a handle, and what a session
\* has loaded is still there when it stores it.
PicksApart ==
  \A s, t \in Sessions :
    (pc[s] = "picked" /\ pc[t] = "picked" /\ handle[s] = handle[t]) => s = t

LoadedIsCurrent ==
  \A s \in Sessions :
    (pc[s] \in Inside /\ <<handle[s], replica[s]>> \notin overlapped) =>
      tmp[s] = active[handle[s]][replica[s]]

CountInv == PicksApart /\ LoadedIsCurrent /\ ExactUnlessOverlapped

\* http_session: the gauge is always decremented when a session goes out of
\* scope, on the early return for /metrics and on every error path.
GaugeIsExact ==
  gauge = Cardinality({s \in Sessions : pc[s] \notin {"idle", "done"}})

\* A request counts once in proxy_requests_total, and a session that was
\* routed does not end uncounted.
CountedOnce ==
  [][\A s \in Sessions :
       /\ outcome[s] # "none" => outcome'[s] = outcome[s]
       /\ (pc[s] = "closing" /\ pc'[s] = "done") => outcome[s] # "none"]_vars

\* A request that was dispatched ends, and its replica is released: no lock,
\* counter or marked replica keeps a session waiting for ever.
EverySessionEnds == \A s \in Sessions : pc[s] = "picking" ~> pc[s] = "done"

-----------------------------------------------------------------------------
(* What a comment says, and the code does not do.                          *)

\* deployment_handle.h: the releaser ensures that replicas are always released.
\* With two threads one of two updates of active_requests can be lost.
ActiveIsExact ==
  \A g \in Gens, r \in Replicas : active[g][r] = Cardinality(Holders(g, r))
=============================================================================
