---------------------------- MODULE PyProxy_proofs ----------------------------
(***************************************************************************)
(* Proofs about PyProxy, for any number of replicas, requests, reports and *)
(* routing updates: the outstanding-request counts are exact, and proxy    *)
(* and replicas together implement TokenStream.  Every change of a count   *)
(* is one segment of the event loop, so no thread assumption is needed     *)
(* here, unlike in HttpProxy.                                              *)
(***************************************************************************)
EXTENDS PyProxy, FiniteSetTheorems, SequenceTheorems, TLAPS

\* The part of TypeOK the counts rest on.
CoreTypes ==
  /\ gen \in 0..MaxUpdates
  /\ sub \in {"reading", "applying"}
  /\ replica_cache \in [Gens -> [Replicas -> Nat]]
  /\ at \in [Requests -> Places]
  /\ handle \in [Requests -> 0..MaxUpdates]
  /\ server \in [Requests -> Replicas \union {NoReplica}]

CountsInv == CoreTypes /\ HoldersKnown /\ CountsAreExact

\* The requests a handle has at a replica can be counted.
LEMMA HoldersFinite == \A g, p : IsFiniteSet(Holders(g, p))
<1> SUFFICES ASSUME NEW g, NEW p PROVE IsFiniteSet(Holders(g, p))
  OBVIOUS
<1>1. Holders(g, p) \subseteq Requests
  BY DEF Holders
<1> QED
  BY <1>1, RequestsAssumption, FS_Subset

\* A proxy that has just started holds nothing.
LEMMA InitCounts == Init => CountsInv
<1> SUFFICES ASSUME Init PROVE CountsInv
  OBVIOUS
<1>1. CoreTypes
  BY UpdatesAssumption DEF Init, ReplicaInit, CoreTypes, NoHandle, Places, Gens
<1>2. HoldersKnown
  BY DEF Init, HoldersKnown, Streaming, NoHandle
<1>3. \A g, p : Holders(g, p) = {}
  BY DEF Init, Holders, Streaming
<1>4. CountsAreExact
  BY <1>3, FS_EmptySet DEF Init, CountsAreExact
<1> QED
  BY <1>1, <1>2, <1>4 DEF CountsInv

\* A step that touches no count, handle or server: nobody begins to stream by
\* it, and who holds a handle goes on holding it.
LEMMA NeutralKeeps ==
  ASSUME CountsInv, CoreTypes', UNCHANGED <<gen, replica_cache, handle, server>>,
         sub' = "applying" => sub = "applying" \/ gen < MaxUpdates,
         \A r \in Requests : /\ at'[r] \in Streaming \ {"leaving"} =>
                                  at[r] \in Streaming \ {"leaving"}
                             /\ handle[r] # NoHandle => at'[r] \in Streaming
  PROVE  CountsInv'
<1>1. HoldersKnown'
  BY DEF CountsInv, HoldersKnown
<1>2. \A g \in Gens, p \in Replicas : Holders(g, p)' = Holders(g, p)
  BY DEF CountsInv, HoldersKnown, Holders, NoHandle, Gens
<1>3. CountsAreExact'
  BY <1>2 DEF CountsInv, CountsAreExact
<1> QED
  BY <1>1, <1>3 DEF CountsInv

\* A new handle: nobody can hold it yet, and the others keep their counts.
LEMMA ApplyKeeps ==
  ASSUME CountsInv, apply_routing_update
  PROVE  CountsInv'
<1> USE DEF CountsInv, CoreTypes, HoldersKnown
<1>1. /\ gen' = gen + 1 /\ gen < MaxUpdates /\ gen + 1 \in Gens /\ sub' = "reading"
      /\ replica_cache' = [replica_cache EXCEPT ![gen + 1] = [p \in Replicas |-> 0]]
      /\ UNCHANGED <<at, handle, server>>
  BY UpdatesAssumption DEF apply_routing_update, Gens, session, rvars, serving
<1>2. CoreTypes'
  BY <1>1, UpdatesAssumption
<1>3. HoldersKnown'
  BY <1>1, UpdatesAssumption
<1>4. \A p \in Replicas : Holders(gen + 1, p) = {}
  BY <1>1, UpdatesAssumption DEF Holders, NoHandle
<1>5. \A g \in Gens, p \in Replicas : Holders(g, p)' = Holders(g, p)
  BY <1>1 DEF Holders
<1>6. ASSUME NEW g \in Gens, NEW p \in Replicas
      PROVE  replica_cache'[g][p] = Cardinality(Holders(g, p)')
  <2>1. CASE g = gen + 1
    BY <1>1, <1>4, <1>5, <2>1, FS_EmptySet
  <2>2. CASE g # gen + 1
    BY <1>1, <1>5, <2>2 DEF CountsAreExact
  <2> QED
    BY <2>1, <2>2
<1> QED
  BY <1>2, <1>3, <1>6 DEF CountsAreExact

\* A request is counted and becomes a holder in one step.
LEMMA PickKeeps ==
  ASSUME CountsInv, NEW r \in Requests, NEW p \in Replicas, pick_next_replica(r, p)
  PROVE  CountsInv'
<1> USE DEF CountsInv, CoreTypes, HoldersKnown
<1>1. /\ at[r] \notin Streaming /\ handle[r] = NoHandle
      /\ gen \in Gens /\ gen # NoHandle
  <2>1. at[r] = "waiting" /\ gen # NoHandle
    BY DEF pick_next_replica, Found
  <2>2. at[r] \notin Streaming
    BY <2>1 DEF Streaming
  <2>3. handle[r] = NoHandle
    BY <2>2
  <2>4. gen \in Gens
    BY <2>1, UpdatesAssumption DEF Gens, NoHandle
  <2> QED
    BY <2>1, <2>2, <2>3, <2>4
<1>2. /\ replica_cache' = [replica_cache EXCEPT ![gen][p] = @ + 1]
      /\ handle' = [handle EXCEPT ![r] = gen]
      /\ server' = [server EXCEPT ![r] = p]
      /\ at' = [at EXCEPT ![r] = "streaming"]
      /\ UNCHANGED <<gen, sub>>
  <2> HIDE DEF CountsInv, CoreTypes, HoldersKnown
  <2> QED
    BY DEF pick_next_replica, Goto, table, feed
<1>3. "streaming" \in Places /\ "streaming" \in Streaming
  BY DEF Places, Streaming
<1>4. CoreTypes'
  BY <1>1, <1>2, <1>3, UpdatesAssumption
<1>5. HoldersKnown'
  BY <1>1, <1>2, <1>3, UpdatesAssumption DEF Gens
<1>6. Holders(gen, p)' = Holders(gen, p) \union {r} /\ r \notin Holders(gen, p)
  BY <1>1, <1>2, <1>3 DEF Holders
<1>7. Cardinality(Holders(gen, p)') = Cardinality(Holders(gen, p)) + 1
  BY <1>6, HoldersFinite, FS_AddElement
<1>8. \A g \in Gens, q \in Replicas :
        g # gen \/ q # p => Holders(g, q)' = Holders(g, q)
  BY <1>1, <1>2 DEF Holders
<1>9. CountsAreExact'
  BY <1>1, <1>2, <1>7, <1>8 DEF CountsAreExact
<1> QED
  BY <1>4, <1>5, <1>9

\* A request that holds a handle gives back its count and its place in one step.
LEMMA ReleaseKeeps ==
  ASSUME CountsInv, NEW r \in Requests, handle[r] # NoHandle,
         Hangup(r), Decremented(r), Goto(r, "done"), UNCHANGED <<gen, sub>>
  PROVE  CountsInv'
<1> USE DEF CountsInv, CoreTypes, HoldersKnown
<1>1. PICK g \in Gens, p \in Replicas : g = handle[r] /\ p = server[r] /\ g \in 1..gen
  BY UpdatesAssumption DEF Gens
<1>2. r \in Holders(g, p)
  BY <1>1 DEF Holders
<1>3. /\ Cardinality(Holders(g, p) \ {r}) = Cardinality(Holders(g, p)) - 1
      /\ Cardinality(Holders(g, p)) \in Nat /\ Cardinality(Holders(g, p) \ {r}) \in Nat
  <2>1. IsFiniteSet(Holders(g, p)) /\ IsFiniteSet(Holders(g, p) \ {r})
    BY HoldersFinite, FS_RemoveElement
  <2> QED
    BY <1>2, <2>1, FS_RemoveElement, FS_CardinalityType
<1>4. replica_cache[g][p] = Cardinality(Holders(g, p)) /\ replica_cache[g][p] > 0
  BY <1>3 DEF CountsAreExact
<1>5. /\ replica_cache' = [replica_cache EXCEPT ![g][p] = @ - 1]
      /\ handle' = [handle EXCEPT ![r] = NoHandle]
      /\ server' = [server EXCEPT ![r] = NoReplica]
      /\ at' = [at EXCEPT ![r] = "done"]
  <2> HIDE DEF CountsInv, CoreTypes, HoldersKnown
  <2> QED
    BY <1>1, <1>4 DEF Hangup, Decremented, Goto
<1>6. "done" \in Places /\ "done" \notin Streaming
  BY DEF Places, Streaming, Waiting
<1>7. CoreTypes'
  BY <1>3, <1>4, <1>5, <1>6, UpdatesAssumption DEF NoHandle
<1>8. HoldersKnown'
  BY <1>5, <1>6
<1>9. Holders(g, p)' = Holders(g, p) \ {r}
  BY <1>1, <1>5, <1>6 DEF Holders
<1>10. \A h \in Gens, q \in Replicas :
         h # g \/ q # p => Holders(h, q)' = Holders(h, q)
  BY <1>1, <1>5, <1>6 DEF Holders
<1>11. CountsAreExact'
  BY <1>3, <1>4, <1>5, <1>9, <1>10 DEF CountsAreExact
<1> QED
  BY <1>7, <1>8, <1>11

\* Where a request goes in a step that is neither the pick nor the release.
LEMMA NeutralStep ==
  ASSUME CountsInv, NEW r \in Requests,
         \/ RejectBody(r)
         \/ \E w \in Waiting : handle_process_string_request(r, w)
         \/ NotFound(r) \/ NoRunningReplica(r)
         \/ ReadText(r) \/ ReadError(r) \/ ReadEnd(r) \/ CallBreaks(r)
         \/ Takes(r) \/ Leaves(r)
         \/ aclose(r) /\ handle[r] = NoHandle
  PROVE  CountsInv'
<1> DEFINE Own(l) == /\ at' = [at EXCEPT ![r] = l]
                     /\ l \in Streaming \ {"leaving"} => at[r] \in Streaming \ {"leaving"}
                     /\ handle[r] # NoHandle => l \in Streaming
<1> USE DEF Streaming
<1>1. UNCHANGED <<gen, replica_cache, handle, server, sub>>
  BY DEF RejectBody, handle_process_string_request, NotFound, NoRunningReplica, ReadText,
         ReadError, ReadEnd, Reads, CallBreaks, Takes, TakesChunk, TakesNotFound,
         TakesError, Leaves, aclose, LetsGo, rvars, serving, table, feed
<1>2. \E l \in Places : Own(l)
  <2> USE DEF Goto, Places, Waiting
  <2>0. at[r] \in Places /\ (handle[r] # NoHandle => at[r] \in Streaming)
    BY DEF CountsInv, CoreTypes, HoldersKnown
  <2>1. CASE RejectBody(r) \/ NotFound(r) \/ NoRunningReplica(r)
    BY <2>0, <2>1 DEF RejectBody, NotFound, NoRunningReplica
  <2>2. CASE \E w \in Waiting : handle_process_string_request(r, w)
    BY <2>0, <2>2 DEF handle_process_string_request
  <2>3. CASE ReadText(r)
    <3>1. Own("yielding")
      BY <2>3 DEF ReadText, Reads
    <3> QED
      BY <3>1
  <2>4. CASE ReadError(r) \/ ReadEnd(r) \/ CallBreaks(r)
    <3>1. Own("closing")
      BY <2>4 DEF ReadError, ReadEnd, Reads, CallBreaks
    <3> QED
      BY <3>1
  <2>5. CASE Takes(r)
    BY <2>0, <2>5 DEF Takes, TakesChunk, TakesNotFound, TakesError
  <2>6. CASE Leaves(r)
    BY <2>0, <2>6 DEF Leaves
  <2>7. CASE aclose(r) /\ handle[r] = NoHandle
    BY <2>7 DEF aclose
  <2> QED
    BY <2>1, <2>2, <2>3, <2>4, <2>5, <2>6, <2>7
<1>3. PICK l \in Places : Own(l)
  BY <1>2
<1>4. CoreTypes'
  BY <1>1, <1>3 DEF CountsInv, CoreTypes
<1>5. \A t \in Requests : /\ at'[t] \in Streaming \ {"leaving"} =>
                                  at[t] \in Streaming \ {"leaving"}
                          /\ handle[t] # NoHandle => at'[t] \in Streaming
  BY <1>3 DEF CountsInv, CoreTypes, HoldersKnown
<1> QED
  BY <1>1, <1>4, <1>5, NeutralKeeps

\* Every step of proxy, clients and replicas.
LEMMA CountsStep == CountsInv /\ [Next]_vars => CountsInv'
<1> SUFFICES ASSUME CountsInv, [Next]_vars PROVE CountsInv'
  OBVIOUS
<1>1. ASSUME UNCHANGED <<gen, replica_cache, handle, server, at, sub>>
      PROVE  CountsInv'
  BY <1>1 DEF CountsInv, CoreTypes, HoldersKnown, CountsAreExact, Holders
<1>2. ASSUME NEW R \in SUBSET Replicas, ReadUpdate(R)
      PROVE  CountsInv'
  <2>1. /\ UNCHANGED <<gen, replica_cache, handle, server, at>>
        /\ gen < MaxUpdates /\ sub' = "applying"
    BY <1>2 DEF ReadUpdate, table, session, rvars, serving
  <2> QED
    BY <2>1 DEF CountsInv, CoreTypes, HoldersKnown, CountsAreExact, Holders
<1>3. ASSUME NEW r \in Requests, ChannelClosed(r)
      PROVE  CountsInv'
  <2>1. handle[r] # NoHandle
    BY <1>3 DEF ChannelClosed, CountsInv, HoldersKnown, Streaming
  <2>2. Hangup(r) /\ Decremented(r) /\ Goto(r, "done") /\ UNCHANGED <<gen, sub>>
    BY <1>3 DEF ChannelClosed, table, feed
  <2> QED
    BY <2>1, <2>2, ReleaseKeeps
<1>4. ASSUME NEW p \in Replicas, ReplicaMain(p), UNCHANGED pvars
      PROVE  CountsInv'
  BY <1>1, <1>4 DEF ReplicaMain, init_model, register_replica, send_with_retries_async, Exit,
       serving, pvars, table, feed, session
<1>5. ASSUME NEW r \in Requests, SendRequestStep(r), UNCHANGED pvars
      PROVE  CountsInv'
  <2>1. UNCHANGED server
    BY <1>5 DEF SendRequestStep, SendRequest, EngineReports, YieldReturns, EngineRaises
  <2> QED
    BY <1>1, <1>5, <2>1 DEF pvars, table, feed, session
<1>6. ASSUME NEW r \in Requests, Dispatch(r)
      PROVE  CountsInv'
  BY <1>6, PickKeeps, NeutralStep DEF Dispatch
<1>7. ASSUME NEW r \in Requests, Attempt(r)
      PROVE  CountsInv'
  <2>1. CASE ReadText(r) \/ ReadError(r) \/ ReadEnd(r)
    BY <2>1, NeutralStep
  <2>2. ASSUME aclose(r)
        PROVE  CountsInv'
    <3>1. CASE handle[r] = NoHandle
      BY <2>2, <3>1, NeutralStep
    <3>2. CASE handle[r] # NoHandle
      <4>1. Hangup(r) /\ Decremented(r) /\ Goto(r, "done") /\ UNCHANGED <<gen, sub>>
        BY <2>2, <3>2 DEF aclose, LetsGo, table, feed
      <4> QED
        BY <3>2, <4>1, ReleaseKeeps
    <3> QED
      BY <3>1, <3>2
  <2> QED
    BY <1>3, <1>7, <2>1, <2>2 DEF Attempt
<1>8. CASE UNCHANGED vars
  BY <1>1, <1>8 DEF vars, pvars, rvars, serving, table, feed, session
<1> QED
  BY <1>2, <1>4, <1>5, <1>6, <1>7, <1>8, ApplyKeeps, NeutralStep DEF Next

\* CountsInv holds in every reachable state of the Python data plane.
THEOREM PyInvariant == Spec => []CountsInv
  BY InitCounts, CountsStep, PTL DEF Spec

\* The load the Python proxy balances by is exact: whatever fails, whoever leaves
\* and however often the table is replaced, a count neither leaks nor is lost.
THEOREM PyCounting == Spec => []CountsAreExact
<1>1. CountsInv => CountsAreExact
  BY DEF CountsInv
<1> QED
  BY <1>1, PyInvariant, PTL

-----------------------------------------------------------------------------
(* Type correctness.                                                       *)

\* The other part of TypeOK.
OtherTypes ==
  /\ life \in [Replicas -> {"loading", "serving", "registered", "exited"}]
  /\ engine \in [Replicas -> {"missing", "loaded"}]
  /\ attempt \in [Replicas -> 1..NumAttempts]
  /\ call \in [Requests -> CallStates]
  /\ text \in [Requests -> 0..MaxReports]
  /\ finished \in [Requests -> {"no", "yes"}]
  /\ sent_position \in [Requests -> 0..MaxReports]
  /\ reports \in [Requests -> 0..MaxReports]
  /\ wire \in [Requests -> Seq(Reply)]
  /\ listed \in [Gens -> SUBSET Replicas]
  /\ owner \in Requests \union {Free}
  /\ waiters \in Seq(Requests \union {Subscriber})
  /\ update \subseteq Replicas
  /\ chunk \in [Requests -> Reply]
  /\ received \in [Requests -> Seq(Nat)]
  /\ ended \in [Requests -> {"open", "returned", "raised"}]
  /\ outcome \in [Requests -> {"none", "success", "error"}]

\* The two parts are TypeOK.
LEMMA TypeParts == TypeOK <=> CoreTypes /\ OtherTypes
  BY DEF TypeOK, ReplicaTypeOK, CoreTypes, OtherTypes

\* What is put on the wire and taken from it are replies.
LEMMA ReplyTypes ==
  /\ Error \in Reply /\ End \in Reply
  /\ \A a, b \in 0..MaxReports : Text(a, b) \in Reply
  BY ReplicaAssumption DEF Error, End, Text, Reply

\* The characters of a slice are numbers, and a slice is a sequence.
LEMMA SliceType ==
  ASSUME NEW c \in Reply
  PROVE  Slice(c) \in Seq(Nat)
<1>1. c.from \in Nat /\ c.to \in Nat
  BY ReplicaAssumption DEF Reply
<1>2. CASE c.from <= c.to
  <2>1. c.to - c.from \in Nat
    BY <1>1, <1>2
  <2>2. \A i \in 1..(c.to - c.from) : c.from + i \in Nat
    BY <1>1
  <2> QED BY <2>1, <2>2 DEF Slice
<1>3. CASE ~(c.from <= c.to)
  <2>1. 1..(c.to - c.from) = 1..0
    BY <1>1, <1>3
  <2>2. Slice(c) \in [1..0 -> Nat]
    BY <2>1 DEF Slice
  <2> QED BY <2>2
<1> QED BY <1>2, <1>3

\* The places in the queue for the lock.
LEMMA QueueTypes ==
  ASSUME OtherTypes
  PROVE  /\ \A x \in Requests \union {Subscriber} :
              Append(waiters, x) \in Seq(Requests \union {Subscriber})
         /\ \A x : Turn(x) => waiters' \in Seq(Requests \union {Subscriber})
         /\ \A x : StopsWaiting(x) => waiters' \in Seq(Requests \union {Subscriber})
<1> DEFINE W == Requests \union {Subscriber}
<1>0. waiters \in Seq(W)
  BY DEF OtherTypes
<1> HIDE DEF W
<1>1. \A x \in W : Append(waiters, x) \in Seq(W)
  BY <1>0
<1>2. ASSUME NEW x, Turn(x) PROVE waiters' \in Seq(W)
  BY <1>0, <1>2 DEF Turn
<1>3. ASSUME NEW x, StopsWaiting(x) PROVE waiters' \in Seq(W)
  <2>1. \A i \in DOMAIN waiters :
          SubSeq(waiters, 1, i - 1) \o SubSeq(waiters, i + 1, Len(waiters)) \in Seq(W)
    BY <1>0
  <2> QED BY <1>0, <1>3, <2>1 DEF StopsWaiting
<1> QED BY <1>1, <1>2, <1>3 DEF W

\* Steps of the proxy and of the clients of request r.
LEMMA ProxyTypes ==
  ASSUME OtherTypes, CoreTypes, NEW r \in Requests,
         \/ RejectBody(r)
         \/ \E w \in Waiting : handle_process_string_request(r, w)
         \/ Dispatch(r) \/ Attempt(r) \/ CallBreaks(r) \/ Takes(r) \/ Leaves(r)
  PROVE  OtherTypes'
<1> DEFINE W == Requests \union {Subscriber}
<1> USE DEF Goto, EndsAs, Counted, table, lock, feed, session, rvars, process, serving
<1>1. CASE RejectBody(r) \/ CallBreaks(r) \/ TakesError(r) \/ TakesNotFound(r)
  <2>1. /\ ended' = ended \/ ended' = [ended EXCEPT ![r] = "raised"]
        /\ owner' \in {owner, Free}
        /\ UNCHANGED <<rvars, table, waiters, update, chunk, received, outcome>>
    BY <1>1 DEF RejectBody, CallBreaks, TakesError, TakesNotFound
  <2>2. ended' \in [Requests -> {"open", "returned", "raised"}]
    BY <2>1 DEF OtherTypes
  <2> QED BY <2>1, <2>2 DEF OtherTypes
<1>2. CASE \E w \in Waiting : handle_process_string_request(r, w)
  <2>1. Append(waiters, r) \in Seq(W)
    BY QueueTypes
  <2>2. /\ waiters' = Append(waiters, r)
        /\ UNCHANGED <<rvars, table, owner, update, chunk, received, ended, outcome>>
    BY <1>2 DEF handle_process_string_request
  <2> QED BY <2>1, <2>2 DEF OtherTypes
<1>3. CASE Dispatch(r)
  <2>1. waiters' \in Seq(W)
    BY <1>3, QueueTypes DEF Dispatch, NotFound, NoRunningReplica, pick_next_replica
  <2>2. CASE NotFound(r)
    BY <2>1, <2>2 DEF OtherTypes, NotFound
  <2>3. CASE NoRunningReplica(r)
    BY <2>1, <2>3 DEF OtherTypes, NoRunningReplica
  <2>4. ASSUME NEW p \in Replicas, pick_next_replica(r, p) PROVE OtherTypes'
    BY <2>1, <2>4 DEF OtherTypes, pick_next_replica, CallStates
  <2> QED BY <1>3, <2>2, <2>3, <2>4 DEF Dispatch
<1>4. CASE ReadText(r) \/ ReadError(r) \/ ReadEnd(r)
  <2>1. /\ wire' = [wire EXCEPT ![r] = Tail(wire[r])] /\ wire[r] # <<>>
        /\ chunk' = [chunk EXCEPT ![r] = Head(wire[r])] \/ UNCHANGED chunk
        /\ \/ \E e \in {"returned", "raised"} : ended' = [ended EXCEPT ![r] = e]
           \/ UNCHANGED ended
        /\ UNCHANGED <<life, engine, attempt, call, text, finished, sent_position, reports,
                       listed, owner, waiters, update, received, outcome>>
    BY <1>4 DEF ReadText, ReadError, ReadEnd, Reads
  <2>2. Head(wire[r]) \in Reply /\ Tail(wire[r]) \in Seq(Reply)
    <3>1. wire[r] \in Seq(Reply)
      BY DEF OtherTypes
    <3> QED BY <2>1, <3>1
  <2>3. wire' \in [Requests -> Seq(Reply)] /\ chunk' \in [Requests -> Reply]
    BY <2>1, <2>2 DEF OtherTypes
  <2>4. ended' \in [Requests -> {"open", "returned", "raised"}]
    BY <2>1 DEF OtherTypes
  <2> QED BY <2>1, <2>3, <2>4 DEF OtherTypes
<1>5. ASSUME Hangup(r),
             UNCHANGED <<listed, waiters, update, chunk, received, ended>>,
             owner' \in {owner, Free},
             outcome' = [outcome EXCEPT ![r] = "success"] \/ UNCHANGED outcome
      PROVE  OtherTypes'
  <2>1. /\ call' = [call EXCEPT ![r] = "over"]
        /\ wire' = [wire EXCEPT ![r] = <<>>]
        /\ sent_position' = [sent_position EXCEPT ![r] = 0]
        /\ reports' = [reports EXCEPT ![r] = 0]
        /\ UNCHANGED <<life, engine, attempt, text, finished>>
    BY <1>5 DEF Hangup, Goes
  <2>2. <<>> \in Seq(Reply) /\ 0 \in 0..MaxReports /\ "over" \in CallStates
    BY ReplicaAssumption DEF CallStates
  <2> QED BY <1>5, <2>1, <2>2 DEF OtherTypes
<1>6. CASE ChannelClosed(r)
  BY <1>5, <1>6 DEF ChannelClosed
<1>7. CASE aclose(r)
  <2>1. owner' \in {owner, Free} /\ UNCHANGED <<listed, waiters, update, chunk, received, ended, outcome>>
    BY <1>7 DEF aclose
  <2>2. CASE UNCHANGED rvars
    BY <2>1, <2>2 DEF OtherTypes
  <2>3. CASE Hangup(r)
    BY <1>5, <2>1, <2>3
  <2> QED BY <1>7, <2>2, <2>3 DEF aclose, LetsGo
<1>8. CASE TakesChunk(r)
  <2>1. /\ received' = [received EXCEPT ![r] = received[r] \o Slice(chunk[r])]
        /\ chunk' = [chunk EXCEPT ![r] = End]
        /\ UNCHANGED <<rvars, table, owner, waiters, update, ended, outcome>>
    BY <1>8 DEF TakesChunk
  <2>2. received[r] \o Slice(chunk[r]) \in Seq(Nat) /\ End \in Reply
    <3>1. received[r] \in Seq(Nat) /\ chunk[r] \in Reply
      BY DEF OtherTypes
    <3> QED BY <3>1, SliceType, ReplyTypes
  <2> QED BY <2>1, <2>2 DEF OtherTypes
<1>9. CASE Leaves(r)
  <2>1. waiters' \in Seq(W)
    BY <1>9, QueueTypes DEF Leaves
  <2> QED BY <1>9, <2>1 DEF OtherTypes, Leaves
<1> QED
  BY <1>1, <1>2, <1>3, <1>4, <1>6, <1>7, <1>8, <1>9 DEF Attempt, Takes

\* Steps of SendRequest.
LEMMA CallTypes ==
  ASSUME OtherTypes, NEW r \in Requests, SendRequestStep(r), UNCHANGED pvars
  PROVE  OtherTypes'
<1> USE ReplyTypes, ReplicaAssumption DEF Goes
<1>0. UNCHANGED <<life, engine, attempt, listed, owner, waiters, update, chunk, received,
                  ended, outcome>>
  BY DEF SendRequestStep, SendRequest, EngineReports, YieldReturns, EngineRaises, process,
         pvars, table, lock, feed, session
<1>1. \A reply \in Reply : Puts(r, reply) => wire' \in [Requests -> Seq(Reply)]
  <2>1. wire \in [Requests -> Seq(Reply)]
    BY DEF OtherTypes
  <2>2. \A reply \in Reply : Append(wire[r], reply) \in Seq(Reply)
    BY <2>1
  <2> QED BY <2>1, <2>2 DEF Puts
<1>2. CASE SendRequest(r) \/ EngineRaises(r)
  <2>1. wire' \in [Requests -> Seq(Reply)]
    BY <1>1, <1>2 DEF SendRequest, EngineRaises, Raises, OtherTypes
  <2>2. \/ call' = [call EXCEPT ![r] = "generating"]
        \/ call' = [call EXCEPT ![r] = "over"]
    BY <1>2 DEF SendRequest, EngineRaises, Raises
  <2>3. UNCHANGED <<text, finished, sent_position, reports>>
    BY <1>2 DEF SendRequest, EngineRaises
  <2> QED BY <1>0, <2>1, <2>2, <2>3 DEF OtherTypes, CallStates
<1>3. ASSUME NEW n \in 0..MaxReports, NEW f \in {"no", "yes"}, EngineReports(r, n, f)
      PROVE  OtherTypes'
  <2>1. new_text(r, n) \in Reply
    BY DEF OtherTypes, new_text
  <2>2. wire' \in [Requests -> Seq(Reply)]
    BY <1>1, <1>3, <2>1 DEF EngineReports
  <2>3. \/ call' = [call EXCEPT ![r] = "yielding"]
        \/ call' = [call EXCEPT ![r] = "over"]
    BY <1>3 DEF EngineReports
  <2>4. /\ text' = [text EXCEPT ![r] = n]
        /\ finished' = [finished EXCEPT ![r] = f]
        /\ reports' = [reports EXCEPT ![r] = @ + 1] /\ reports[r] < MaxReports
        /\ UNCHANGED sent_position
    BY <1>3 DEF EngineReports
  <2>5. reports[r] + 1 \in 0..MaxReports
    <3>1. reports[r] \in 0..MaxReports /\ reports[r] < MaxReports
      BY <2>4 DEF OtherTypes
    <3> QED BY <3>1
  <2> QED BY <1>0, <2>2, <2>3, <2>4, <2>5 DEF OtherTypes, CallStates
<1>4. CASE YieldReturns(r)
  <2>1. wire' \in [Requests -> Seq(Reply)]
    BY <1>1, <1>4 DEF YieldReturns, OtherTypes
  <2>2. \/ call' = [call EXCEPT ![r] = "generating"]
        \/ call' = [call EXCEPT ![r] = "over"]
    BY <1>4 DEF YieldReturns
  <2>3. /\ sent_position' = [sent_position EXCEPT ![r] = text[r]]
        /\ UNCHANGED <<text, finished, reports>>
    BY <1>4 DEF YieldReturns
  <2> QED BY <1>0, <2>1, <2>2, <2>3 DEF OtherTypes, CallStates
<1> QED BY <1>2, <1>3, <1>4 DEF SendRequestStep

\* Steps of main.
LEMMA MainTypes ==
  ASSUME OtherTypes, NEW p \in Replicas, ReplicaMain(p), UNCHANGED pvars
  PROVE  OtherTypes'
<1>0. UNCHANGED <<call, text, finished, sent_position, reports, wire, listed, owner, waiters,
                  update, chunk, received, ended, outcome>>
  BY DEF ReplicaMain, init_model, register_replica, send_with_retries_async, Exit, serving,
         pvars, table, lock, feed, session
<1>1. /\ life' \in [Replicas -> {"loading", "serving", "registered", "exited"}]
      /\ engine' \in [Replicas -> {"missing", "loaded"}]
      /\ attempt' \in [Replicas -> 1..NumAttempts]
  <2> USE ReplicaAssumption DEF OtherTypes
  <2>1. CASE \E e \in {"missing", "loaded"} : init_model(p, e)
    BY <2>1 DEF init_model
  <2>2. CASE register_replica(p) \/ Exit(p)
    BY <2>2 DEF register_replica, Exit
  <2>3. CASE send_with_retries_async(p)
    BY <2>3 DEF send_with_retries_async
  <2> QED BY <2>1, <2>2, <2>3 DEF ReplicaMain
<1> QED BY <1>0, <1>1 DEF OtherTypes

\* Every step of the data plane keeps the types.
LEMMA OtherTypesStep == OtherTypes /\ CountsInv /\ [Next]_vars => OtherTypes'
<1> SUFFICES ASSUME OtherTypes, CountsInv, [Next]_vars PROVE OtherTypes'
  OBVIOUS
<1>0. CoreTypes /\ HoldersKnown
  BY DEF CountsInv
<1>1. ASSUME NEW R \in SUBSET Replicas, ReadUpdate(R) PROVE OtherTypes'
  <2>1. Append(waiters, Subscriber) \in Seq(Requests \union {Subscriber})
    BY QueueTypes
  <2>2. /\ update' = R /\ waiters' = Append(waiters, Subscriber)
        /\ UNCHANGED <<rvars, listed, owner, session>>
    BY <1>1 DEF ReadUpdate, table
  <2> QED BY <2>1, <2>2 DEF OtherTypes, rvars, process, serving, session
<1>2. CASE apply_routing_update
  <2>1. waiters' \in Seq(Requests \union {Subscriber})
    BY <1>2, QueueTypes DEF apply_routing_update
  <2>2. /\ listed' = [listed EXCEPT ![gen + 1] = update] /\ update' = {}
        /\ UNCHANGED <<rvars, owner, session>>
    BY <1>2 DEF apply_routing_update
  <2> QED BY <2>1, <2>2 DEF OtherTypes, rvars, process, serving, session
<1>3. ASSUME NEW r \in Requests,
             \/ RejectBody(r)
             \/ \E w \in Waiting : handle_process_string_request(r, w)
             \/ Dispatch(r) \/ Attempt(r) \/ CallBreaks(r) \/ Takes(r) \/ Leaves(r)
      PROVE  OtherTypes'
  BY <1>0, <1>3, ProxyTypes
<1>4. ASSUME NEW p \in Replicas, ReplicaMain(p), UNCHANGED pvars PROVE OtherTypes'
  BY <1>4, MainTypes
<1>5. ASSUME NEW r \in Requests, SendRequestStep(r), UNCHANGED pvars PROVE OtherTypes'
  BY <1>5, CallTypes
<1>6. CASE UNCHANGED vars
  BY <1>6 DEF OtherTypes, vars, rvars, process, serving, pvars, table, lock, feed, session
<1> QED BY <1>1, <1>2, <1>3, <1>4, <1>5, <1>6 DEF Next

\* The Python data plane is type correct.  In particular no count falls below
\* zero, and the number of a handle stays within those there are.
THEOREM PyTypes == Spec => []TypeOK
<1>1. Init => OtherTypes
  BY ReplyTypes, ReplicaAssumption
     DEF Init, ReplicaInit, OtherTypes, CallStates, Free, Gens
<1>2. CountsInv /\ OtherTypes => TypeOK
  BY TypeParts DEF CountsInv
<1> QED BY <1>1, <1>2, OtherTypesStep, PyInvariant, PTL DEF Spec

-----------------------------------------------------------------------------
(* Texts as numbers.                                                       *)

\* The text of length n, what it begins with and how it goes on.
LEMMA WholeText ==
  ASSUME NEW n \in Nat
  PROVE  Whole(n) \in Seq(Nat) /\ Len(Whole(n)) = n /\ \A i \in 1..n : Whole(n)[i] = i
  BY DEF Whole

\* A shorter text is a prefix of a longer one.
LEMMA WholePrefix ==
  ASSUME NEW m \in Nat, NEW n \in Nat, m <= n
  PROVE  Stream!IsPrefix(Whole(m), Whole(n))
<1>1. /\ Whole(m) \in Seq(Nat) /\ Len(Whole(m)) = m
      /\ Whole(n) \in Seq(Nat) /\ Len(Whole(n)) = n
      /\ \A i \in 1..m : Whole(m)[i] = i /\ Whole(n)[i] = i
  BY WholeText
<1>2. SubSeq(Whole(m), 1, m) = SubSeq(Whole(n), 1, m)
  <2>1. SubSeq(Whole(m), 1, m) = [i \in 1..m |-> Whole(m)[i]]
    BY <1>1
  <2>2. SubSeq(Whole(n), 1, m) = [i \in 1..m |-> Whole(n)[i]]
    BY <1>1
  <2> HIDE DEF Whole
  <2> QED BY <1>1, <2>1, <2>2
<1> QED BY <1>1, <1>2 DEF Stream!IsPrefix

\* A text and the slice that follows it make the longer text.
LEMMA WholeThenSlice ==
  ASSUME NEW c \in Reply, c.from <= c.to
  PROVE  Whole(c.from) \o Slice(c) = Whole(c.to)
<1> DEFINE m == c.from
           n == c.to
           s == Whole(c.from)
           t == Slice(c)
<1>1. m \in Nat /\ n \in Nat /\ m <= n /\ n - m \in Nat
  BY ReplicaAssumption DEF Reply
<1>2. s \in Seq(Nat) /\ Len(s) = m /\ \A i \in 1..m : s[i] = i
  BY <1>1, WholeText
<1>3. t \in Seq(Nat) /\ Len(t) = n - m /\ \A i \in 1..(n - m) : t[i] = m + i
  BY <1>1, SliceType DEF Slice
<1>4. Whole(n) = [i \in 1..n |-> i]
  BY DEF Whole
<1> HIDE DEF m, n, s, t
<1>5. /\ s \o t \in Seq(Nat) /\ Len(s \o t) = n
      /\ \A i \in 1..n : (s \o t)[i] = IF i <= m THEN s[i] ELSE t[i - m]
  <2>1. /\ s \o t \in Seq(Nat) /\ Len(s \o t) = Len(s) + Len(t)
        /\ \A i \in 1..(Len(s) + Len(t)) :
             (s \o t)[i] = IF i <= Len(s) THEN s[i] ELSE t[i - Len(s)]
    BY <1>2, <1>3, ConcatProperties
  <2>2. Len(s) + Len(t) = n
    BY <1>1, <1>2, <1>3
  <2> QED BY <1>2, <2>1, <2>2
<1>6. \A i \in 1..n : (s \o t)[i] = i
  <2> SUFFICES ASSUME NEW i \in 1..n PROVE (s \o t)[i] = i
    OBVIOUS
  <2>1. CASE i <= m
    <3>1. i \in 1..m
      BY <1>1, <2>1
    <3> QED BY <1>2, <1>5, <2>1, <3>1
  <2>2. CASE ~(i <= m)
    <3>1. i - m \in 1..(n - m) /\ m + (i - m) = i
      BY <1>1, <2>2
    <3>2. (s \o t)[i] = t[i - m]
      BY <1>5, <2>2
    <3> QED BY <1>3, <3>1, <3>2
  <2> QED BY <2>1, <2>2
<1>7. s \o t = [i \in 1..n |-> i]
  <2> DEFINE j == s \o t
  <2>1. j \in Seq(Nat) /\ Len(j) = n /\ \A i \in 1..n : j[i] = i
    BY <1>5, <1>6
  <2> HIDE DEF j
  <2>2. j = [i \in 1..n |-> i]
    BY <2>1
  <2> QED BY <2>2 DEF j
<1>8. s \o t = Whole(n)
  BY <1>4, <1>7
<1> QED BY <1>8 DEF m, n, s, t

-----------------------------------------------------------------------------
(* From the engine to the client.                                          *)

\* Where no call has been made yet, and where the attempt has no end yet.
Before == {"idle", "missing", "failing"} \union Waiting
OpenPlaces == {"idle", "missing", "streaming", "yielding"} \union Waiting

\* An attempt has an end once its generator is through with the replica.
EndedWhenOver(r) == ended[r] = "open" <=> at[r] \in OpenPlaces

\* What SendRequest has done so far, whoever still listens.
CallSoFar(r) ==
  /\ at[r] \in Before => call[r] = "none" /\ wire[r] = <<>> /\ received[r] = <<>>
  /\ call[r] \in {"none", "sent"} => text[r] = 0 /\ sent_position[r] = 0
  /\ call[r] \in {"none", "sent", "generating"} => finished[r] = "no"
  /\ call[r] = "generating" => sent_position[r] = text[r]

\* Up to where the client has the text once it took the chunk it is offered, and
\* once it took the first i replies on the wire.
Taken(r) == IF at[r] = "yielding" THEN chunk[r].to ELSE Len(received[r])
UpTo(r, i) ==
  IF i = 0 THEN Taken(r)
  ELSE IF wire[r][i].kind = "text" THEN wire[r][i].to ELSE text[r]

\* The replies of a call that is listened to: every slice begins where the one
\* before it ended, they cover the text, and nothing follows an end or an error.
Replies(r) ==
  /\ \A i \in DOMAIN wire[r] : wire[r][i].kind = "text" =>
       /\ wire[r][i].from = UpTo(r, i - 1)
       /\ wire[r][i].from <= wire[r][i].to /\ wire[r][i].to <= text[r]
  /\ \A i \in DOMAIN wire[r] : wire[r][i].kind # "text" =>
       i = Len(wire[r]) /\ UpTo(r, i - 1) = text[r] /\ call[r] = "over"
  /\ \A i \in DOMAIN wire[r] : wire[r][i].kind = "end" => finished[r] = "yes"
  /\ UpTo(r, Len(wire[r])) = text[r]

\* What the client has is a whole text, and the chunk it is offered goes on there.
Client(r) ==
  /\ received[r] = Whole(Len(received[r])) /\ Len(received[r]) <= text[r]
  /\ at[r] = "yielding" =>
       /\ chunk[r].from = Len(received[r])
       /\ chunk[r].from <= chunk[r].to /\ chunk[r].to <= text[r]

OneText(r) ==
  /\ EndedWhenOver(r)
  /\ CallSoFar(r)
  /\ at[r] \in {"streaming", "yielding"} => Replies(r) /\ Client(r)

TextInv == \A r \in Requests : OneText(r)

\* A step that leaves a request alone.
Untouched(r) ==
  /\ at'[r] = at[r] /\ ended'[r] = ended[r] /\ received'[r] = received[r]
  /\ chunk'[r] = chunk[r] /\ wire'[r] = wire[r] /\ call'[r] = call[r]
  /\ text'[r] = text[r] /\ finished'[r] = finished[r]
  /\ sent_position'[r] = sent_position[r]

\* What is known of a request stays true while nobody touches it.
LEMMA UntouchedKeeps ==
  ASSUME NEW r \in Requests, Untouched(r), OneText(r)
  PROVE  OneText(r)'
<1>1. EndedWhenOver(r)' /\ CallSoFar(r)'
  BY DEF Untouched, OneText, EndedWhenOver, CallSoFar
<1>2. \A i : UpTo(r, i)' = UpTo(r, i)
  BY DEF Untouched, UpTo, Taken
<1>3. at[r] \in {"streaming", "yielding"} => Replies(r)' /\ Client(r)'
  BY <1>2 DEF Untouched, OneText, Replies, Client
<1> QED BY <1>1, <1>3 DEF Untouched, OneText

\* Every step is one for a single request, or touches none.
ProxyStep(r) ==
  \/ RejectBody(r)
  \/ \E w \in Waiting : handle_process_string_request(r, w)
  \/ Dispatch(r) \/ Attempt(r) \/ CallBreaks(r) \/ Takes(r) \/ Leaves(r)

StepOf(r) == ProxyStep(r) \/ (SendRequestStep(r) /\ UNCHANGED pvars)

\* Requests share the lock, the table and the counts, and nothing of their texts.
LEMMA OthersUntouched ==
  ASSUME TypeOK, NEW r \in Requests, StepOf(r), NEW o \in Requests, o # r
  PROVE  Untouched(o)
<1> USE DEF Untouched, Goto, EndsAs, Counted, table, lock, feed, session, rvars, process, serving
<1>0. /\ at \in [Requests -> Places] /\ wire \in [Requests -> Seq(Reply)]
      /\ call \in [Requests -> CallStates]
      /\ received \in [Requests -> Seq(Nat)] /\ chunk \in [Requests -> Reply]
      /\ ended \in [Requests -> {"open", "returned", "raised"}]
      /\ text \in [Requests -> 0..MaxReports]
      /\ sent_position \in [Requests -> 0..MaxReports]
      /\ finished \in [Requests -> {"no", "yes"}]
  BY DEF TypeOK, ReplicaTypeOK
<1>1. CASE RejectBody(r) \/ CallBreaks(r) \/ TakesError(r) \/ TakesNotFound(r) \/ Leaves(r)
  BY <1>0, <1>1 DEF RejectBody, CallBreaks, TakesError, TakesNotFound, Leaves
<1>2. CASE \E w \in Waiting : handle_process_string_request(r, w)
  BY <1>0, <1>2 DEF handle_process_string_request
<1>3. CASE Dispatch(r)
  BY <1>0, <1>3 DEF Dispatch, NotFound, NoRunningReplica, pick_next_replica
<1>4. CASE ReadText(r) \/ ReadError(r) \/ ReadEnd(r)
  BY <1>0, <1>4 DEF ReadText, ReadError, ReadEnd, Reads
<1>5. CASE ChannelClosed(r) \/ aclose(r)
  BY <1>0, <1>5 DEF ChannelClosed, aclose, LetsGo, Hangup, Goes
<1>6. CASE TakesChunk(r)
  BY <1>0, <1>6 DEF TakesChunk
<1>7. CASE SendRequestStep(r) /\ UNCHANGED pvars
  BY <1>0, <1>7 DEF SendRequestStep, SendRequest, EngineReports, YieldReturns, EngineRaises,
                    Raises, Puts, Goes, pvars
<1> QED
  BY <1>1, <1>2, <1>3, <1>4, <1>5, <1>6, <1>7 DEF StepOf, ProxyStep, Attempt, Takes

\* The subscriber, main and a stutter touch no request.
LEMMA RestUntouched ==
  ASSUME [Next]_vars, ~ \E r \in Requests : StepOf(r), NEW o \in Requests
  PROVE  Untouched(o)
<1> USE DEF Untouched, table, lock, feed, session, rvars, process, serving, pvars
<1>1. ASSUME NEW R \in SUBSET Replicas, ReadUpdate(R) PROVE Untouched(o)
  BY <1>1 DEF ReadUpdate
<1>2. CASE apply_routing_update
  BY <1>2 DEF apply_routing_update
<1>3. ASSUME NEW p \in Replicas, ReplicaMain(p), UNCHANGED pvars PROVE Untouched(o)
  BY <1>3 DEF ReplicaMain, init_model, register_replica, send_with_retries_async, Exit
<1>4. CASE UNCHANGED vars
  BY <1>4 DEF vars
<1> QED BY <1>1, <1>2, <1>3, <1>4 DEF Next, StepOf, ProxyStep

\* The types of what the lemmas below read for request r.
Read(r) ==
  /\ wire[r] \in Seq(Reply) /\ chunk[r] \in Reply /\ received[r] \in Seq(Nat)
  /\ text[r] \in Nat /\ Len(wire[r]) \in Nat /\ DOMAIN wire[r] = 1..Len(wire[r])
  /\ Len(received[r]) \in Nat /\ chunk[r].from \in Nat /\ chunk[r].to \in Nat
  /\ \A i \in DOMAIN wire[r] : wire[r][i] \in Reply /\ wire[r][i].to \in Nat

\* They follow from TypeOK, before a step and after it.
LEMMA ReadTypes ==
  ASSUME NEW r \in Requests
  PROVE  (TypeOK => Read(r)) /\ (TypeOK' => Read(r)')
<1>1. \A w \in Seq(Reply), c \in Reply, s \in Seq(Nat) :
        /\ Len(w) \in Nat /\ DOMAIN w = 1..Len(w) /\ Len(s) \in Nat
        /\ c.from \in Nat /\ c.to \in Nat
        /\ \A i \in DOMAIN w : w[i] \in Reply /\ w[i].to \in Nat
  <2>1. \A c \in Reply : c.from \in Nat /\ c.to \in Nat
    BY ReplicaAssumption DEF Reply
  <2>2. \A w \in Seq(Reply) : /\ Len(w) \in Nat /\ DOMAIN w = 1..Len(w)
                              /\ \A i \in DOMAIN w : w[i] \in Reply
    OBVIOUS
  <2>3. \A s \in Seq(Nat) : Len(s) \in Nat
    OBVIOUS
  <2> QED BY <2>1, <2>2, <2>3
<1>2. TypeOK => Read(r)
  <2>1. TypeOK => /\ wire[r] \in Seq(Reply) /\ chunk[r] \in Reply /\ received[r] \in Seq(Nat)
                  /\ text[r] \in Nat
    BY ReplicaAssumption DEF TypeOK, ReplicaTypeOK
  <2> QED BY <1>1, <2>1 DEF Read
<1>3. TypeOK' => Read(r)'
  <2>1. TypeOK' => /\ wire'[r] \in Seq(Reply) /\ chunk'[r] \in Reply
                   /\ received'[r] \in Seq(Nat) /\ text'[r] \in Nat
    BY ReplicaAssumption DEF TypeOK, ReplicaTypeOK
  <2> QED BY <1>1, <2>1 DEF Read
<1> QED BY <1>2, <1>3

\* Before its end a call has put nothing but text on the wire.
LEMMA TextsOnly ==
  ASSUME NEW r \in Requests, Replies(r), call[r] # "over"
  PROVE  \A i \in DOMAIN wire[r] : wire[r][i].kind = "text"
  BY DEF Replies

\* SendRequest puts a reply: the slice from where the text was to where it is, or
\* the end of a text that is all there.
LEMMA ReplyPut ==
  ASSUME NEW r \in Requests, Read(r), Read(r)', Replies(r), call[r] # "over",
         NEW reply \in Reply, wire'[r] = Append(wire[r], reply),
         at'[r] = at[r], chunk'[r] = chunk[r], received'[r] = received[r],
         text[r] <= text'[r],
         reply.kind = "text" => reply.from = text[r] /\ reply.to = text'[r],
         reply.kind # "text" => text'[r] = text[r] /\ call'[r] = "over",
         reply.kind = "end" => finished'[r] = "yes"
  PROVE  Replies(r)'
<1>0. PICK L \in Nat : L = Len(wire[r])
  BY DEF Read
<1>1. /\ L \in Nat /\ DOMAIN wire[r] = 1..L /\ DOMAIN wire'[r] = 1..(L + 1)
      /\ Len(wire'[r]) = L + 1 /\ wire'[r][L + 1] = reply
      /\ \A i \in 1..L : wire'[r][i] = wire[r][i]
  BY <1>0 DEF Read
<1>2. \A i \in 1..L : wire[r][i].kind = "text"
  BY <1>1, TextsOnly
<1>3. Taken(r)' = Taken(r)
  BY DEF Taken
<1>4. \A i \in 0..L : UpTo(r, i)' = UpTo(r, i)
  <2> SUFFICES ASSUME NEW i \in 0..L PROVE UpTo(r, i)' = UpTo(r, i)
    OBVIOUS
  <2>1. CASE i = 0
    BY <1>3, <2>1 DEF UpTo
  <2>2. CASE i # 0
    <3>1. i \in 1..L /\ wire'[r][i] = wire[r][i] /\ wire[r][i].kind = "text"
      BY <1>1, <1>2, <2>2
    <3> QED BY <2>2, <3>1 DEF UpTo
  <2> QED BY <2>1, <2>2
<1>5. UpTo(r, L)' = text[r]
  BY <1>0, <1>1, <1>4 DEF Replies
<1>6. UpTo(r, L + 1)' = text'[r]
  <2>1. L + 1 # 0
    BY <1>1
  <2> QED BY <1>1, <2>1 DEF UpTo
<1>7. ASSUME NEW i \in 1..(L + 1), wire'[r][i].kind = "text"
      PROVE  /\ wire'[r][i].from = UpTo(r, i - 1)'
             /\ wire'[r][i].from <= wire'[r][i].to /\ wire'[r][i].to <= text'[r]
  <2>1. CASE i = L + 1
    <3>1. i - 1 = L /\ wire'[r][i] = reply /\ text'[r] \in Nat
      BY <1>1, <2>1 DEF Read
    <3> QED BY <1>5, <1>7, <3>1
  <2>2. CASE i # L + 1
    <3>1. i \in 1..L /\ i - 1 \in 0..L /\ wire'[r][i] = wire[r][i]
      BY <1>1, <2>2
    <3>2. /\ wire[r][i].from = UpTo(r, i - 1)
          /\ wire[r][i].from <= wire[r][i].to /\ wire[r][i].to <= text[r]
      BY <1>1, <1>2, <3>1 DEF Replies
    <3>3. wire[r][i].to <= text'[r]
      <4>1. wire[r][i].to \in Nat /\ text[r] \in Nat /\ text'[r] \in Nat
        BY <1>1, <3>1 DEF Read
      <4> QED BY <3>2, <4>1
    <3> QED BY <1>4, <3>1, <3>2, <3>3
  <2> QED BY <2>1, <2>2
<1>8. ASSUME NEW i \in 1..(L + 1), wire'[r][i].kind # "text"
      PROVE  i = L + 1 /\ wire'[r][i] = reply
  BY <1>1, <1>2, <1>8
<1>9. L + 1 - 1 = L
  BY <1>1
<1>10. /\ \A i \in DOMAIN wire'[r] : wire'[r][i].kind # "text" =>
            i = Len(wire'[r]) /\ UpTo(r, i - 1)' = text'[r] /\ call'[r] = "over"
       /\ \A i \in DOMAIN wire'[r] : wire'[r][i].kind = "end" => finished'[r] = "yes"
  BY <1>0, <1>1, <1>5, <1>8, <1>9
<1> QED BY <1>0, <1>1, <1>6, <1>7, <1>10 DEF Replies

\* A step of SendRequest that puts nothing, before its end.
LEMMA NoReplyPut ==
  ASSUME NEW r \in Requests, Replies(r), call[r] # "over",
         wire'[r] = wire[r], at'[r] = at[r], chunk'[r] = chunk[r],
         received'[r] = received[r], text'[r] = text[r]
  PROVE  Replies(r)'
<1>1. \A i \in DOMAIN wire[r] : wire[r][i].kind = "text"
  BY TextsOnly
<1>2. \A i : UpTo(r, i)' = UpTo(r, i)
  BY DEF UpTo, Taken
<1> QED BY <1>1, <1>2 DEF Replies

\* The proxy takes a slice from the wire and offers it to the client.
LEMMA ReplyGet ==
  ASSUME NEW r \in Requests, Read(r), Read(r)', Replies(r), Client(r), at[r] = "streaming",
         wire[r] # <<>>, Head(wire[r]).kind = "text",
         wire'[r] = Tail(wire[r]), chunk'[r] = Head(wire[r]), at'[r] = "yielding",
         call'[r] = call[r], received'[r] = received[r], text'[r] = text[r],
         finished'[r] = finished[r]
  PROVE  Replies(r)' /\ Client(r)'
<1>0. PICK L \in Nat : L = Len(wire[r])
  BY DEF Read
<1>1. /\ L \in Nat \ {0} /\ DOMAIN wire[r] = 1..L /\ Head(wire[r]) = wire[r][1]
      /\ Len(wire'[r]) = L - 1 /\ DOMAIN wire'[r] = 1..(L - 1)
      /\ \A i \in 1..(L - 1) : wire'[r][i] = wire[r][i + 1]
  BY <1>0, EmptySeq DEF Read
<1>2. 1 \in 1..L /\ wire[r][1].kind = "text"
  BY <1>1
<1>3. Taken(r)' = wire[r][1].to
  BY <1>1 DEF Taken
<1>4. /\ wire[r][1].from = Len(received[r])
      /\ wire[r][1].from <= wire[r][1].to /\ wire[r][1].to <= text[r]
  <2>1. UpTo(r, 0) = Len(received[r])
    BY DEF UpTo, Taken
  <2>2. wire[r][1].from = UpTo(r, 1 - 1) /\ 1 - 1 = 0
    BY <1>1, <1>2 DEF Replies
  <2>3. wire[r][1].from = UpTo(r, 0)
    BY <2>2
  <2> QED BY <1>1, <1>2, <2>1, <2>3 DEF Replies
<1>5. \A i \in 0..(L - 1) : UpTo(r, i)' = UpTo(r, i + 1)
  <2> SUFFICES ASSUME NEW i \in 0..(L - 1) PROVE UpTo(r, i)' = UpTo(r, i + 1)
    OBVIOUS
  <2>1. CASE i = 0
    <3>1. UpTo(r, i)' = wire[r][1].to
      BY <1>3, <2>1 DEF UpTo
    <3>2. UpTo(r, 1) = wire[r][1].to
      BY <1>2 DEF UpTo
    <3> QED BY <2>1, <3>1, <3>2
  <2>2. CASE i # 0
    <3>1. i \in 1..(L - 1) /\ i + 1 # 0 /\ wire'[r][i] = wire[r][i + 1]
      BY <1>1, <2>2
    <3> QED BY <2>2, <3>1 DEF UpTo
  <2> QED BY <2>1, <2>2
<1>6. ASSUME NEW i \in 1..(L - 1)
      PROVE  /\ i + 1 \in 1..L /\ wire'[r][i] = wire[r][i + 1]
             /\ UpTo(r, i - 1)' = UpTo(r, i)
             /\ i + 1 - 1 = i
  <2>1. i + 1 \in 1..L /\ wire'[r][i] = wire[r][i + 1] /\ i + 1 - 1 = i
    BY <1>1
  <2>2. i - 1 \in 0..(L - 1) /\ (i - 1) + 1 = i
    BY <1>1
  <2>3. UpTo(r, i - 1)' = UpTo(r, (i - 1) + 1)
    BY <1>5, <2>2
  <2> QED BY <2>1, <2>2, <2>3
<1>7. \A i \in 1..(L - 1) : wire'[r][i].kind = "text" =>
        /\ wire'[r][i].from = UpTo(r, i - 1)'
        /\ wire'[r][i].from <= wire'[r][i].to /\ wire'[r][i].to <= text'[r]
  <2> SUFFICES ASSUME NEW i \in 1..(L - 1), wire'[r][i].kind = "text"
               PROVE  /\ wire'[r][i].from = UpTo(r, i - 1)'
                      /\ wire'[r][i].from <= wire'[r][i].to /\ wire'[r][i].to <= text'[r]
    OBVIOUS
  <2>0. i + 1 \in DOMAIN wire[r] /\ (i + 1) - 1 = i /\ wire'[r][i] = wire[r][i + 1]
    BY <1>1
  <2>1. PICK j \in DOMAIN wire[r] :
          j - 1 = i /\ wire'[r][i] = wire[r][j] /\ wire[r][j].kind = "text"
    BY <2>0
  <2>2. /\ wire[r][j].from = UpTo(r, i)
        /\ wire[r][j].from <= wire[r][j].to /\ wire[r][j].to <= text[r]
    BY <2>1 DEF Replies
  <2> QED BY <1>6, <2>1, <2>2
<1>8. \A i \in 1..(L - 1) : wire'[r][i].kind # "text" =>
        i = L - 1 /\ UpTo(r, i - 1)' = text'[r] /\ call'[r] = "over"
  <2> SUFFICES ASSUME NEW i \in 1..(L - 1), wire'[r][i].kind # "text"
               PROVE  i = L - 1 /\ UpTo(r, i - 1)' = text'[r] /\ call'[r] = "over"
    OBVIOUS
  <2>0. i + 1 \in DOMAIN wire[r] /\ (i + 1) - 1 = i /\ wire'[r][i] = wire[r][i + 1]
    BY <1>1
  <2>1. PICK j \in DOMAIN wire[r] : j - 1 = i /\ j \in Nat /\ wire[r][j].kind # "text"
    BY <1>1, <2>0
  <2>2. j = L /\ UpTo(r, i) = text[r] /\ call[r] = "over"
    BY <1>0, <2>1 DEF Replies
  <2> QED BY <1>6, <2>1, <2>2
<1>9. \A i \in 1..(L - 1) : wire'[r][i].kind = "end" => finished'[r] = "yes"
  BY <1>1, <1>6 DEF Replies
<1>10. UpTo(r, L - 1)' = text'[r]
  <2>1. L - 1 \in 0..(L - 1) /\ (L - 1) + 1 = L
    BY <1>1
  <2>2. UpTo(r, L - 1)' = UpTo(r, (L - 1) + 1)
    BY <1>5, <2>1
  <2> QED BY <1>0, <2>1, <2>2 DEF Replies
<1>11. Replies(r)'
  BY <1>1, <1>7, <1>8, <1>9, <1>10 DEF Replies
<1>12. Client(r)'
  BY <1>1, <1>4 DEF Client
<1> QED BY <1>11, <1>12

\* The client takes the chunk: its text is as long as the chunk said.
LEMMA ChunkTaken ==
  ASSUME NEW r \in Requests, Read(r), Replies(r), Client(r), at[r] = "yielding",
         received'[r] = received[r] \o Slice(chunk[r]), at'[r] = "streaming",
         wire'[r] = wire[r], call'[r] = call[r], text'[r] = text[r],
         finished'[r] = finished[r]
  PROVE  Replies(r)' /\ Client(r)' /\ received'[r] = Whole(chunk[r].to)
<1>1. /\ received[r] = Whole(chunk[r].from) /\ chunk[r].from <= chunk[r].to
      /\ chunk[r].to <= text[r] /\ chunk[r] \in Reply /\ chunk[r].to \in Nat
  BY DEF Client, Read
<1>2. received'[r] = Whole(chunk[r].to)
  BY <1>1, WholeThenSlice
<1>3. Len(received'[r]) = chunk[r].to
  BY <1>1, <1>2, WholeText
<1>4. Client(r)'
  BY <1>1, <1>2, <1>3 DEF Client
<1>5. Taken(r)' = Taken(r)
  BY <1>3 DEF Taken
<1>6. \A i : UpTo(r, i)' = UpTo(r, i)
  BY <1>5 DEF UpTo
<1> QED BY <1>2, <1>4, <1>6 DEF Replies

\* The variables of the stream as functions of the request.
LEMMA TextTypes ==
  ASSUME TypeOK
  PROVE  /\ at \in [Requests -> Places] /\ wire \in [Requests -> Seq(Reply)]
         /\ call \in [Requests -> CallStates]
         /\ received \in [Requests -> Seq(Nat)] /\ chunk \in [Requests -> Reply]
         /\ ended \in [Requests -> {"open", "returned", "raised"}]
         /\ text \in [Requests -> 0..MaxReports]
         /\ sent_position \in [Requests -> 0..MaxReports]
         /\ finished \in [Requests -> {"no", "yes"}]
  BY DEF TypeOK, ReplicaTypeOK

\* What the steps at which nobody listens, before or after, do to request r.
QuietStep(r) ==
  /\ at'[r] \notin {"streaming", "yielding"}
  /\ ended'[r] = "open" <=> at'[r] \in OpenPlaces
  /\ received'[r] = received[r] /\ text'[r] = text[r] /\ finished'[r] = finished[r]
  /\ at'[r] \in Before => at[r] \in Before /\ wire'[r] = wire[r]
  /\ \/ call'[r] = call[r] /\ sent_position'[r] = sent_position[r]
     \/ call'[r] = "over" /\ at'[r] \notin Before
  /\ ended'[r] # ended[r] => ended[r] = "open" /\ ended'[r] \in {"raised", "returned"}
  /\ ended'[r] = "returned" /\ ended[r] = "open" => ReadEnd(r)

\* These are most steps of the proxy: they move the request on, and where they
\* end the attempt it had no end before.
LEMMA QuietSteps ==
  ASSUME TypeOK, NEW r \in Requests, OneText(r),
         \/ RejectBody(r)
         \/ \E w \in Waiting : handle_process_string_request(r, w)
         \/ NotFound(r) \/ NoRunningReplica(r)
         \/ ReadError(r) \/ ReadEnd(r) \/ CallBreaks(r) \/ ChannelClosed(r) \/ aclose(r)
         \/ TakesNotFound(r) \/ TakesError(r) \/ Leaves(r)
  PROVE  QuietStep(r)
<1> USE TextTypes DEF Goto, EndsAs, Counted, table, lock, feed, session, rvars, process, serving,
        QuietStep, Before, OpenPlaces, Waiting
<1>0. ended[r] = "open" <=> at[r] \in OpenPlaces
  BY DEF OneText, EndedWhenOver
<1>1. CASE RejectBody(r)
  BY <1>0, <1>1 DEF RejectBody
<1>2. CASE \E w \in Waiting : handle_process_string_request(r, w)
  BY <1>0, <1>2 DEF handle_process_string_request
<1>3. CASE NotFound(r)
  BY <1>0, <1>3 DEF NotFound
<1>4. CASE NoRunningReplica(r)
  BY <1>0, <1>4 DEF NoRunningReplica
<1>5. CASE ReadError(r)
  BY <1>0, <1>5 DEF ReadError, Reads
<1>6. CASE ReadEnd(r)
  <2>1. /\ at[r] = "streaming" /\ at'[r] = "closing" /\ ended'[r] = "returned"
        /\ UNCHANGED <<received, text, finished, call, sent_position>>
    BY <1>6 DEF ReadEnd, Reads
  <2> QED BY <1>0, <1>6, <2>1
<1>7. CASE CallBreaks(r)
  BY <1>0, <1>7 DEF CallBreaks
<1>8. CASE ChannelClosed(r)
  BY <1>0, <1>8 DEF ChannelClosed, Hangup, Goes
<1>9. CASE aclose(r)
  <2>1. at[r] = "leaving" /\ at'[r] = "done" /\ UNCHANGED <<received, ended>>
    BY <1>9 DEF aclose
  <2>2. /\ UNCHANGED <<text, finished>>
        /\ \/ UNCHANGED <<call, sent_position>>
           \/ call'[r] = "over"
    BY <1>9 DEF aclose, LetsGo, Hangup, Goes
  <2> QED BY <1>0, <2>1, <2>2
<1>10. CASE TakesNotFound(r)
  BY <1>0, <1>10 DEF TakesNotFound
<1>11. CASE TakesError(r)
  BY <1>0, <1>11 DEF TakesError
<1>12. CASE Leaves(r)
  <2>1. /\ at'[r] \in {"done", "leaving"}
        /\ ended[r] = "open" => ended'[r] = "raised"
        /\ ended[r] # "open" => ended'[r] = ended[r]
        /\ UNCHANGED <<received, text, finished, call, sent_position>>
    BY <1>12 DEF Leaves
  <2> QED BY <1>0, <2>1
<1> QED
  BY <1>1, <1>2, <1>3, <1>4, <1>5, <1>6, <1>7, <1>8, <1>9, <1>10, <1>11, <1>12

\* Nothing of the stream is lost by such a step.
LEMMA QuietKeeps ==
  ASSUME NEW r \in Requests, OneText(r), QuietStep(r)
  PROVE  OneText(r)'
<1>1. EndedWhenOver(r)'
  BY DEF QuietStep, EndedWhenOver
<1>2. CallSoFar(r)'
  BY DEF QuietStep, OneText, CallSoFar
<1> QED BY <1>1, <1>2 DEF OneText, QuietStep

\* The call is made.
LEMMA PickKeepsText ==
  ASSUME TypeOK, NEW r \in Requests, OneText(r), NEW p \in Replicas, pick_next_replica(r, p)
  PROVE  OneText(r)' /\ at'[r] = "streaming"
<1>1. /\ at[r] \in Waiting /\ at'[r] = "streaming" /\ call'[r] = "sent"
      /\ UNCHANGED <<ended, received, chunk, wire, text, finished, sent_position>>
  BY TextTypes DEF pick_next_replica, Goto
<1>2. /\ call[r] = "none" /\ wire[r] = <<>> /\ received[r] = <<>>
      /\ text[r] = 0 /\ sent_position[r] = 0 /\ finished[r] = "no" /\ ended[r] = "open"
  BY <1>1 DEF OneText, CallSoFar, EndedWhenOver, Before, OpenPlaces
<1>3. EndedWhenOver(r)' /\ CallSoFar(r)'
  BY <1>1, <1>2 DEF EndedWhenOver, CallSoFar, OpenPlaces, Before, Waiting
<1>4. Len(<<>>) = 0 /\ DOMAIN <<>> = {} /\ 0 <= 0
  OBVIOUS
<1>5. Replies(r)'
  BY <1>1, <1>2, <1>4 DEF Replies, UpTo, Taken
<1>6. Client(r)'
  <2>1. Whole(0) = <<>>
    BY DEF Whole
  <2> QED BY <1>1, <1>2, <1>4, <2>1 DEF Client
<1> QED BY <1>1, <1>3, <1>5, <1>6 DEF OneText

\* The proxy passes a slice on to the client.
LEMMA ReadTextKeeps ==
  ASSUME TypeOK, TypeOK', NEW r \in Requests, OneText(r), ReadText(r)
  PROVE  OneText(r)' /\ at'[r] = "yielding"
<1>0. Read(r) /\ Read(r)'
  BY ReadTypes
<1>1. /\ at[r] = "streaming" /\ wire[r] # <<>> /\ Head(wire[r]).kind = "text"
      /\ wire'[r] = Tail(wire[r]) /\ chunk'[r] = Head(wire[r]) /\ at'[r] = "yielding"
      /\ UNCHANGED <<call, received, text, finished, sent_position, ended>>
  BY TextTypes DEF ReadText, Reads, Goto
<1>2. Replies(r)' /\ Client(r)'
  BY <1>0, <1>1, ReplyGet DEF OneText
<1>3. EndedWhenOver(r)' /\ CallSoFar(r)'
  BY <1>1 DEF OneText, EndedWhenOver, CallSoFar, OpenPlaces, Before, Waiting
<1> QED BY <1>1, <1>2, <1>3 DEF OneText

\* The client takes it.
LEMMA TakesChunkKeeps ==
  ASSUME TypeOK, NEW r \in Requests, OneText(r), TakesChunk(r)
  PROVE  OneText(r)' /\ received'[r] = Whole(chunk[r].to)
<1>0. Read(r)
  BY ReadTypes
<1>1. /\ at[r] = "yielding" /\ at'[r] = "streaming"
      /\ received'[r] = received[r] \o Slice(chunk[r])
      /\ UNCHANGED <<call, wire, text, finished, sent_position, ended>>
  <2>1. /\ at[r] = "yielding" /\ at'[r] = "streaming"
        /\ UNCHANGED <<call, wire, text, finished, sent_position, ended>>
    BY TextTypes DEF TakesChunk, Goto, rvars, serving
  <2> DEFINE longer == received[r] \o Slice(chunk[r])
  <2>2. received' = [received EXCEPT ![r] = longer]
    BY DEF TakesChunk
  <2> HIDE DEF longer
  <2>3. received'[r] = longer
    BY <2>2, TextTypes
  <2> QED BY <2>1, <2>3 DEF longer
<1>2. Replies(r)' /\ Client(r)' /\ received'[r] = Whole(chunk[r].to)
  BY <1>0, <1>1, ChunkTaken DEF OneText
<1>3. EndedWhenOver(r)' /\ CallSoFar(r)'
  BY <1>1 DEF OneText, EndedWhenOver, CallSoFar, OpenPlaces, Before, Waiting
<1> QED BY <1>1, <1>2, <1>3 DEF OneText

\* SendRequest goes on, whether or not its replies are still wanted.
LEMMA CallKeeps ==
  ASSUME TypeOK, TypeOK', NEW r \in Requests, OneText(r), SendRequestStep(r), UNCHANGED pvars
  PROVE  OneText(r)'
<1> USE TextTypes
<1>0. Read(r) /\ Read(r)' /\ text[r] <= text[r]
  <2>1. Read(r) /\ Read(r)'
    BY ReadTypes
  <2>2. text[r] \in Nat
    BY <2>1 DEF Read
  <2> QED BY <2>1, <2>2
<1>1. UNCHANGED <<at, ended, received, chunk>>
  BY DEF pvars, session
<1>2. call[r] \in {"sent", "generating", "yielding"} /\ at[r] \notin Before
  <2>1. call[r] \in {"sent", "generating", "yielding"}
    BY DEF SendRequestStep, SendRequest, EngineReports, YieldReturns, EngineRaises
  <2> QED BY <2>1 DEF OneText, CallSoFar
<1>3. EndedWhenOver(r)'
  BY <1>1 DEF OneText, EndedWhenOver
<1>4. ASSUME CallSoFar(r)', at[r] \in {"streaming", "yielding"} => Replies(r)',
             text[r] <= text'[r]
      PROVE  OneText(r)'
  <2>1. Client(r) => Client(r)'
    <3>1. /\ chunk[r].to \in Nat /\ Len(received[r]) \in Nat /\ text[r] \in Nat
          /\ text'[r] \in Nat
      BY <1>0 DEF Read
    <3> QED BY <1>1, <1>4, <3>1 DEF Client
  <2> QED BY <1>1, <1>3, <1>4, <2>1 DEF OneText
<1>5. Error \in Reply /\ End \in Reply /\ Error.kind = "error" /\ End.kind = "end"
  BY ReplyTypes DEF Error, End
<1>6. \A reply : Puts(r, reply) => wire'[r] = Append(wire[r], reply)
  BY DEF Puts
<1>7. \A l : Goes(r, l) => call'[r] = l
  BY DEF Goes
<1>8. ASSUME Raises(r), UNCHANGED <<text, finished, sent_position>> PROVE OneText(r)'
  <2>1. wire'[r] = Append(wire[r], Error) /\ call'[r] = "over"
    BY <1>6, <1>7, <1>8 DEF Raises
  <2>2. CallSoFar(r)'
    BY <1>1, <1>2, <2>1 DEF CallSoFar
  <2>3. Replies(r) => Replies(r)'
    BY <1>0, <1>1, <1>2, <1>5, <1>8, <2>1, ReplyPut
  <2> QED BY <1>0, <1>4, <1>8, <2>2, <2>3 DEF OneText
<1>9. CASE SendRequest(r)
  <2>1. CASE Raises(r)
    BY <1>8, <1>9, <2>1 DEF SendRequest
  <2>2. CASE Goes(r, "generating") /\ UNCHANGED wire
    <3>1. /\ call[r] = "sent" /\ call'[r] = "generating"
          /\ UNCHANGED <<text, finished, sent_position>>
      BY <1>7, <1>9, <2>2 DEF SendRequest
    <3>2. CallSoFar(r)'
      BY <1>1, <1>2, <3>1 DEF OneText, CallSoFar
    <3>3. Replies(r) => Replies(r)'
      BY <1>1, <2>2, <3>1, NoReplyPut
    <3> QED BY <1>0, <1>4, <3>1, <3>2, <3>3 DEF OneText
  <2> QED BY <1>9, <2>1, <2>2 DEF SendRequest
<1>10. CASE EngineRaises(r)
  BY <1>8, <1>10 DEF EngineRaises
<1>11. CASE YieldReturns(r)
  <2>1. /\ call[r] = "yielding" /\ sent_position'[r] = text[r]
        /\ UNCHANGED <<text, finished>>
    BY <1>11 DEF YieldReturns
  <2>2. CASE finished[r] = "yes"
    <3>1. wire'[r] = Append(wire[r], End) /\ call'[r] = "over"
      BY <1>6, <1>7, <1>11, <2>2 DEF YieldReturns
    <3>2. CallSoFar(r)'
      BY <1>1, <1>2, <3>1 DEF CallSoFar
    <3>3. Replies(r) => Replies(r)'
      BY <1>0, <1>1, <1>5, <2>1, <2>2, <3>1, ReplyPut
    <3> QED BY <1>0, <1>4, <2>1, <3>2, <3>3 DEF OneText
  <2>3. CASE finished[r] # "yes"
    <3>1. call'[r] = "generating" /\ UNCHANGED wire /\ finished[r] = "no"
      BY <1>7, <1>11, <2>3 DEF YieldReturns
    <3>2. CallSoFar(r)'
      BY <1>1, <1>2, <2>1, <3>1 DEF CallSoFar
    <3>3. Replies(r) => Replies(r)'
      BY <1>1, <2>1, <3>1, NoReplyPut
    <3> QED BY <1>0, <1>4, <2>1, <3>2, <3>3 DEF OneText
  <2> QED BY <2>2, <2>3
<1>12. ASSUME NEW n \in 0..MaxReports, NEW f \in {"no", "yes"}, EngineReports(r, n, f)
       PROVE  OneText(r)'
  <2>1. /\ call[r] = "generating" /\ text'[r] = n /\ finished'[r] = f
        /\ n = text[r] + 1 \/ (n = text[r] /\ f = "yes")
        /\ UNCHANGED sent_position
    BY <1>12 DEF EngineReports
  <2>2. sent_position[r] = text[r] /\ text[r] \in Nat /\ n \in Nat /\ text[r] <= n
    <3>1. text[r] \in Nat /\ n \in Nat
      BY <1>0, ReplicaAssumption DEF Read
    <3> QED BY <2>1, <3>1 DEF OneText, CallSoFar
  <2>3. CASE n > sent_position[r] /\ Puts(r, new_text(r, n)) /\ Goes(r, "yielding")
    <3>1. wire'[r] = Append(wire[r], Text(text[r], n)) /\ call'[r] = "yielding"
      BY <1>6, <1>7, <2>2, <2>3 DEF new_text
    <3>2. CallSoFar(r)'
      BY <1>1, <1>2, <3>1 DEF CallSoFar
    <3>3. /\ Text(text[r], n) \in Reply /\ Text(text[r], n).kind = "text"
          /\ Text(text[r], n).from = text[r] /\ Text(text[r], n).to = n
      BY ReplyTypes DEF Text
    <3>4. Replies(r) => Replies(r)'
      BY <1>0, <1>1, <2>1, <2>2, <3>1, <3>3, ReplyPut
    <3> QED BY <1>4, <2>1, <2>2, <3>2, <3>4 DEF OneText
  <2>4. CASE n = sent_position[r] /\ Puts(r, End) /\ Goes(r, "over")
    <3>1. wire'[r] = Append(wire[r], End) /\ call'[r] = "over"
      BY <1>6, <1>7, <2>4
    <3>2. CallSoFar(r)'
      BY <1>1, <1>2, <3>1 DEF CallSoFar
    <3>3. n = text[r] /\ f = "yes"
      BY <2>1, <2>2, <2>4
    <3>4. Replies(r) => Replies(r)'
      BY <1>0, <1>1, <1>5, <2>1, <3>1, <3>3, ReplyPut
    <3> QED BY <1>4, <2>1, <2>2, <3>2, <3>4 DEF OneText
  <2> QED BY <1>12, <2>3, <2>4 DEF EngineReports
<1> QED BY <1>9, <1>10, <1>11, <1>12 DEF SendRequestStep

\* Every step of the data plane keeps the texts together.
LEMMA TextNext == TypeOK /\ TypeOK' /\ TextInv /\ [Next]_vars => TextInv'
<1> SUFFICES ASSUME TypeOK, TypeOK', TextInv, [Next]_vars, NEW o \in Requests
             PROVE  OneText(o)'
  BY DEF TextInv
<1>0. \A r \in Requests : OneText(r)
  BY DEF TextInv
<1>1. CASE ~ \E r \in Requests : StepOf(r)
  BY <1>0, <1>1, RestUntouched, UntouchedKeeps
<1>2. ASSUME NEW r \in Requests, StepOf(r) PROVE OneText(o)'
  <2>1. CASE o # r
    BY <1>0, <1>2, <2>1, OthersUntouched, UntouchedKeeps
  <2>2. CASE SendRequestStep(r) /\ UNCHANGED pvars
    <3>1. OneText(r)'
      BY <1>0, <2>2, CallKeeps
    <3> QED BY <2>1, <3>1
  <2>3. CASE ProxyStep(r)
    <3>1. CASE ReadText(r)
      BY <1>0, <2>1, <3>1, ReadTextKeeps
    <3>2. CASE TakesChunk(r)
      BY <1>0, <2>1, <3>2, TakesChunkKeeps
    <3>3. ASSUME NEW p \in Replicas, pick_next_replica(r, p) PROVE OneText(o)'
      BY <1>0, <2>1, <3>3, PickKeepsText
    <3>4. CASE QuietStep(r)
      BY <1>0, <2>1, <3>4, QuietKeeps
    <3> QED BY <1>0, <2>3, <3>1, <3>2, <3>3, <3>4, QuietSteps
            DEF ProxyStep, Dispatch, Attempt, Takes
  <2> QED BY <1>2, <2>2, <2>3 DEF StepOf
<1> QED BY <1>1, <1>2

\* Before the first request there is no text.
LEMMA TextInit == Init => TextInv
<1> SUFFICES ASSUME Init, NEW r \in Requests PROVE OneText(r)
  BY DEF TextInv
<1>1. /\ at[r] = "idle" /\ ended[r] = "open" /\ call[r] = "none" /\ wire[r] = <<>>
      /\ received[r] = <<>> /\ text[r] = 0 /\ sent_position[r] = 0 /\ finished[r] = "no"
  BY DEF Init, ReplicaInit
<1> QED BY <1>1 DEF OneText, EndedWhenOver, CallSoFar, OpenPlaces, Before

\* Between the engine and the client of a request no character is lost, repeated
\* or overtaken, for any number of concurrent requests and of replicas.
THEOREM TextInvariant == Spec => []TextInv
  BY TextInit, TextNext, PyTypes, PTL DEF Spec

-----------------------------------------------------------------------------
(* Proxy and replicas together implement TokenStream.                      *)

Verdict(r) ==
  IF ended[r] = "returned" THEN "complete"
  ELSE IF ended[r] = "raised" THEN "broken" ELSE "open"

\* The step of a request, as TokenStream sees it.
StreamStep(r) ==
  \/ Stream!Generate(r) \/ Stream!Deliver(r) \/ Stream!Complete(r) \/ Stream!Break(r)
  \/ Stream!EngineSame(r) /\ Stream!CallerSame(r)

\* The engine's side and the client's side of a request as TokenStream has them.
LEMMA Mapped ==
  ASSUME NEW r \in Requests
  PROVE  /\ Stream!EngineSame(r) <=>
              /\ Whole(text'[r]) = Whole(text[r])
              /\ (finished'[r] = "yes") = (finished[r] = "yes")
         /\ Stream!CallerSame(r) <=> received'[r] = received[r] /\ Verdict(r)' = Verdict(r)
  BY DEF Stream!EngineSame, Stream!CallerSame, Verdict

\* A request that is not touched stutters.
LEMMA UntouchedStutters ==
  ASSUME NEW r \in Requests, Untouched(r)
  PROVE  StreamStep(r)
<1>1. Verdict(r)' = Verdict(r)
  BY DEF Untouched, Verdict
<1> QED BY <1>1, Mapped DEF Untouched, StreamStep

\* The steps at which nobody listens leave the text alone, or end the attempt.
LEMMA QuietImplements ==
  ASSUME TypeOK, NEW r \in Requests, OneText(r), QuietStep(r)
  PROVE  StreamStep(r)
<1>1. Stream!EngineSame(r) /\ received'[r] = received[r]
  BY Mapped DEF QuietStep
<1>2. CASE ended'[r] = ended[r]
  <2>1. Verdict(r)' = Verdict(r)
    BY <1>2 DEF Verdict
  <2> QED BY <1>1, <2>1, Mapped DEF StreamStep
<1>3. CASE ended[r] = "open" /\ ended'[r] = "raised"
  <2>1. Verdict(r) = "open" /\ Verdict(r)' = "broken"
    BY <1>3 DEF Verdict
  <2> QED BY <1>1, <2>1 DEF StreamStep, Stream!Break, Verdict
<1>4. CASE ended[r] = "open" /\ ended'[r] = "returned"
  <2>1. ReadEnd(r) /\ Verdict(r) = "open" /\ Verdict(r)' = "complete"
    BY <1>4 DEF QuietStep, Verdict
  <2>2. at[r] = "streaming" /\ wire[r] # <<>> /\ Head(wire[r]).kind = "end" /\ Read(r)
    BY <2>1, ReadTypes DEF ReadEnd, Reads
  <2>3. 1 \in DOMAIN wire[r] /\ wire[r][1].kind = "end"
    BY <2>2, EmptySeq DEF Read
  <2>4. finished[r] = "yes" /\ Len(received[r]) = text[r]
    <3>1. Replies(r)
      BY <2>2 DEF OneText
    <3>2. finished[r] = "yes" /\ UpTo(r, 1 - 1) = text[r]
      BY <2>3, <3>1 DEF Replies
    <3>3. 1 - 1 = 0
      OBVIOUS
    <3>4. UpTo(r, 0) = text[r]
      BY <3>2, <3>3
    <3>5. Taken(r) = text[r]
      BY <3>4 DEF UpTo
    <3>6. at[r] # "yielding"
      BY <2>2
    <3> QED BY <3>2, <3>5, <3>6 DEF Taken
  <2>5. received[r] = Whole(text[r])
    BY <2>2, <2>4 DEF OneText, Client
  <2> QED BY <1>1, <2>1, <2>4, <2>5 DEF StreamStep, Stream!Complete, Verdict
<1> QED BY <1>2, <1>3, <1>4 DEF QuietStep

\* The call, and the slice on its way through the proxy, are not seen outside.
LEMMA HiddenImplements ==
  ASSUME NEW r \in Requests, ReadText(r) \/ \E p \in Replicas : pick_next_replica(r, p)
  PROVE  StreamStep(r)
<1>1. UNCHANGED <<text, finished, received, ended>>
  BY DEF ReadText, Reads, pick_next_replica
<1>2. Verdict(r)' = Verdict(r)
  BY <1>1 DEF Verdict
<1> QED BY <1>1, <1>2, Mapped DEF StreamStep

\* The client gets a longer prefix of the text.
LEMMA TakesImplements ==
  ASSUME TypeOK, NEW r \in Requests, OneText(r), TakesChunk(r)
  PROVE  StreamStep(r)
<1>1. at[r] = "yielding" /\ UNCHANGED <<text, finished, ended>>
  BY DEF TakesChunk, rvars, serving
<1>2. /\ Client(r) /\ Verdict(r) = "open" /\ Verdict(r)' = Verdict(r)
      /\ Stream!EngineSame(r)
  BY <1>1, Mapped DEF OneText, EndedWhenOver, OpenPlaces, Verdict
<1>3. Read(r)
  BY ReadTypes
<1>4. /\ received[r] = Whole(chunk[r].from) /\ received'[r] = Whole(chunk[r].to)
      /\ chunk[r].from \in Nat /\ chunk[r].to \in Nat /\ text[r] \in Nat
      /\ chunk[r].from <= chunk[r].to /\ chunk[r].to <= text[r]
  BY <1>1, <1>2, <1>3, TakesChunkKeeps DEF Client, Read
<1>5. Stream!IsPrefix(received[r], received'[r]) /\ Stream!IsPrefix(received'[r], Whole(text[r]))
  BY <1>4, WholePrefix
<1> QED BY <1>2, <1>5 DEF StreamStep, Stream!Deliver, Verdict

\* The engine adds to its text or ends it, unless it is through; the client does
\* not notice.
LEMMA CallImplements ==
  ASSUME TypeOK, NEW r \in Requests, OneText(r), SendRequestStep(r), UNCHANGED pvars
  PROVE  StreamStep(r)
<1>1. Stream!CallerSame(r)
  <2>1. UNCHANGED <<received, ended>>
    BY DEF pvars, session
  <2>2. Verdict(r)' = Verdict(r)
    BY <2>1 DEF Verdict
  <2> QED BY <2>1, <2>2, Mapped
<1>2. CASE SendRequest(r) \/ YieldReturns(r) \/ EngineRaises(r)
  <2>1. UNCHANGED <<text, finished>>
    BY <1>2 DEF SendRequest, YieldReturns, EngineRaises
  <2> QED BY <1>1, <2>1, Mapped DEF StreamStep
<1>3. ASSUME NEW n \in 0..MaxReports, NEW f \in {"no", "yes"}, EngineReports(r, n, f)
      PROVE  StreamStep(r)
  <2>1. /\ call[r] = "generating" /\ text'[r] = n
        /\ n = text[r] + 1 \/ n = text[r]
    BY <1>3, TextTypes DEF EngineReports
  <2>2. text[r] \in Nat /\ n \in Nat /\ text[r] <= n
    <3>1. text[r] \in Nat /\ n \in Nat
      BY ReadTypes, ReplicaAssumption DEF Read
    <3> QED BY <2>1, <3>1
  <2>3. finished[r] = "no"
    BY <2>1 DEF OneText, CallSoFar
  <2>4. Stream!IsPrefix(Whole(text[r]), Whole(text'[r]))
    BY <2>1, <2>2, WholePrefix
  <2> QED BY <1>1, <2>3, <2>4 DEF StreamStep, Stream!Generate
<1> QED BY <1>2, <1>3 DEF SendRequestStep

\* The Python data plane implements TokenStream end to end: through replica,
\* channel and proxy a client gets a prefix of what the engine generated for its
\* request, and where the attempt returned instead of raising, the whole of it;
\* whatever breaks, whoever leaves and however often the table is replaced.
THEOREM PyPlaneImplementsStream == Spec => StreamSpec
<1>1. Init => Stream!Init
  <2> SUFFICES ASSUME Init PROVE Stream!Init
    OBVIOUS
  <2>0. Whole(0) = <<>>
    BY DEF Whole
  <2>1. /\ received = [r \in Requests |-> <<>>]
        /\ \A r \in Requests : /\ Whole(text[r]) = <<>> /\ finished[r] = "no"
                               /\ ended[r] = "open"
    BY <2>0 DEF Init, ReplicaInit
  <2>2. [r \in Requests |-> Whole(text[r])] = [r \in Requests |-> <<>>]
    BY <2>1
  <2>3. [r \in Requests |-> finished[r] = "yes"] = [r \in Requests |-> FALSE]
    BY <2>1
  <2>4. [r \in Requests |-> IF ended[r] = "returned" THEN "complete"
                            ELSE IF ended[r] = "raised" THEN "broken" ELSE "open"]
          = [r \in Requests |-> "open"]
    BY <2>1
  <2> QED BY <2>1, <2>2, <2>3, <2>4 DEF Stream!Init
<1>2. ASSUME TypeOK, TypeOK', TextInv, [Next]_vars
      PROVE  Stream!Next
  <2> SUFFICES ASSUME NEW o \in Requests PROVE StreamStep(o)
    BY DEF Stream!Next, StreamStep
  <2>0. \A r \in Requests : OneText(r)
    BY <1>2 DEF TextInv
  <2>1. CASE ~ \E r \in Requests : StepOf(r)
    BY <1>2, <2>1, RestUntouched, UntouchedStutters
  <2>2. ASSUME NEW r \in Requests, StepOf(r) PROVE StreamStep(o)
    <3>1. CASE o # r
      BY <1>2, <2>2, <3>1, OthersUntouched, UntouchedStutters
    <3>2. StreamStep(r)
      <4>1. CASE SendRequestStep(r) /\ UNCHANGED pvars
        BY <1>2, <2>0, <4>1, CallImplements
      <4>2. CASE ReadText(r) \/ \E p \in Replicas : pick_next_replica(r, p)
        BY <4>2, HiddenImplements
      <4>3. CASE TakesChunk(r)
        BY <1>2, <2>0, <4>3, TakesImplements
      <4>4. CASE QuietStep(r)
        BY <1>2, <2>0, <4>4, QuietImplements
      <4> QED BY <1>2, <2>0, <2>2, <4>1, <4>2, <4>3, <4>4, QuietSteps
              DEF StepOf, ProxyStep, Dispatch, Attempt, Takes
    <3> QED BY <3>1, <3>2
  <2> QED BY <2>1, <2>2
<1> QED
  BY <1>1, <1>2, PyTypes, TextInvariant, PTL DEF Spec, StreamSpec, Stream!Spec
=============================================================================
