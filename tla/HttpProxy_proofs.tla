--------------------------- MODULE HttpProxy_proofs ---------------------------
(***************************************************************************)
(* Proofs about HttpProxy, for any number of threads: types; the gauge of  *)
(* open sessions is exact and every request counted once; and a counter    *)
(* active_requests is exact as long as no release has overlapped another   *)
(* access to it.                                                           *)
(***************************************************************************)
EXTENDS HttpProxy, FiniteSetTheorems, TLAPS

USE DEF Goto, Counted, table, info, count, sess

PcStates == Waits \union Inside

\* The program counters of a session, one by one.
LEMMA PcValues ==
  /\ {"idle", "reading", "not_found", "header", "picking", "starting", "streaming",
      "unwinding", "closing", "done", "picked", "releasing"} = PcStates
  BY DEF PcStates, Waits, Inside

\* A proxy that has just started: no handle, no request.
LEMMA InitType == Init => Typed /\ HandlesKept
<1> SUFFICES ASSUME Init PROVE Typed /\ HandlesKept
  OBVIOUS
<1>1. pc \in [Sessions -> PcStates]
  BY PcValues DEF Init
<1>2. Typed
  BY <1>1, ProxyBounds DEF Init, Typed, Health, Outcomes, PcStates
<1>3. HandlesKept
  BY DEF Init, HandlesKept, Inside, Holding
<1> QED
  BY <1>2, <1>3

\* Where a session may be, and what a step of another session leaves alone.
LEMMA TypeStep ==
  ASSUME Typed, HandlesKept, [Next]_vars
  PROVE  Typed' /\ HandlesKept'
<1> USE ProxyBounds
<1>0. pc \in [Sessions -> PcStates]
  BY DEF Typed, PcStates
<1>1. ASSUME NEW R \in SUBSET Replicas, apply_routing_update(R)
      PROVE  Typed' /\ HandlesKept'
  <2>1. gen' \in 0..MaxUpdates /\ listed' \in [Gens -> SUBSET Replicas]
    BY <1>1 DEF apply_routing_update, Typed, Gens
  <2> QED
    BY <1>1, <2>1 DEF apply_routing_update, Typed, HandlesKept
<1>2. ASSUME NEW g \in Gens, NEW r \in Replicas, CoolingEnds(g, r)
      PROVE  Typed' /\ HandlesKept'
  <2>1. health' \in [Gens -> [Replicas -> Health]]
    BY <1>2 DEF CoolingEnds, Typed, Health
  <2> QED
    BY <1>2, <2>1 DEF CoolingEnds, Typed, HandlesKept
<1>3. ASSUME NEW s \in Sessions,
             Accept(s) \/ ServeMetrics(s) \/ SessionFails(s) \/ NotFound(s)
               \/ HeaderWritten(s) \/ PickNone(s) \/ RpcStarts(s) \/ ClientGone(s)
               \/ RpcFinishes(s) \/ Close(s)
      PROVE  Typed' /\ HandlesKept'
  <2>1. /\ UNCHANGED <<gen, listed, active, overlapped, health, handle, replica, tmp, tokens>>
        /\ gauge' \in {gauge, gauge + 1, gauge - 1}
    BY <1>3 DEF Accept, ServeMetrics, SessionFails, NotFound, HeaderWritten, PickNone,
                RpcStarts, ClientGone, RpcFinishes, Close
  <2>2. outcome' \in [Sessions -> Outcomes]
    BY <1>3 DEF Accept, ServeMetrics, SessionFails, NotFound, HeaderWritten, PickNone,
                RpcStarts, ClientGone, RpcFinishes, Close, Typed, Outcomes
  <2>3. \E l \in PcStates :
          /\ pc' = [pc EXCEPT ![s] = l]
          /\ \/ l \in {"reading", "done", "closing"}
             \/ pc[s] = "header" /\ l = "picking"
             \/ pc[s] \in Holding /\ l \in Holding
    BY <1>3, PcValues DEF Accept, ServeMetrics, SessionFails, NotFound, HeaderWritten,
             PickNone, RpcStarts, ClientGone, RpcFinishes, Close, Holding
  <2>4. pc' \in [Sessions -> Waits \union Inside]
    BY <1>0, <2>3 DEF PcStates
  <2>5. Typed'
    BY <2>1, <2>2, <2>4 DEF Typed
  <2>6. HandlesKept'
    BY <1>0, <2>1, <2>3 DEF HandlesKept, Holding, Inside
  <2> QED
    BY <2>5, <2>6
<1>4. ASSUME NEW s \in Sessions, Route(s)
      PROVE  Typed' /\ HandlesKept'
  <2>1. gen \in Gens \union {NoHandle} /\ (gen # 0 => gen \in Gens)
    BY DEF Typed, Gens, NoHandle
  <2>2. pc' \in [Sessions -> Waits \union Inside]
    BY <1>0, <1>4, PcValues DEF Route, PcStates
  <2>3. Typed'
    BY <1>4, <2>1, <2>2 DEF Route, Typed
  <2>4. HandlesKept'
    BY <1>0, <1>4, <2>1 DEF Route, HandlesKept, Holding, Inside, Typed
  <2> QED
    BY <2>3, <2>4
<1>5. ASSUME NEW s \in Sessions, PickLoad(s)
      PROVE  Typed' /\ HandlesKept'
  <2>1. handle[s] \in Gens
    BY <1>5 DEF PickLoad, HandlesKept
  <2>2. PICK r \in Replicas : /\ replica' = [replica EXCEPT ![s] = r]
                              /\ tmp' = [tmp EXCEPT ![s] = active[handle[s]][r]]
    BY <1>5, <2>1 DEF PickLoad, LeastLoaded, Eligible, Typed
  <2>3. replica' \in [Sessions -> Replicas \union {None}] /\ tmp' \in [Sessions -> Int]
    BY <2>1, <2>2 DEF Typed
  <2>4. health' \in [Gens -> [Replicas -> Health]]
    BY <1>5, <2>1 DEF PickLoad, Revive, Typed, Health
  <2>5. pc' \in [Sessions -> Waits \union Inside]
    BY <1>0, <1>5, PcValues DEF PickLoad, PcStates
  <2>6. Typed'
    BY <1>5, <2>3, <2>4, <2>5 DEF PickLoad, Typed
  <2>7. HandlesKept'
    BY <1>0, <1>5, <2>1, <2>2 DEF PickLoad, HandlesKept, Holding, Inside, Typed
  <2> QED
    BY <2>6, <2>7
<1>6. ASSUME NEW s \in Sessions, PickStore(s) \/ ReleaseStore(s)
      PROVE  Typed' /\ HandlesKept'
  <2>1. handle[s] \in Gens /\ replica[s] \in Replicas
    BY <1>6 DEF PickStore, ReleaseStore, HandlesKept, Inside
  <2>2. active' \in [Gens -> [Replicas -> Int]]
    <3>0. tmp[s] + 1 \in Int /\ tmp[s] - 1 \in Int
      BY DEF Typed
    <3>1. \E v \in Int : active' = [active EXCEPT ![handle[s]][replica[s]] = v]
      BY <1>6, <3>0 DEF PickStore, ReleaseStore, Store
    <3> QED
      BY <2>1, <3>1 DEF Typed
  <2>3. pc' \in [Sessions -> Waits \union Inside]
    BY <1>0, <1>6, PcValues DEF PickStore, ReleaseStore, PcStates
  <2>4. overlapped' \subseteq Gens \X Replicas
    BY <1>6, <2>1 DEF PickStore, ReleaseStore, Store, Typed
  <2>5. Typed'
    BY <1>6, <2>2, <2>3, <2>4 DEF PickStore, ReleaseStore, Typed
  <2>6. HandlesKept'
    BY <1>0, <1>6, <2>1 DEF PickStore, ReleaseStore, HandlesKept, Holding, Inside
  <2> QED
    BY <2>5, <2>6
<1>7. ASSUME NEW s \in Sessions, RpcFails(s)
      PROVE  Typed' /\ HandlesKept'
  <2>1. handle[s] \in Gens /\ replica[s] \in Replicas
    BY <1>7 DEF RpcFails, HandlesKept, Holding
  <2>2. health' \in [Gens -> [Replicas -> Health]]
    BY <1>7, <2>1 DEF RpcFails, mark_replica_unhealthy, Typed, Health
  <2>3. pc' \in [Sessions -> Waits \union Inside]
    BY <1>0, <1>7, PcValues DEF RpcFails, PcStates
  <2>4. outcome' \in [Sessions -> Outcomes]
    BY <1>7 DEF RpcFails, Typed, Outcomes
  <2>5. Typed'
    BY <1>7, <2>2, <2>3, <2>4 DEF RpcFails, Typed
  <2>6. HandlesKept'
    BY <1>0, <1>7, <2>1 DEF RpcFails, HandlesKept, Holding, Inside
  <2> QED
    BY <2>5, <2>6
<1>8. ASSUME NEW s \in Sessions, Token(s)
      PROVE  Typed' /\ HandlesKept'
  <2>1. tokens' \in [Sessions -> 0..MaxTokens]
    BY <1>8 DEF Token, Typed
  <2> QED
    BY <1>8, <2>1 DEF Token, Typed, HandlesKept
<1>9. ASSUME NEW s \in Sessions, ReleaseLoad(s)
      PROVE  Typed' /\ HandlesKept'
  <2>1. handle[s] \in Gens /\ replica[s] \in Replicas
    BY <1>9 DEF ReleaseLoad, HandlesKept, Holding
  <2>2. tmp' \in [Sessions -> Int]
    BY <1>9, <2>1 DEF ReleaseLoad, Typed
  <2>3. pc' \in [Sessions -> Waits \union Inside]
    BY <1>0, <1>9, PcValues DEF ReleaseLoad, PcStates
  <2>4. Typed'
    BY <1>9, <2>2, <2>3 DEF ReleaseLoad, Typed
  <2>5. HandlesKept'
    BY <1>0, <1>9, <2>1 DEF ReleaseLoad, HandlesKept, Holding, Inside
  <2> QED
    BY <2>4, <2>5
<1>10. CASE UNCHANGED vars
  BY <1>10 DEF vars, Typed, HandlesKept
<1> QED
  BY <1>1, <1>2, <1>3, <1>4, <1>5, <1>6, <1>7, <1>8, <1>9, <1>10 DEF Next, SessionStep

\* Every variable keeps its type, and a session in flight knows its handle and
\* its replica.
THEOREM ProxyTypes == Spec => []TypeOK
<1>1. Init => TypeOK
  BY InitType DEF TypeOK
<1>2. TypeOK /\ [Next]_vars => TypeOK'
  BY TypeStep DEF TypeOK
<1> QED
  BY <1>1, <1>2, PTL DEF Spec

-----------------------------------------------------------------------------
(* active_requests is exact unless a release overlapped.                   *)

\* The requests in flight on a replica can be counted.
LEMMA HoldersFinite == \A g, r : IsFiniteSet(Holders(g, r))
<1> SUFFICES ASSUME NEW g, NEW r PROVE IsFiniteSet(Holders(g, r))
  OBVIOUS
<1>1. Holders(g, r) \subseteq Sessions
  BY DEF Holders
<1> QED
  BY <1>1, SessionsAssumption, FS_Subset

\* A step of s that neither takes nor gives back a replica, nor stores.
Neutral(s) ==
  /\ active' = active /\ overlapped' = overlapped
  /\ \A t \in Sessions : t # s => /\ pc'[t] = pc[t] /\ handle'[t] = handle[t]
                                   /\ replica'[t] = replica[t] /\ tmp'[t] = tmp[t]
  /\ pc[s] \in Holding <=> pc'[s] \in Holding
  /\ pc[s] \in Holding => handle'[s] = handle[s] /\ replica'[s] = replica[s]
  /\ pc'[s] \in Inside => tmp'[s] = active[handle'[s]][replica'[s]]
  /\ pc'[s] = "picked" => ~Locked(handle'[s])

\* A neutral step changes neither a counter nor who holds a replica.
LEMMA NeutralKeeps ==
  ASSUME Typed, CountInv, NEW s \in Sessions, Neutral(s)
  PROVE  CountInv'
<1>1. \A g \in Gens, r \in Replicas : Holders(g, r)' = Holders(g, r)
  BY DEF Neutral, Holders
<1>2. ExactUnlessOverlapped'
  BY <1>1 DEF ExactUnlessOverlapped, CountInv, Neutral
<1>3. PicksApart'
  BY DEF PicksApart, CountInv, Neutral, Locked
<1>4. LoadedIsCurrent'
  BY DEF LoadedIsCurrent, CountInv, Neutral
<1> QED
  BY <1>2, <1>3, <1>4 DEF CountInv

\* Every session step is neutral, except the two stores of active_requests.
LEMMA SessionNeutral ==
  ASSUME Typed, HandlesKept, NEW s \in Sessions, SessionStep(s),
         ~PickStore(s), ~ReleaseStore(s)
  PROVE  Neutral(s)
<1> USE DEF Typed, Neutral, Holding, Inside
<1>1. CASE Accept(s) \/ ServeMetrics(s) \/ SessionFails(s) \/ NotFound(s)
             \/ HeaderWritten(s) \/ PickNone(s) \/ Close(s)
  BY <1>1 DEF Accept, ServeMetrics, SessionFails, NotFound, HeaderWritten, PickNone, Close
<1>2. CASE RpcStarts(s) \/ ClientGone(s) \/ RpcFinishes(s) \/ RpcFails(s)
  BY <1>2 DEF RpcStarts, ClientGone, RpcFinishes, RpcFails
<1>3. CASE Token(s)
  BY <1>3 DEF Token
<1>4. CASE Route(s)
  BY <1>4 DEF Route
<1>5. CASE PickLoad(s)
  <2>1. handle[s] \in Gens
    BY <1>5 DEF PickLoad, HandlesKept
  <2>2. PICK r \in Replicas : /\ replica' = [replica EXCEPT ![s] = r]
                              /\ tmp' = [tmp EXCEPT ![s] = active[handle[s]][r]]
    BY <1>5, <2>1 DEF PickLoad, LeastLoaded, Eligible
  <2> QED
    BY <1>5, <2>2 DEF PickLoad
<1>6. CASE ReleaseLoad(s)
  BY <1>6 DEF ReleaseLoad
<1> QED
  BY <1>1, <1>2, <1>3, <1>4, <1>5, <1>6 DEF SessionStep

\* The two stores.  On a counter no release has overlapped, what was loaded is
\* current, nobody else has it loaded, and the set of holders gains or loses
\* exactly this session.
LEMMA StoreKeeps ==
  ASSUME Typed, HandlesKept, CountInv, NEW s \in Sessions,
         PickStore(s) \/ ReleaseStore(s)
  PROVE  CountInv'
<1>1. PICK h \in Gens, q \in Replicas : h = handle[s] /\ q = replica[s]
  BY DEF PickStore, ReleaseStore, HandlesKept, Inside
<1>2. /\ pc[s] \in Inside /\ pc'[s] \notin Inside
      /\ \A t \in Sessions : t # s => pc'[t] = pc[t]
      /\ handle' = handle /\ replica' = replica /\ tmp' = tmp
  BY DEF PickStore, ReleaseStore, Inside, Typed
<1>3. /\ \A d \in overlapped : d \in overlapped'
      /\ \A t \in Sessions : (/\ t # s /\ pc[t] \in Inside /\ handle[t] = h /\ replica[t] = q
                              /\ "releasing" \in {pc[s], pc[t]}) => <<h, q>> \in overlapped'
  BY <1>1 DEF PickStore, ReleaseStore, Store
<1>4. \A t \in Sessions : (t # s /\ pc[t] \in Inside /\ handle[t] = h /\ replica[t] = q) =>
        <<h, q>> \in overlapped'
  <2> SUFFICES ASSUME NEW t \in Sessions, t # s, pc[t] \in Inside, handle[t] = h, replica[t] = q
               PROVE  "releasing" \in {pc[s], pc[t]}
    BY <1>3
  <2> QED
    BY <1>1, <1>2 DEF CountInv, PicksApart, Inside
<1>5. PicksApart'
  BY <1>2 DEF CountInv, PicksApart, Inside
<1>6. \A g \in Gens, r \in Replicas : (g # h \/ r # q) =>
        Holders(g, r)' = Holders(g, r) /\ active'[g][r] = active[g][r]
  <2> SUFFICES ASSUME NEW g \in Gens, NEW r \in Replicas, g # h \/ r # q
               PROVE  Holders(g, r)' = Holders(g, r) /\ active'[g][r] = active[g][r]
    OBVIOUS
  <2>1. active'[g][r] = active[g][r]
    BY <1>1 DEF PickStore, ReleaseStore, Store, Typed
  <2>2. Holders(g, r)' = Holders(g, r)
    BY <1>1, <1>2 DEF Holders
  <2> QED
    BY <2>1, <2>2
<1>7. LoadedIsCurrent'
  <2> SUFFICES ASSUME NEW t \in Sessions, pc'[t] \in Inside,
                      <<handle[t], replica[t]>> \notin overlapped'
               PROVE  tmp[t] = active'[handle[t]][replica[t]]
    BY <1>2 DEF LoadedIsCurrent
  <2>1. t # s /\ pc[t] \in Inside
    BY <1>2
  <2>2. handle[t] \in Gens /\ replica[t] \in Replicas
    BY <2>1 DEF HandlesKept
  <2>3. handle[t] # h \/ replica[t] # q
    BY <1>4, <2>1
  <2>4. tmp[t] = active[handle[t]][replica[t]]
    BY <1>3, <2>1 DEF CountInv, LoadedIsCurrent
  <2> QED
    BY <1>6, <2>2, <2>3, <2>4
<1>8. <<h, q>> \notin overlapped' => active'[h][q] = Cardinality(Holders(h, q)')
  <2> SUFFICES ASSUME <<h, q>> \notin overlapped'
               PROVE  active'[h][q] = Cardinality(Holders(h, q)')
    OBVIOUS
  <2>0. IsFiniteSet(Holders(h, q)) /\ Cardinality(Holders(h, q)) \in Nat
    BY HoldersFinite, FS_CardinalityType
  <2>1. tmp[s] = Cardinality(Holders(h, q))
    <3>1. <<h, q>> \notin overlapped
      BY <1>3
    <3> QED
      BY <1>1, <1>2, <3>1 DEF CountInv, LoadedIsCurrent, ExactUnlessOverlapped
  <2>2. CASE PickStore(s)
    <3>1. s \notin Holders(h, q)
      BY <1>1, <2>2 DEF PickStore, Holders, Holding
    <3>2. Holders(h, q)' = Holders(h, q) \union {s}
      BY <1>1, <1>2, <2>2 DEF PickStore, Holders, Holding, Typed
    <3>3. active'[h][q] = tmp[s] + 1
      BY <1>1, <2>2 DEF PickStore, Store, Typed
    <3> QED
      BY <2>0, <2>1, <3>1, <3>2, <3>3, FS_AddElement
  <2>3. CASE ReleaseStore(s)
    <3>1. s \in Holders(h, q)
      BY <1>1, <2>3 DEF ReleaseStore, Holders, Holding
    <3>2. Holders(h, q)' = Holders(h, q) \ {s}
      BY <1>1, <1>2, <2>3 DEF ReleaseStore, Holders, Holding, Typed
    <3>3. active'[h][q] = tmp[s] - 1
      BY <1>1, <2>3 DEF ReleaseStore, Store, Typed
    <3>4. Cardinality(Holders(h, q)') = Cardinality(Holders(h, q)) - 1
      BY <2>0, <3>1, <3>2, FS_RemoveElement
    <3> QED
      BY <2>0, <2>1, <3>3, <3>4
  <2> QED
    BY <2>2, <2>3
<1>9. ExactUnlessOverlapped'
  <2> SUFFICES ASSUME NEW g \in Gens, NEW r \in Replicas, <<g, r>> \notin overlapped'
               PROVE  active'[g][r] = Cardinality(Holders(g, r)')
    BY DEF ExactUnlessOverlapped
  <2>1. CASE g = h /\ r = q
    BY <1>8, <2>1
  <2>2. CASE g # h \/ r # q
    <3>1. <<g, r>> \notin overlapped
      BY <1>3
    <3> QED
      BY <1>6, <2>2, <3>1 DEF CountInv, ExactUnlessOverlapped
  <2> QED
    BY <2>1, <2>2
<1> QED
  BY <1>5, <1>7, <1>9 DEF CountInv

\* At the start all counters are 0 and nobody holds a replica.
LEMMA InitCounts == Init => CountInv
<1> SUFFICES ASSUME Init PROVE CountInv
  OBVIOUS
<1>1. PicksApart /\ LoadedIsCurrent
  BY DEF Init, PicksApart, LoadedIsCurrent, Inside
<1>2. \A g, r : Holders(g, r) = {}
  BY DEF Init, Holders, Holding
<1>3. ExactUnlessOverlapped
  BY <1>2, FS_EmptySet DEF Init, ExactUnlessOverlapped
<1> QED
  BY <1>1, <1>3 DEF CountInv

\* Every step keeps it, whichever threads run which sessions.
LEMMA CountStep ==
  ASSUME Typed, HandlesKept, CountInv, [Next]_vars
  PROVE  CountInv'
<1>1. ASSUME NEW s \in Sessions, SessionStep(s)
      PROVE  CountInv'
  <2>1. CASE PickStore(s) \/ ReleaseStore(s)
    BY <2>1, StoreKeeps
  <2>2. CASE ~PickStore(s) /\ ~ReleaseStore(s)
    BY <1>1, <2>2, SessionNeutral, NeutralKeeps
  <2> QED
    BY <2>1, <2>2
<1>2. ASSUME UNCHANGED <<active, overlapped, pc, handle, replica, tmp>>
      PROVE  CountInv'
  BY <1>2 DEF CountInv, PicksApart, LoadedIsCurrent, ExactUnlessOverlapped, Holders
<1> QED
  BY <1>1, <1>2 DEF Next, vars, apply_routing_update, CoolingEnds

\* For any number of threads, sessions, replicas and routing updates:
\* active_requests is the number of requests in flight as long as no
\* ~ReplicaReleaser has overlapped another access to it.  Every way out of
\* send_request gives back exactly what pick_next_replica took.
THEOREM CountsExactUnlessOverlapped == Spec => []ExactUnlessOverlapped
<1>1. Init => CountInv
  BY InitCounts
<1>2. TypeOK /\ CountInv /\ [Next]_vars => CountInv'
  BY CountStep DEF TypeOK
<1>3. CountInv => ExactUnlessOverlapped
  BY DEF CountInv
<1> QED
  BY <1>1, <1>2, <1>3, ProxyTypes, PTL DEF Spec

-----------------------------------------------------------------------------
(* Any number of threads: the gauge is exact.                              *)

Open == {s \in Sessions : pc[s] \notin {"idle", "done"}}

\* Accept opens a session and adds one to the gauge; ServeMetrics and Close end
\* one and take one off; no other step does either.
LEMMA GaugeStep ==
  ASSUME Typed, GaugeIsExact, [Next]_vars
  PROVE  GaugeIsExact'
<1> USE DEF Typed
<1>0. IsFiniteSet(Open) /\ Cardinality(Open) \in Nat /\ gauge = Cardinality(Open)
  BY SessionsAssumption, FS_Subset, FS_CardinalityType DEF GaugeIsExact, Open
<1>1. SUFFICES gauge' = Cardinality(Open')
  BY DEF GaugeIsExact, Open
<1>2. ASSUME NEW s \in Sessions, Accept(s)
      PROVE  gauge' = Cardinality(Open')
  <2>1. s \notin Open /\ Open' = Open \union {s} /\ gauge' = gauge + 1
    BY <1>2 DEF Accept, Open
  <2> QED
    BY <1>0, <2>1, FS_AddElement
<1>3. ASSUME NEW s \in Sessions, ServeMetrics(s) \/ Close(s)
      PROVE  gauge' = Cardinality(Open')
  <2>1. s \in Open /\ Open' = Open \ {s} /\ gauge' = gauge - 1
    BY <1>3 DEF ServeMetrics, Close, Open
  <2> QED
    BY <1>0, <2>1, FS_RemoveElement
<1>4. ASSUME NEW s \in Sessions, SessionStep(s), ~Accept(s), ~ServeMetrics(s), ~Close(s)
      PROVE  gauge' = Cardinality(Open')
  <2>1. gauge' = gauge
    BY <1>4 DEF SessionStep, SessionFails, Route, NotFound, HeaderWritten, PickLoad, PickStore,
         PickNone, RpcStarts, RpcFails, Token, ClientGone, RpcFinishes, ReleaseLoad, ReleaseStore
  <2>2. /\ pc[s] \notin {"idle", "done"} /\ pc'[s] \notin {"idle", "done"}
        /\ \A t \in Sessions : t # s => pc'[t] = pc[t]
    BY <1>4 DEF SessionStep, SessionFails, Route, NotFound, HeaderWritten, PickLoad, PickStore,
         PickNone, RpcStarts, RpcFails, Token, ClientGone, RpcFinishes, ReleaseLoad, ReleaseStore
  <2>3. Open' = Open
    BY <2>2 DEF Open
  <2> QED
    BY <1>0, <2>1, <2>3
<1>5. ASSUME UNCHANGED <<pc, gauge>>
      PROVE  gauge' = Cardinality(Open')
  BY <1>0, <1>5 DEF Open
<1> QED
  BY <1>2, <1>3, <1>4, <1>5 DEF Next, vars, apply_routing_update, CoolingEnds

\* The gauge of open sessions is released on every way out of http_session, for
\* any number of sessions and threads.
THEOREM GaugeExact == Spec => []GaugeIsExact
<1>1. Init => GaugeIsExact
  <2> SUFFICES ASSUME Init PROVE GaugeIsExact
    OBVIOUS
  <2>1. {s \in Sessions : pc[s] \notin {"idle", "done"}} = {}
    BY DEF Init
  <2> QED
    BY <2>1, FS_EmptySet DEF Init, GaugeIsExact
<1>2. TypeOK /\ GaugeIsExact /\ [Next]_vars => GaugeIsExact'
  BY GaugeStep DEF TypeOK
<1> QED
  BY <1>1, <1>2, ProxyTypes, PTL DEF Spec

-----------------------------------------------------------------------------
(* Any number of threads: a request is counted once.                       *)

\* A session is counted on its way out, and not before.
CountedOnTheWayOut ==
  \A s \in Sessions :
    /\ pc[s] \in {"unwinding", "releasing", "closing"} => outcome[s] # "none"
    /\ pc[s] \notin {"unwinding", "releasing", "closing", "done"} => outcome[s] = "none"

\* A session is counted in one step at most, one that leaves the request
\* behind, and one that closes has been.
OutcomeFinal ==
  \A s \in Sessions :
    /\ outcome[s] # "none" => outcome'[s] = outcome[s]
    /\ (pc[s] = "closing" /\ pc'[s] = "done") => outcome[s] # "none"

\* Every way out of http_session passes exactly one of the places that count.
LEMMA CountingStep ==
  ASSUME Typed, CountedOnTheWayOut, [Next]_vars
  PROVE  CountedOnTheWayOut' /\ OutcomeFinal
<1> USE DEF Typed
<1>1. ASSUME NEW s \in Sessions, NEW l, pc' = [pc EXCEPT ![s] = l], UNCHANGED outcome,
             l \in {"unwinding", "releasing", "closing"} =>
               pc[s] \in {"unwinding", "releasing", "closing"},
             l \notin {"unwinding", "releasing", "closing", "done"} =>
               pc[s] \notin {"unwinding", "releasing", "closing", "done"}
      PROVE  CountedOnTheWayOut' /\ OutcomeFinal
  BY <1>1 DEF CountedOnTheWayOut, OutcomeFinal
<1>2. ASSUME NEW s \in Sessions, NEW v \in {"success", "error"},
             outcome' = [outcome EXCEPT ![s] = v],
             pc' = [pc EXCEPT ![s] = "closing"] \/ pc' = [pc EXCEPT ![s] = "unwinding"],
             pc[s] \notin {"unwinding", "releasing", "closing", "done"}
      PROVE  CountedOnTheWayOut' /\ OutcomeFinal
  BY <1>2 DEF CountedOnTheWayOut, OutcomeFinal
<1>3. ASSUME NEW s \in Sessions,
             Accept(s) \/ ServeMetrics(s) \/ HeaderWritten(s) \/ PickLoad(s) \/ PickStore(s)
               \/ RpcStarts(s) \/ ReleaseLoad(s) \/ ReleaseStore(s) \/ Close(s)
      PROVE  CountedOnTheWayOut' /\ OutcomeFinal
  BY <1>1, <1>3 DEF Accept, ServeMetrics, HeaderWritten, PickLoad, PickStore, RpcStarts,
                    ReleaseLoad, ReleaseStore, Close
<1>4. ASSUME NEW s \in Sessions, Route(s) PROVE CountedOnTheWayOut' /\ OutcomeFinal
  BY <1>1, <1>4 DEF Route
<1>5. ASSUME NEW s \in Sessions,
             SessionFails(s) \/ NotFound(s) \/ PickNone(s) \/ RpcFails(s) \/ ClientGone(s)
               \/ RpcFinishes(s)
      PROVE  CountedOnTheWayOut' /\ OutcomeFinal
  BY <1>2, <1>5 DEF SessionFails, NotFound, PickNone, RpcFails, ClientGone, RpcFinishes
<1>6. ASSUME UNCHANGED <<pc, outcome>> PROVE CountedOnTheWayOut' /\ OutcomeFinal
  BY <1>6 DEF CountedOnTheWayOut, OutcomeFinal
<1>7. ASSUME NEW s \in Sessions, Token(s) PROVE CountedOnTheWayOut' /\ OutcomeFinal
  BY <1>6, <1>7 DEF Token
<1> QED
  BY <1>3, <1>4, <1>5, <1>6, <1>7
  DEF Next, SessionStep, vars, apply_routing_update, CoolingEnds

\* proxy_requests_total: however a session ends it is counted under one status,
\* once, and none that was routed is left out, for any number of threads.
THEOREM EachCountedOnce == Spec => CountedOnce
<1>1. Init => CountedOnTheWayOut
  BY DEF Init, CountedOnTheWayOut
<1>2. TypeOK /\ CountedOnTheWayOut /\ [Next]_vars => CountedOnTheWayOut' /\ OutcomeFinal
  BY CountingStep DEF TypeOK
<1> QED
  BY <1>1, <1>2, ProxyTypes, PTL DEF Spec, CountedOnce, OutcomeFinal
=============================================================================
