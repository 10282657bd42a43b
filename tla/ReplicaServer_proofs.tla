------------------------- MODULE ReplicaServer_proofs -------------------------
(***************************************************************************)
(* Proofs about the replica process, for any number of requests and texts  *)
(* of any length: types, that no wakeup of the queue is lost, that chunks  *)
(* stay in order without gap, and that a replica implements TokenStream.   *)
(***************************************************************************)
EXTENDS ReplicaServer, SequenceTheorems, TLAPS

\* A slice within a text is made of its characters.
LEMMA SliceOfText ==
  ASSUME NEW S, NEW s \in Seq(S), NEW a \in Nat, NEW b \in Nat, b <= Len(s)
  PROVE  SubSeq(s, a + 1, b) \in Seq(S)
<1>1. \A i \in (a + 1)..b : s[i] \in S
  BY LenProperties
<1> QED BY <1>1, SubSeqProperties

\* What the handler holds and what waits in the queue lies within the text.
WithinText ==
  \A r \in Requests :
    /\ item[r].to <= Len(text[r])
    /\ \A i \in DOMAIN queue[r] : queue[r][i].to <= Len(text[r])

ReplicaInv == TypeOK /\ WithinText /\ NoLostWakeup

\* What put and close leave of a sleeping consumer.
LEMMA AwakeTypes ==
  ASSUME TypeOK, NEW r \in Requests
  PROVE  /\ Awake(r) \in [Requests -> HandlerStates]
         /\ Awake(r)[r] # "asleep"
         /\ \A o \in Requests \ {r} : Awake(r)[o] = handler[o]
  BY DEF TypeOK, Awake, HandlerStates

\* A chunk that lies within the text as it is now is put into the queue.
LEMMA PutKeeps ==
  ASSUME ReplicaInv, NEW r \in Requests, NEW c \in Chunk, put(r, c),
         text' \in [Requests -> Seq(Chars)],
         \A o \in Requests : Len(text[o]) <= Len(text'[o]),
         c.to <= Len(text'[r]), UNCHANGED <<item, closed>>
  PROVE  /\ queue' \in [Requests -> Seq(Chunk)]
         /\ handler' \in [Requests -> HandlerStates]
         /\ WithinText' /\ NoLostWakeup'
<1>1. /\ queue \in [Requests -> Seq(Chunk)] /\ item \in [Requests -> Chunk]
      /\ queue' = [queue EXCEPT ![r] = Append(queue[r], c)]
      /\ handler' = Awake(r)
  BY DEF ReplicaInv, TypeOK, put
<1>2. queue' \in [Requests -> Seq(Chunk)] /\ handler' \in [Requests -> HandlerStates]
  BY <1>1, AwakeTypes DEF ReplicaInv
<1>3. \A o \in Requests : Len(text[o]) \in Nat /\ Len(text'[o]) \in Nat
  BY DEF ReplicaInv, TypeOK
<1>4. \A o \in Requests : item'[o].to <= Len(text'[o])
  <2> SUFFICES ASSUME NEW o \in Requests PROVE item[o].to <= Len(text'[o])
    OBVIOUS
  <2>1. item[o].to \in Int /\ item[o].to <= Len(text[o])
    BY <1>1 DEF ReplicaInv, WithinText, Chunk
  <2> QED BY <1>3, <2>1
<1>5. \A o \in Requests : \A i \in DOMAIN queue'[o] : queue'[o][i].to <= Len(text'[o])
  <2> SUFFICES ASSUME NEW o \in Requests, NEW i \in DOMAIN queue'[o]
               PROVE  queue'[o][i].to <= Len(text'[o])
    OBVIOUS
  <2>1. CASE i \in DOMAIN queue[o] /\ queue'[o][i] = queue[o][i]
    <3>1. queue[o][i].to \in Int /\ queue[o][i].to <= Len(text[o])
      <4>1. queue[o] \in Seq(Chunk)
        BY <1>1
      <4>2. queue[o][i] \in Chunk
        BY <2>1, <4>1
      <4>3. queue[o][i].to \in Int
        BY <4>2 DEF Chunk
      <4> QED BY <2>1, <4>3 DEF ReplicaInv, WithinText
    <3> QED BY <1>3, <2>1, <3>1
  <2>2. CASE o = r /\ queue'[o][i] = c
    BY <2>2
  <2>3. CASE o = r
    <3>1. queue'[o] = Append(queue[o], c) /\ queue[o] \in Seq(Chunk)
      BY <1>1, <2>3
    <3> QED BY <2>1, <2>2, <2>3, <3>1
  <2>4. CASE o # r
    BY <1>1, <2>1, <2>4
  <2> QED BY <2>3, <2>4
<1>6. NoLostWakeup'
  BY <1>1, AwakeTypes DEF ReplicaInv, NoLostWakeup
<1> QED BY <1>2, <1>4, <1>5, <1>6 DEF WithinText

\* The invariant holds in a fresh process.
LEMMA ReplicaInitInv == Init => ReplicaInv
  BY LengthsAssumption
     DEF Init, ReplicaInv, TypeOK, WithinText, NoLostWakeup, NoChunk, Chunk,
         HandlerStates, CoroStates

\* Every step of the process keeps it.
LEMMA ReplicaNextInv == ReplicaInv /\ [Next]_vars => ReplicaInv'
<1> SUFFICES ASSUME ReplicaInv, [Next]_vars PROVE ReplicaInv'
  OBVIOUS
<1>0. /\ queue \in [Requests -> Seq(Chunk)] /\ text \in [Requests -> Seq(Chars)]
      /\ item \in [Requests -> Chunk] /\ received \in [Requests -> Seq(Chars)]
      /\ MaxLen \in Nat
  BY LengthsAssumption DEF ReplicaInv, TypeOK
<1>1. CASE Main
  BY <1>1 DEF ReplicaInv, TypeOK, WithinText, NoLostWakeup, Main, LoadModel, Exit,
              RegisterReplicaWithScheduler, call, q, producer, caller
<1>2. ASSUME NEW r \in Requests, SendRequest(r) \/ SendRequestRaises(r) \/ ClientLeaves(r)
      PROVE  ReplicaInv'
  <2>1. CASE SendRequest(r)
    BY <2>1 DEF ReplicaInv, TypeOK, WithinText, NoLostWakeup, SendRequest, process, q,
                HandlerStates, CoroStates
  <2>2. CASE SendRequestRaises(r)
    BY <2>2 DEF ReplicaInv, TypeOK, WithinText, NoLostWakeup, SendRequestRaises, process, q,
                producer, HandlerStates
  <2>3. CASE ClientLeaves(r)
    BY <2>3 DEF ReplicaInv, TypeOK, WithinText, NoLostWakeup, ClientLeaves, process, call,
                q, producer
  <2> QED BY <1>2, <2>1, <2>2, <2>3
<1>3. ASSUME NEW r \in Requests, GetItem(r) PROVE ReplicaInv'
  <2>1. /\ queue[r] \in Seq(Chunk) /\ queue[r] # <<>>
        /\ item' = [item EXCEPT ![r] = Head(queue[r])]
        /\ queue' = [queue EXCEPT ![r] = Tail(queue[r])]
        /\ handler' = [handler EXCEPT ![r] = "writing"]
        /\ UNCHANGED <<process, closed, producer, caller>>
    BY <1>0, <1>3 DEF GetItem
  <2>2. /\ Head(queue[r]) \in Chunk /\ Tail(queue[r]) \in Seq(Chunk)
        /\ Head(queue[r]) = queue[r][1] /\ 1 \in DOMAIN queue[r]
        /\ \A i \in DOMAIN Tail(queue[r]) :
             i + 1 \in DOMAIN queue[r] /\ Tail(queue[r])[i] = queue[r][i + 1]
    BY <2>1
  <2>3. TypeOK'
    BY <2>1, <2>2 DEF ReplicaInv, TypeOK, process, producer, caller, HandlerStates
  <2>4. WithinText'
    BY <1>0, <2>1, <2>2 DEF ReplicaInv, WithinText, producer
  <2>5. NoLostWakeup'
    <3>1. handler \in [Requests -> HandlerStates]
      BY DEF ReplicaInv, TypeOK
    <3> QED BY <1>0, <2>1, <3>1 DEF ReplicaInv, NoLostWakeup
  <2> QED BY <2>3, <2>4, <2>5 DEF ReplicaInv
<1>4. ASSUME NEW r \in Requests, GetSleeps(r) \/ GetEnd(r) \/ WriteFails(r) PROVE ReplicaInv'
  <2>1. /\ \/ handler' = [handler EXCEPT ![r] = "returned"]
           \/ /\ handler' = [handler EXCEPT ![r] = "asleep"]
              /\ queue[r] = <<>> /\ closed[r] = "no"
        /\ status' = status \/ status' = [status EXCEPT ![r] = "OK"]
        /\ UNCHANGED <<process, item, q, producer, client, received, flagged>>
    BY <1>4 DEF GetSleeps, GetEnd, WriteFails, caller
  <2>2. handler' \in [Requests -> HandlerStates]
    BY <2>1 DEF ReplicaInv, TypeOK, HandlerStates
  <2>3. status' \in [Requests -> {"none", "OK", "CANCELLED"}]
    BY <2>1 DEF ReplicaInv, TypeOK
  <2>4. TypeOK' /\ WithinText'
    BY <2>1, <2>2, <2>3 DEF ReplicaInv, TypeOK, WithinText, process, q, producer
  <2>5. NoLostWakeup'
    <3>1. handler \in [Requests -> HandlerStates]
      BY DEF ReplicaInv, TypeOK
    <3>2. queue' = queue /\ closed' = closed
      BY <2>1 DEF q
    <3> QED BY <2>1, <3>1, <3>2 DEF ReplicaInv, NoLostWakeup
  <2> QED BY <2>4, <2>5 DEF ReplicaInv
<1>5. ASSUME NEW r \in Requests, Write(r) PROVE ReplicaInv'
  <2>1. Slice(r) \in Seq(Chars)
    <3>1. item[r].from \in Nat /\ item[r].to \in Nat /\ item[r].to <= Len(text[r])
      BY <1>0 DEF ReplicaInv, WithinText, Chunk
    <3> QED BY <1>0, <3>1, SliceOfText DEF Slice
  <2>2. received' \in [Requests -> Seq(Chars)]
    <3>1. received[r] \o Slice(r) \in Seq(Chars)
      BY <1>0, <2>1, ConcatProperties
    <3>2. \/ received' = [received EXCEPT ![r] = received[r] \o Slice(r)]
          \/ received' = received
      BY <1>5 DEF Write
    <3> QED BY <1>0, <3>1, <3>2
  <2>3. /\ handler' = [handler EXCEPT ![r] = "getting"]
        /\ UNCHANGED <<process, item, q, producer, client, status>>
    BY <1>5 DEF Write
  <2>4. flagged' \in [Requests -> {"no", "yes"}]
    BY <1>5 DEF Write, ReplicaInv, TypeOK
  <2>5. handler \in [Requests -> HandlerStates] /\ handler' \in [Requests -> HandlerStates]
    BY <2>3 DEF ReplicaInv, TypeOK, HandlerStates
  <2>6. TypeOK' /\ WithinText'
    BY <2>2, <2>3, <2>4, <2>5 DEF ReplicaInv, TypeOK, WithinText, process, q, producer
  <2>7. NoLostWakeup'
    <3>1. queue' = queue /\ closed' = closed
      BY <2>3 DEF q
    <3> QED BY <2>3, <2>5, <3>1 DEF ReplicaInv, NoLostWakeup
  <2> QED BY <2>6, <2>7 DEF ReplicaInv
<1>6. ASSUME NEW r \in Requests, Generate(r) \/ GenerateRaises(r) \/ EngineEnds(r)
      PROVE  ReplicaInv'
  <2>1. /\ \E l \in CoroStates : coro' = [coro EXCEPT ![r] = l]
        /\ result' = result \/ result' = [result EXCEPT ![r] = "success"]
        /\ UNCHANGED <<process, call, q, text, sent_position, caller>>
    BY <1>6 DEF Generate, GenerateRaises, EngineEnds, CoroStates
  <2>2. coro' \in [Requests -> CoroStates]
    BY <2>1 DEF ReplicaInv, TypeOK
  <2>3. result' \in [Requests -> {"none", "success", "error"}]
    BY <2>1 DEF ReplicaInv, TypeOK
  <2> QED BY <2>1, <2>2, <2>3
          DEF ReplicaInv, TypeOK, WithinText, NoLostWakeup, process, call, q, caller
<1>7. ASSUME NEW r \in Requests, EngineRaises(r) PROVE ReplicaInv'
  <2> DEFINE c == [from |-> 0, to |-> 0, kind |-> "error"]
  <2>1. c \in Chunk
    BY <1>0 DEF Chunk
  <2>2. c.to <= Len(text'[r]) /\ text' = text
    BY <1>0, <1>7 DEF EngineRaises
  <2>3. /\ queue' \in [Requests -> Seq(Chunk)] /\ handler' \in [Requests -> HandlerStates]
        /\ WithinText' /\ NoLostWakeup'
    <3>1. put(r, c) /\ UNCHANGED <<item, closed>>
      BY <1>7 DEF EngineRaises
    <3>2. \A o \in Requests : Len(text[o]) \in Nat
      BY <1>0
    <3>3. text' \in [Requests -> Seq(Chars)] /\ \A o \in Requests : Len(text[o]) <= Len(text'[o])
      BY <1>0, <2>2, <3>2
    <3> QED BY <2>1, <2>2, <3>1, <3>3, PutKeeps
  <2> QED BY <1>7, <2>3 DEF ReplicaInv, TypeOK, EngineRaises, process, caller, CoroStates
<1>8. ASSUME NEW r \in Requests, Finally(r) PROVE ReplicaInv'
  BY <1>8, AwakeTypes
     DEF ReplicaInv, TypeOK, WithinText, NoLostWakeup, Finally, close, process, caller,
         CoroStates
<1>9. ASSUME NEW r \in Requests, NEW s \in Growth, EngineOutput(r, s) PROVE ReplicaInv'
  <2>1. s \in Seq(Chars)
    BY LengthsAssumption DEF Growth
  <2>2. /\ text' = [text EXCEPT ![r] = text[r] \o s] /\ Len(text[r]) + Len(s) <= MaxLen
        /\ put(r, NewText(r))
        /\ sent_position' = [sent_position EXCEPT ![r] = Len(text'[r])]
        /\ UNCHANGED <<process, item, closed, coro, result, caller>>
    BY <1>9 DEF EngineOutput
  <2>3. /\ text' \in [Requests -> Seq(Chars)]
        /\ Len(text'[r]) = Len(text[r]) + Len(s)
        /\ Len(text'[r]) \in 0..MaxLen
        /\ \A o \in Requests : Len(text[o]) <= Len(text'[o])
    <3>1. text[r] \o s \in Seq(Chars) /\ Len(text[r] \o s) = Len(text[r]) + Len(s)
      BY <1>0, <2>1
    <3>2. Len(s) \in Nat /\ \A o \in Requests : Len(text[o]) \in Nat
      BY <1>0, <2>1
    <3>3. text'[r] = text[r] \o s /\ \A o \in Requests \ {r} : text'[o] = text[o]
      BY <1>0, <2>2
    <3>4. text' \in [Requests -> Seq(Chars)]
      BY <1>0, <2>2, <3>1
    <3> QED BY <1>0, <2>2, <3>1, <3>2, <3>3, <3>4
  <2>4. NewText(r) \in Chunk /\ NewText(r).to <= Len(text'[r])
    <3>1. sent_position[r] \in 0..MaxLen
      BY DEF ReplicaInv, TypeOK
    <3> QED BY <2>3, <3>1 DEF NewText, Chunk
  <2>5. /\ queue' \in [Requests -> Seq(Chunk)] /\ handler' \in [Requests -> HandlerStates]
        /\ WithinText' /\ NoLostWakeup'
    BY <2>2, <2>3, <2>4, PutKeeps
  <2>6. sent_position' \in [Requests -> 0..MaxLen]
    BY <2>2, <2>3 DEF ReplicaInv, TypeOK
  <2> QED BY <2>2, <2>3, <2>5, <2>6 DEF ReplicaInv, TypeOK, process, caller
<1>10. CASE UNCHANGED vars
  BY <1>10 DEF ReplicaInv, TypeOK, WithinText, NoLostWakeup, vars, process, call, q,
               producer, caller
<1> QED
  BY <1>1, <1>2, <1>3, <1>4, <1>5, <1>6, <1>7, <1>8, <1>9, <1>10
  DEF Next, HandlerStep, GeneratorStep

\* The invariant holds in every behaviour of a replica process.
THEOREM ReplicaInvariant == Spec => []ReplicaInv
  BY ReplicaInitInv, ReplicaNextInv, PTL DEF Spec

\* The replica is type correct; a caller receives nothing but characters of texts.
THEOREM ReplicaTypes == Spec => []TypeOK
<1>1. ReplicaInv => TypeOK
  BY DEF ReplicaInv
<1> QED BY <1>1, ReplicaInvariant, PTL

\* ThreadSafeQueue: a gRPC thread asleep in get() has nothing to wake up for, for
\* any number of requests and however put, close and get interleave.
THEOREM NoWakeupLost == Spec => []NoLostWakeup
<1>1. ReplicaInv => NoLostWakeup
  BY DEF ReplicaInv
<1> QED BY <1>1, ReplicaInvariant, PTL

-----------------------------------------------------------------------------
(* Chunks in order: facts about sequences of chunks.                       *)

\* No chunk of s is an error message.
Clean(s) == \A i \in DOMAIN s : s[i].kind = "text"

\* A slice that begins where the text ends so far goes on with it.
LEMMA JoinSlice ==
  ASSUME NEW s \in Seq(Chunk), NEW e \in Nat, NEW c \in Chunk,
         Joined(s, e), Clean(s), c.kind = "text", c.from = e
  PROVE  /\ Joined(Append(s, c), c.to)
         /\ GoesOn(Append(s, c), 1, c.to) = GoesOn(s, 1, e)
<1> DEFINE t == Append(s, c)
<1>1. /\ DOMAIN s = 1..Len(s) /\ DOMAIN t = 1..(Len(s) + 1) /\ Len(s) \in Nat
      /\ t[Len(s) + 1] = c /\ \A i \in 1..Len(s) : t[i] = s[i]
  BY AppendProperties
<1> HIDE DEF t
<1>2. ASSUME NEW i \in DOMAIN t PROVE t[i].kind = "text" /\ t[i].to = GoesOn(t, i + 1, c.to)
  <2>1. CASE i = Len(s) + 1
    BY <1>1, <2>1 DEF GoesOn
  <2>2. CASE i = Len(s)
    BY <1>1, <1>2, <2>2 DEF GoesOn, Joined, Clean
  <2>3. CASE i < Len(s)
    BY <1>1, <1>2, <2>3 DEF GoesOn, Joined, Clean
  <2> QED BY <1>1, <1>2, <2>1, <2>2, <2>3
<1>3. GoesOn(t, 1, c.to) = GoesOn(s, 1, e)
  BY <1>1 DEF GoesOn, Clean
<1> QED BY <1>2, <1>3 DEF Joined, t

\* An error chunk may follow clean slices.
LEMMA JoinError ==
  ASSUME NEW s \in Seq(Chunk), NEW e \in Nat, NEW c \in Chunk,
         Joined(s, e), Clean(s), c.kind = "error"
  PROVE  /\ Joined(Append(s, c), e)
         /\ GoesOn(Append(s, c), 1, e) = GoesOn(s, 1, e)
<1> DEFINE t == Append(s, c)
<1>1. /\ DOMAIN s = 1..Len(s) /\ DOMAIN t = 1..(Len(s) + 1) /\ Len(s) \in Nat
      /\ t[Len(s) + 1] = c /\ Len(t) = Len(s) + 1 /\ \A i \in 1..Len(s) : t[i] = s[i]
  BY AppendProperties
<1> HIDE DEF t
<1>2. ASSUME NEW i \in DOMAIN t
      PROVE  IF t[i].kind = "text" THEN t[i].to = GoesOn(t, i + 1, e) ELSE i = Len(t)
  BY <1>1, <1>2 DEF GoesOn, Joined, Clean
<1>3. GoesOn(t, 1, e) = GoesOn(s, 1, e)
  BY <1>1 DEF GoesOn, Clean
<1> QED BY <1>2, <1>3 DEF Joined, t

\* Taking the first chunk leaves the others joined.
LEMMA JoinedTail ==
  ASSUME NEW s \in Seq(Chunk), NEW e \in Nat, Joined(s, e), s # <<>>
  PROVE  /\ Joined(Tail(s), e)
         /\ s[1].kind = "text" => s[1].to = GoesOn(Tail(s), 1, e)
         /\ s[1].kind = "error" => Tail(s) = <<>>
<1> DEFINE t == Tail(s)
<1>1. /\ DOMAIN s = 1..Len(s) /\ Len(s) \in Nat /\ Len(s) >= 1
      /\ Len(t) = Len(s) - 1 /\ DOMAIN t = 1..(Len(s) - 1)
      /\ \A i \in 1..(Len(s) - 1) : t[i] = s[i + 1]
      /\ t \in Seq(Chunk)
  BY HeadTailProperties, EmptySeq, LenProperties
<1>2. s[1].kind = "error" => t = <<>>
  <2>1. s[1].kind = "error" => Len(t) = 0
    BY <1>1 DEF Joined
  <2> QED BY <1>1, <2>1, EmptySeq
<1> HIDE DEF t
<1>3. ASSUME NEW i \in DOMAIN t
      PROVE  IF t[i].kind = "text" THEN t[i].to = GoesOn(t, i + 1, e) ELSE i = Len(t)
  <2>1. i \in 1..(Len(s) - 1) /\ i + 1 \in DOMAIN s /\ t[i] = s[i + 1]
    BY <1>1, <1>3
  <2>2. GoesOn(t, i + 1, e) = GoesOn(s, i + 2, e)
    BY <1>1, <2>1 DEF GoesOn
  <2>3. (i + 1) + 1 = i + 2
    BY <2>1
  <2> QED BY <1>1, <2>1, <2>2, <2>3 DEF Joined
<1>4. GoesOn(t, 1, e) = GoesOn(s, 2, e)
  BY <1>1 DEF GoesOn
<1>5. s[1].kind = "text" => s[1].to = GoesOn(t, 1, e)
  BY <1>1, <1>4 DEF Joined
<1> QED BY <1>2, <1>3, <1>5 DEF Joined, t

-----------------------------------------------------------------------------
(* What a request looks like at every moment.                              *)

\* What is pending, and what the caller has, follows the text.
InOrder(r) ==
  /\ sent_position[r] = Len(text[r])
  /\ \A i \in DOMAIN Pending(r) : Pending(r)[i].from <= Pending(r)[i].to
  /\ Joined(Pending(r), sent_position[r])
  /\ Len(received[r]) <= Len(text[r])
  /\ received[r] = SubSeq(text[r], 1, Len(received[r]))
  /\ client[r] = "there" /\ handler[r] # "returned" =>
       Len(received[r]) = GoesOn(Pending(r), 1, sent_position[r])

\* How far handler, coroutine and caller have come with each other.
InStep(r) ==
  /\ handler[r] = "idle" =>
       /\ client[r] = "none" /\ coro[r] = "none" /\ flagged[r] = "no"
       /\ queue[r] = <<>> /\ text[r] = <<>>
  /\ handler[r] # "idle" => client[r] # "none"
  /\ handler[r] # "returned" => status[r] = "none"
  /\ coro[r] \in {"closing", "over"} <=> result[r] # "none"
  /\ closed[r] = "yes" => coro[r] = "over"

\* The message is pending, or a marked chunk has been seen, from the moment the
\* engine raised.
ErrorLast(r) ==
  /\ \A i \in DOMAIN Pending(r) :
       Pending(r)[i].kind = "error" =>
         result[r] = "error" /\ Pending(r)[i].from = Pending(r)[i].to
  /\ result[r] = "error" /\ client[r] = "there" /\ handler[r] # "returned" /\ flagged[r] = "no"
       => Pending(r) # <<>> /\ Pending(r)[Len(Pending(r))].kind = "error"

StreamInv == \A r \in Requests : InOrder(r) /\ InStep(r) /\ ErrorLast(r)

\* What is pending is a sequence of chunks: the one in the handler's hands,
\* if there is one, before those in the queue.
LEMMA PendingShape ==
  ASSUME TypeOK, NEW r \in Requests
  PROVE  /\ Pending(r) \in Seq(Chunk)
         /\ handler[r] # "writing" => Pending(r) = queue[r]
         /\ handler[r] = "writing" =>
              Pending(r) # <<>> /\ Pending(r)[1] = item[r] /\ Tail(Pending(r)) = queue[r]
<1>1. queue[r] \in Seq(Chunk) /\ item[r] \in Chunk
  BY DEF TypeOK
<1>2. CASE handler[r] # "writing"
  BY <1>1, <1>2, ConcatEmptySeq DEF Pending
<1>3. CASE handler[r] = "writing"
  <2>1. Pending(r) = <<item[r]>> \o queue[r]
    BY <1>3 DEF Pending
  <2>2. <<item[r]>> \in Seq(Chunk) /\ Len(<<item[r]>>) = 1
    BY <1>1
  <2>3. /\ Pending(r) \in Seq(Chunk) /\ Len(Pending(r)) = Len(queue[r]) + 1
        /\ Pending(r)[1] = item[r]
        /\ \A i \in 1..Len(queue[r]) : Pending(r)[i + 1] = queue[r][i]
    BY <1>1, <2>1, <2>2
  <2>4. Pending(r) # <<>> /\ Len(queue[r]) \in Nat
    BY <1>1, <2>3, LenProperties, EmptySeq
  <2>5. /\ Tail(Pending(r)) \in Seq(Chunk) /\ Len(Tail(Pending(r))) = Len(queue[r])
        /\ \A i \in 1..Len(queue[r]) : Tail(Pending(r))[i] = queue[r][i]
    BY <2>3, <2>4, HeadTailProperties
  <2>6. Tail(Pending(r)) = queue[r]
    BY <1>1, <2>5, SeqEqual
  <2> QED BY <1>3, <2>3, <2>4, <2>6
<1> QED BY <1>2, <1>3

\* put adds at the end, whether the handler writes, reads or sleeps.
LEMMA PendingPut ==
  ASSUME TypeOK, NEW r \in Requests, NEW c \in Chunk, put(r, c), UNCHANGED item
  PROVE  Pending(r)' = Append(Pending(r), c)
<1>1. queue[r] \in Seq(Chunk) /\ item[r] \in Chunk /\ queue'[r] = Append(queue[r], c)
  BY DEF TypeOK, put
<1>2. handler'[r] = "writing" <=> handler[r] = "writing"
  BY DEF put, Awake, TypeOK, HandlerStates
<1>3. CASE handler[r] # "writing"
  <2>1. Pending(r)' = <<>> \o queue'[r] /\ Pending(r) = <<>> \o queue[r]
    BY <1>2, <1>3 DEF Pending
  <2>2. Append(queue[r], c) \in Seq(Chunk)
    BY <1>1, AppendProperties
  <2> QED BY <1>1, <2>1, <2>2, ConcatEmptySeq
<1>4. CASE handler[r] = "writing"
  <2>1. Pending(r)' = <<item[r]>> \o Append(queue[r], c) /\ Pending(r) = <<item[r]>> \o queue[r]
    BY <1>1, <1>2, <1>4 DEF Pending
  <2>2. <<item[r]>> \in Seq(Chunk) /\ <<c>> \in Seq(Chunk)
    BY <1>1
  <2>3. Append(queue[r], c) = queue[r] \o <<c>>
    BY <1>1, AppendIsConcat
  <2>4. Append(Pending(r), c) = Pending(r) \o <<c>>
    BY PendingShape, AppendIsConcat
  <2>5. \A a, b, d \in Seq(Chunk) : (a \o b) \o d = a \o (b \o d)
    BY ConcatAssociative
  <2> QED BY <1>1, <2>1, <2>2, <2>3, <2>4, <2>5
<1> QED BY <1>3, <1>4

\* A sequence is its head, then its tail.
LEMMA HeadThenTail ==
  ASSUME NEW S, NEW s \in Seq(S), s # <<>>
  PROVE  <<Head(s)>> \o Tail(s) = s
<1>1. Len(s) \in Nat /\ Len(s) >= 1
  BY EmptySeq, LenProperties
<1>2. SubSeq(s, 1, Len(s)) = <<s[1]>> \o SubSeq(s, 1 + 1, Len(s))
  BY <1>1, SubSeqRecursiveFirst
<1>3. SubSeq(s, 1, Len(s)) = s /\ Tail(s) = SubSeq(s, 2, Len(s)) /\ Head(s) = s[1]
  BY <1>1, SubSeqFull, TailIsSubSeq, HeadTailProperties
<1> QED BY <1>2, <1>3

\* Taking a chunk from the queue into the handler's hands changes nothing.
LEMMA PendingGet ==
  ASSUME TypeOK, NEW r \in Requests, GetItem(r)
  PROVE  Pending(r)' = Pending(r)
<1>1. /\ queue[r] \in Seq(Chunk) /\ queue[r] # <<>>
      /\ item'[r] = Head(queue[r]) /\ queue'[r] = Tail(queue[r])
      /\ handler[r] = "getting" /\ handler'[r] = "writing"
  BY DEF TypeOK, GetItem
<1>2. Pending(r)' = <<Head(queue[r])>> \o Tail(queue[r])
  BY <1>1 DEF Pending
<1>3. <<Head(queue[r])>> \o Tail(queue[r]) = queue[r]
  BY <1>1, HeadThenTail
<1> QED BY <1>1, <1>2, <1>3, PendingShape

\* The step leaves a request alone.
Untouched(r) ==
  /\ handler'[r] = handler[r] /\ item'[r] = item[r]
  /\ queue'[r] = queue[r] /\ closed'[r] = closed[r]
  /\ coro'[r] = coro[r] /\ text'[r] = text[r]
  /\ sent_position'[r] = sent_position[r] /\ result'[r] = result[r]
  /\ client'[r] = client[r] /\ received'[r] = received[r]
  /\ flagged'[r] = flagged[r] /\ status'[r] = status[r]

\* What is known of a request stays true while nobody touches it.
LEMMA UntouchedKeeps ==
  ASSUME NEW r \in Requests, Untouched(r), InOrder(r), InStep(r), ErrorLast(r)
  PROVE  InOrder(r)' /\ InStep(r)' /\ ErrorLast(r)'
<1>1. Pending(r)' = Pending(r)
  BY DEF Untouched, Pending
<1> QED BY <1>1 DEF Untouched, InOrder, InStep, ErrorLast

\* Every step is one of main, one of a single request, or a stutter.
StepOf(r) ==
  \/ SendRequest(r) \/ SendRequestRaises(r) \/ ClientLeaves(r)
  \/ HandlerStep(r) \/ GeneratorStep(r)
  \/ \E s \in Growth : EngineOutput(r, s)

\* Requests share nothing but the engine: a step for one leaves the others be.
LEMMA OthersUntouched ==
  ASSUME TypeOK, NEW r \in Requests, StepOf(r), NEW o \in Requests, o # r
  PROVE  Untouched(o)
<1>1. CASE SendRequest(r) \/ SendRequestRaises(r) \/ ClientLeaves(r)
  BY <1>1 DEF TypeOK, Untouched, SendRequest, SendRequestRaises, ClientLeaves, q, call, producer
<1>2. CASE HandlerStep(r)
  BY <1>2 DEF TypeOK, Untouched, HandlerStep, GetItem, GetSleeps, GetEnd, Write, WriteFails,
              q, call, producer, caller
<1>3. CASE GeneratorStep(r)
  BY <1>3 DEF TypeOK, Untouched, GeneratorStep, Generate, GenerateRaises, EngineEnds,
              EngineRaises, Finally, put, close, Awake, q, call, producer, caller
<1>4. ASSUME NEW s \in Growth, EngineOutput(r, s) PROVE Untouched(o)
  BY <1>4 DEF TypeOK, Untouched, EngineOutput, put, Awake, q, call, producer, caller
<1> QED BY <1>1, <1>2, <1>3, <1>4 DEF StepOf

\* main, and a stutter, touch no request.
LEMMA MainTouchesNone ==
  ASSUME Main \/ UNCHANGED vars, NEW o \in Requests
  PROVE  Untouched(o)
  BY DEF Untouched, Main, LoadModel, RegisterReplicaWithScheduler, Exit, vars, q, call,
         producer, caller

\* Main, the steps of a request and stuttering are all there is.
LEMMA Steps ==
  ASSUME [Next]_vars
  PROVE  Main \/ UNCHANGED vars \/ \E r \in Requests : StepOf(r)
  BY DEF Next, StepOf

-----------------------------------------------------------------------------
(* Prefixes of the text.                                                   *)

\* A prefix stays one when the text grows.
LEMMA PrefixOfLonger ==
  ASSUME NEW S, NEW s \in Seq(S), NEW t \in Seq(S), NEW u \in Seq(S),
         Len(s) <= Len(t), s = SubSeq(t, 1, Len(s))
  PROVE  Len(s) <= Len(t \o u) /\ s = SubSeq(t \o u, 1, Len(s))
<1>1. Len(s) \in Nat /\ Len(t) \in Nat /\ Len(u) \in Nat
      /\ Len(t \o u) = Len(t) + Len(u) /\ t \o u \in Seq(S)
  BY LenProperties, ConcatProperties
<1>2. CASE Len(s) = 0
  <2>1. s = <<>> /\ SubSeq(t \o u, 1, 0) = <<>>
    BY <1>1, <1>2, EmptySeq, SubSeqEmpty
  <2> QED BY <1>1, <1>2, <2>1
<1>3. CASE Len(s) > 0
  <2>1. 1 \in 1..Len(t) /\ Len(s) \in 1..Len(t)
    BY <1>1, <1>3
  <2>2. SubSeq(t \o u, 1, Len(s)) = SubSeq(t, 1, Len(s))
    BY <2>1, SubSeqOfConcat1
  <2> QED BY <1>1, <2>2
<1> QED BY <1>1, <1>2, <1>3

\* The next slice makes a longer prefix of it.
LEMMA PrefixThenSlice ==
  ASSUME NEW S, NEW s \in Seq(S), NEW t \in Seq(S), NEW b \in Nat,
         Len(s) <= b, b <= Len(t), s = SubSeq(t, 1, Len(s))
  PROVE  /\ Len(s \o SubSeq(t, Len(s) + 1, b)) = b
         /\ s \o SubSeq(t, Len(s) + 1, b) = SubSeq(t, 1, b)
<1>1. Len(s) \in Nat /\ Len(t) \in Nat
  BY LenProperties
<1>2. SubSeq(t, 1, Len(s)) \o SubSeq(t, Len(s) + 1, b) = SubSeq(t, 1, b)
  <2>1. 1 \in 1..(Len(t) + 1) /\ Len(s) \in (1 - 1)..Len(t) /\ b \in Len(s)..Len(t)
    BY <1>1
  <2> QED BY <2>1, ConcatAdjacentSubSeq
<1>3. Len(SubSeq(t, 1, b)) = b
  BY <1>1
<1> QED BY <1>2, <1>3

-----------------------------------------------------------------------------
(* The steps of a request.                                                 *)

\* The call begins: nothing has been generated and nothing received.
LEMMA SendRequestKeeps ==
  ASSUME ReplicaInv, NEW r \in Requests, InOrder(r), InStep(r), ErrorLast(r),
         SendRequest(r) \/ SendRequestRaises(r)
  PROVE  InOrder(r)' /\ InStep(r)' /\ ErrorLast(r)'
<1>1. /\ handler[r] = "idle" /\ handler'[r] \in {"getting", "returned"}
      /\ client'[r] = "there"
      /\ handler'[r] = "getting" => coro'[r] = "scheduled" /\ status'[r] = status[r]
      /\ handler'[r] = "returned" => coro'[r] = coro[r] /\ status'[r] = "CANCELLED"
      /\ UNCHANGED <<item, queue, closed, text, sent_position, result, received, flagged>>
  BY DEF SendRequest, SendRequestRaises, ReplicaInv, TypeOK, q, producer
<1>2. Pending(r)' = Pending(r) /\ Pending(r) = <<>>
  <2>1. Pending(r) = queue[r]
    BY <1>1, PendingShape DEF ReplicaInv
  <2>2. Pending(r)' = Pending(r)
    BY <1>1 DEF Pending
  <2> QED BY <1>1, <2>1, <2>2 DEF InStep
<1>3. Len(received[r]) = 0 /\ sent_position[r] = 0
  <2>1. Len(received[r]) \in Nat /\ text[r] = <<>> /\ Len(text[r]) = 0
    BY <1>1, EmptySeq DEF ReplicaInv, TypeOK, InStep
  <2> QED BY <2>1 DEF InOrder
<1>4. InOrder(r)'
  BY <1>1, <1>2, <1>3 DEF InOrder, GoesOn
<1>5. InStep(r)'
  BY <1>1 DEF InStep
<1>6. ErrorLast(r)'
  BY <1>1, <1>2 DEF ErrorLast, InStep
<1> QED BY <1>4, <1>5, <1>6

\* Steps that leave what is pending, the text and what was received alone.
LEMMA SameChunksKeep ==
  ASSUME ReplicaInv, NEW r \in Requests, InOrder(r), InStep(r), ErrorLast(r),
         \/ ClientLeaves(r) \/ GetItem(r) \/ GetSleeps(r) \/ GetEnd(r)
         \/ Generate(r) \/ GenerateRaises(r) \/ EngineEnds(r) \/ Finally(r)
  PROVE  InOrder(r)' /\ InStep(r)' /\ ErrorLast(r)'
<1>0. /\ handler[r] \in HandlerStates /\ coro[r] \in CoroStates
      /\ result[r] \in {"none", "success", "error"}
  BY DEF ReplicaInv, TypeOK
<1>1. Pending(r)' = Pending(r)
  <2>1. CASE GetItem(r)
    BY <2>1, PendingGet DEF ReplicaInv
  <2>2. CASE ~GetItem(r)
    <3>1. /\ queue'[r] = queue[r] /\ item'[r] = item[r]
          /\ handler'[r] = "writing" <=> handler[r] = "writing"
      BY <2>2 DEF ReplicaInv, TypeOK, ClientLeaves, GetSleeps, GetEnd, Generate,
                  GenerateRaises, EngineEnds, Finally, close, Awake, q, call
    <3> QED BY <3>1 DEF Pending
  <2> QED BY <2>1, <2>2
<1>2. UNCHANGED <<text, sent_position, received, flagged>>
  BY DEF ClientLeaves, GetItem, GetSleeps, GetEnd, Generate, GenerateRaises, EngineEnds,
         Finally, producer, caller
<1>3. /\ client'[r] = "there" => client[r] = "there"
      /\ handler'[r] # "returned" => handler[r] # "returned"
      /\ result'[r] # result[r] => result[r] = "none" /\ result'[r] = "success"
  BY <1>0 DEF ReplicaInv, TypeOK, InStep, ClientLeaves, GetItem, GetSleeps, GetEnd, Generate,
              GenerateRaises, EngineEnds, Finally, close, Awake, producer, caller, call
<1>4. InOrder(r)'
  BY <1>1, <1>2, <1>3 DEF InOrder
<1>5. InStep(r)'
  <2>1. CASE ClientLeaves(r)
    BY <2>1 DEF ReplicaInv, TypeOK, InStep, ClientLeaves, q, call, producer
  <2>2. CASE GetItem(r) \/ GetSleeps(r) \/ GetEnd(r)
    BY <2>2 DEF ReplicaInv, TypeOK, InStep, GetItem, GetSleeps, GetEnd, q, producer, caller
  <2>3. CASE Generate(r) \/ GenerateRaises(r) \/ EngineEnds(r)
    BY <2>3 DEF ReplicaInv, TypeOK, InStep, Generate, GenerateRaises, EngineEnds, q, call, caller
  <2>4. CASE Finally(r)
    BY <2>4 DEF ReplicaInv, TypeOK, InStep, Finally, close, Awake, caller
  <2> QED BY <2>1, <2>2, <2>3, <2>4
<1>6. ErrorLast(r)'
  BY <1>1, <1>2, <1>3 DEF ErrorLast
<1> QED BY <1>4, <1>5, <1>6

\* The chunk in the handler's hands is given to the caller, or lost with it.
LEMMA WriteKeeps ==
  ASSUME ReplicaInv, NEW r \in Requests, InOrder(r), InStep(r), ErrorLast(r),
         Write(r) \/ WriteFails(r)
  PROVE  InOrder(r)' /\ InStep(r)' /\ ErrorLast(r)'
<1> DEFINE p == Pending(r)
<1>1. /\ handler[r] = "writing" /\ handler'[r] \in {"getting", "returned"}
      /\ client[r] = "there" => handler'[r] = "getting"
      /\ handler'[r] = "getting" => status'[r] = status[r]
      /\ UNCHANGED <<item, queue, closed, text, sent_position, coro, result, client>>
  BY DEF Write, WriteFails, ReplicaInv, TypeOK, q, producer
<1>2. /\ p \in Seq(Chunk) /\ p # <<>> /\ p[1] = item[r] /\ Tail(p) = queue[r]
      /\ item[r] \in Chunk /\ queue[r] \in Seq(Chunk)
      /\ received[r] \in Seq(Chars) /\ text[r] \in Seq(Chars) /\ sent_position[r] \in Nat
  BY <1>1, PendingShape DEF ReplicaInv, TypeOK
<1>3. /\ DOMAIN p = 1..Len(p) /\ Len(p) \in Nat /\ Len(p) >= 1
      /\ Len(Tail(p)) = Len(p) - 1 /\ DOMAIN Tail(p) = 1..(Len(p) - 1)
      /\ \A i \in 1..(Len(p) - 1) : Tail(p)[i] = p[i + 1]
  BY <1>2, HeadTailProperties, LenProperties, EmptySeq
<1>4. Pending(r)' = Tail(p)
  <2>1. Pending(r)' = <<>> \o queue[r]
    BY <1>1 DEF Pending
  <2> QED BY <1>2, <2>1, ConcatEmptySeq
<1>5. /\ item[r].from \in Nat /\ item[r].to \in Nat /\ item[r].from <= item[r].to
      /\ item[r].to <= Len(text[r]) /\ item[r].kind \in {"text", "error"}
      /\ Len(received[r]) \in Nat /\ Len(text[r]) \in Nat
  <2>1. item[r].from <= item[r].to
    BY <1>2, <1>3 DEF InOrder
  <2> QED BY <1>2, <2>1, LenProperties DEF Chunk, ReplicaInv, WithinText
<1>6. /\ Joined(Tail(p), sent_position[r])
      /\ item[r].kind = "text" => item[r].to = GoesOn(Tail(p), 1, sent_position[r])
      /\ item[r].kind = "error" => Tail(p) = <<>>
  BY <1>2, JoinedTail DEF InOrder
<1>8. CASE client[r] # "there"
  <2>1. received'[r] = received[r] /\ flagged'[r] = flagged[r]
    BY <1>8 DEF Write, WriteFails
  <2>2. InOrder(r)'
    BY <1>1, <1>2, <1>3, <1>4, <1>6, <1>8, <2>1 DEF InOrder
  <2>3. InStep(r)'
    BY <1>1, <2>1 DEF InStep
  <2>4. ErrorLast(r)'
    BY <1>1, <1>3, <1>4, <1>8, <2>1 DEF ErrorLast
  <2> QED BY <2>2, <2>3, <2>4
<1>9. CASE client[r] = "there"
  <2>1. /\ received'[r] = received[r] \o Slice(r)
        /\ flagged'[r] = IF IsError(r) THEN "yes" ELSE flagged[r]
        /\ handler'[r] = "getting" /\ status'[r] = status[r]
    <3>1. Write(r)
      BY <1>9 DEF WriteFails
    <3>2. /\ received' = [received EXCEPT ![r] = received[r] \o Slice(r)]
          /\ flagged' = [flagged EXCEPT ![r] = IF IsError(r) THEN "yes" ELSE flagged[r]]
          /\ UNCHANGED status
      BY <1>9, <3>1 DEF Write
    <3>3. received \in [Requests -> Seq(Chars)] /\ flagged \in [Requests -> {"no", "yes"}]
      BY DEF ReplicaInv, TypeOK
    <3> QED BY <1>1, <1>9, <3>2, <3>3
  <2>2. Len(received[r]) = GoesOn(p, 1, sent_position[r]) /\ handler[r] # "returned"
    BY <1>1, <1>9 DEF InOrder
  <2>3. CASE item[r].kind = "text"
    <3>1. Len(received[r]) = item[r].from
      BY <1>2, <1>3, <2>2, <2>3 DEF GoesOn
    <3>2. received[r] = SubSeq(text[r], 1, Len(received[r]))
      BY DEF InOrder
    <3>3. Len(received'[r]) = item[r].to /\ received'[r] = SubSeq(text[r], 1, item[r].to)
      <4>1. Len(received[r]) <= item[r].to
        BY <1>5, <3>1
      <4>2. received'[r] = received[r] \o SubSeq(text[r], Len(received[r]) + 1, item[r].to)
        BY <2>1, <3>1 DEF Slice
      <4>3. /\ Len(received[r] \o SubSeq(text[r], Len(received[r]) + 1, item[r].to)) = item[r].to
            /\ received[r] \o SubSeq(text[r], Len(received[r]) + 1, item[r].to)
                 = SubSeq(text[r], 1, item[r].to)
        <5>1. /\ received[r] \in Seq(Chars) /\ text[r] \in Seq(Chars) /\ item[r].to \in Nat
              /\ item[r].to <= Len(text[r])
          BY <1>2, <1>5
        <5>2. PICK a, t, b : a = received[r] /\ t = text[r] /\ b = item[r].to
          OBVIOUS
        <5>3. /\ a \in Seq(Chars) /\ t \in Seq(Chars) /\ b \in Nat
              /\ Len(a) <= b /\ b <= Len(t) /\ a = SubSeq(t, 1, Len(a))
          BY <3>2, <4>1, <5>1, <5>2
        <5>4. /\ Len(a \o SubSeq(t, Len(a) + 1, b)) = b
              /\ a \o SubSeq(t, Len(a) + 1, b) = SubSeq(t, 1, b)
          BY <5>3, PrefixThenSlice
        <5> QED BY <5>2, <5>4
      <4> QED BY <4>2, <4>3
    <3>4. InOrder(r)'
      BY <1>1, <1>2, <1>3, <1>4, <1>5, <1>6, <2>3, <3>3 DEF InOrder
    <3>5. InStep(r)'
      BY <1>1, <2>1, <2>3 DEF InStep
    <3>6. ErrorLast(r)'
      <4>1. flagged'[r] = "no" => flagged[r] = "no"
        BY <2>1
      <4>2. \A i \in DOMAIN Tail(p) :
              Tail(p)[i].kind = "error" =>
                result[r] = "error" /\ Tail(p)[i].from = Tail(p)[i].to
        BY <1>3 DEF ErrorLast
      <4>3. result[r] = "error" /\ flagged[r] = "no" =>
              Tail(p) # <<>> /\ Tail(p)[Len(Tail(p))].kind = "error"
        <5> SUFFICES ASSUME result[r] = "error", flagged[r] = "no"
                     PROVE  Tail(p) # <<>> /\ Tail(p)[Len(Tail(p))].kind = "error"
          OBVIOUS
        <5>1. p[Len(p)].kind = "error"
          BY <1>9, <2>2 DEF ErrorLast
        <5>2. Len(p) # 1
          BY <1>2, <2>3, <5>1
        <5>3. Len(Tail(p)) \in 1..(Len(p) - 1) /\ Len(Tail(p)) + 1 = Len(p)
          BY <1>3, <5>2
        <5>4. Tail(p)[Len(Tail(p))] = p[Len(p)]
          BY <1>3, <5>3
        <5>5. Tail(p) # <<>>
          <6>1. Len(<<>>) = 0
            OBVIOUS
          <6>2. Len(Tail(p)) # 0
            BY <1>3, <5>3
          <6> QED BY <6>1, <6>2
        <5> QED BY <5>1, <5>4, <5>5
      <4> QED BY <1>1, <1>4, <4>1, <4>2, <4>3 DEF ErrorLast
    <3> QED BY <3>4, <3>5, <3>6
  <2>4. CASE item[r].kind = "error"
    <3>1. item[r].to = item[r].from
      BY <1>2, <1>3, <2>4 DEF ErrorLast
    <3>2. Slice(r) = <<>> /\ received'[r] = received[r]
      BY <1>2, <1>5, <2>1, <3>1, SubSeqEmpty, ConcatEmptySeq DEF Slice
    <3>3. Tail(p) = <<>> /\ Len(received[r]) = sent_position[r]
      BY <1>2, <1>3, <1>6, <2>2, <2>4 DEF GoesOn
    <3>4. InOrder(r)'
      <4>1. GoesOn(Tail(p), 1, sent_position[r]) = sent_position[r] /\ DOMAIN Tail(p) = {}
        <5>1. DOMAIN <<>> = {}
          OBVIOUS
        <5> QED BY <3>3, <5>1 DEF GoesOn
      <4> QED BY <1>1, <1>4, <1>6, <3>2, <3>3, <4>1 DEF InOrder
    <3>5. InStep(r)'
      BY <1>1, <2>1 DEF InStep
    <3>6. result[r] = "error"
      BY <1>2, <1>3, <2>4 DEF ErrorLast
    <3>7. flagged'[r] = "yes"
      BY <2>1, <2>4 DEF IsError
    <3>8. ErrorLast(r)'
      BY <1>1, <1>4, <3>3, <3>6, <3>7 DEF ErrorLast
    <3> QED BY <3>4, <3>5, <3>8
  <2> QED BY <1>5, <2>3, <2>4
<1> QED BY <1>8, <1>9

\* While the engine generates, no chunk is an error message.
LEMMA CleanWhileGenerating ==
  ASSUME ReplicaInv, NEW r \in Requests, InStep(r), ErrorLast(r), coro[r] = "generating"
  PROVE  Clean(Pending(r)) /\ result[r] = "none" /\ handler[r] # "idle"
<1>1. result[r] = "none" /\ handler[r] # "idle"
  BY DEF InStep
<1>2. ASSUME NEW i \in DOMAIN Pending(r) PROVE Pending(r)[i].kind = "text"
  <2>1. Pending(r) \in Seq(Chunk)
    BY PendingShape DEF ReplicaInv
  <2>2. Pending(r)[i] \in Chunk
    BY <2>1
  <2> QED BY <1>1, <2>2 DEF ErrorLast, Chunk
<1> QED BY <1>1, <1>2 DEF Clean

\* The engine raises: one error chunk behind the slices.
LEMMA EngineRaisesKeeps ==
  ASSUME ReplicaInv, NEW r \in Requests, InOrder(r), InStep(r), ErrorLast(r), EngineRaises(r)
  PROVE  InOrder(r)' /\ InStep(r)' /\ ErrorLast(r)'
<1> DEFINE c == [from |-> 0, to |-> 0, kind |-> "error"]
           p == Pending(r)
<1>1. c \in Chunk /\ put(r, c) /\ UNCHANGED <<item, closed, text, sent_position>>
      /\ UNCHANGED <<client, received, flagged, status>>
      /\ coro[r] = "generating" /\ coro'[r] = "closing" /\ result'[r] = "error"
  BY LengthsAssumption DEF EngineRaises, Chunk, ReplicaInv, TypeOK, caller
<1>2. Pending(r)' = Append(p, c)
  BY <1>1, PendingPut DEF ReplicaInv
<1>3. /\ handler'[r] = "returned" <=> handler[r] = "returned"
      /\ handler'[r] # "idle" /\ handler[r] # "idle"
  BY <1>1 DEF put, Awake, InStep, ReplicaInv, TypeOK
<1>4. Clean(p) /\ result[r] = "none"
  BY <1>1, CleanWhileGenerating
<1>5. /\ p \in Seq(Chunk) /\ sent_position[r] \in Nat /\ Len(p) \in Nat
      /\ DOMAIN p = 1..Len(p) /\ DOMAIN Append(p, c) = 1..(Len(p) + 1)
      /\ Len(Append(p, c)) = Len(p) + 1
      /\ Append(p, c)[Len(p) + 1] = c /\ \A i \in 1..Len(p) : Append(p, c)[i] = p[i]
  <2>1. p \in Seq(Chunk) /\ sent_position[r] \in Nat
    BY PendingShape DEF ReplicaInv, TypeOK
  <2> QED BY <1>1, <2>1, AppendProperties, LenProperties
<1>6. /\ Joined(Append(p, c), sent_position[r])
      /\ GoesOn(Append(p, c), 1, sent_position[r]) = GoesOn(p, 1, sent_position[r])
  BY <1>1, <1>4, <1>5, JoinError DEF InOrder
<1>7. c.from = 0 /\ c.to = 0 /\ c.kind = "error"
  OBVIOUS
<1> HIDE DEF c
<1>8. InOrder(r)'
  <2>1. \A i \in DOMAIN Append(p, c) : Append(p, c)[i].from <= Append(p, c)[i].to
    BY <1>5, <1>7 DEF InOrder
  <2> QED BY <1>1, <1>2, <1>3, <1>6, <2>1 DEF InOrder
<1>9. InStep(r)'
  BY <1>1, <1>3 DEF InStep
<1>10. ErrorLast(r)'
  <2>1. ASSUME NEW i \in DOMAIN Append(p, c), Append(p, c)[i].kind = "error"
        PROVE  Append(p, c)[i].from = Append(p, c)[i].to
    BY <1>4, <1>5, <1>7, <2>1 DEF Clean
  <2>2. Append(p, c) # <<>>
    <3>1. Len(<<>>) = 0
      OBVIOUS
    <3> QED BY <1>5, <3>1
  <2>3. Append(p, c)[Len(Append(p, c))].kind = "error"
    BY <1>5, <1>7
  <2>4. result'[r] = "error"
    BY <1>1
  <2> HIDE DEF p
  <2> QED BY <1>2, <2>1, <2>2, <2>3, <2>4 DEF ErrorLast
<1> QED BY <1>8, <1>9, <1>10

\* The engine reports more text: one slice more, from sent_position on.
LEMMA EngineOutputKeeps ==
  ASSUME ReplicaInv, NEW r \in Requests, InOrder(r), InStep(r), ErrorLast(r),
         NEW s \in Growth, EngineOutput(r, s)
  PROVE  InOrder(r)' /\ InStep(r)' /\ ErrorLast(r)'
<1> DEFINE c == NewText(r)
           p == Pending(r)
<1>1. /\ s \in Seq(Chars) /\ text[r] \in Seq(Chars) /\ received[r] \in Seq(Chars)
      /\ text'[r] = text[r] \o s /\ Len(text[r]) + Len(s) <= MaxLen
      /\ sent_position'[r] = Len(text'[r])
      /\ put(r, c) /\ coro[r] = "generating"
      /\ UNCHANGED <<item, closed, coro, result>>
      /\ UNCHANGED <<client, received, flagged, status>>
  BY LengthsAssumption DEF EngineOutput, Growth, ReplicaInv, TypeOK, caller
<1>2. /\ Len(text'[r]) = Len(text[r]) + Len(s) /\ Len(s) \in Nat /\ Len(text[r]) \in Nat
      /\ sent_position[r] = Len(text[r])
  BY <1>1, ConcatProperties, LenProperties DEF InOrder
<1>3. /\ c.from = sent_position[r] /\ c.to = sent_position'[r] /\ c.kind = "text"
      /\ c \in Chunk /\ c.from <= c.to
  BY <1>1, <1>2, LengthsAssumption DEF NewText, Chunk
<1> HIDE DEF c
<1>4. Pending(r)' = Append(p, c)
  BY <1>1, <1>3, PendingPut DEF ReplicaInv
<1>5. /\ handler'[r] = "returned" <=> handler[r] = "returned"
      /\ handler'[r] # "idle" /\ handler[r] # "idle"
  BY <1>1 DEF put, Awake, InStep, ReplicaInv, TypeOK
<1>6. Clean(p) /\ result[r] = "none"
  BY <1>1, CleanWhileGenerating
<1>7. /\ p \in Seq(Chunk) /\ sent_position[r] \in Nat /\ Len(p) \in Nat
      /\ DOMAIN p = 1..Len(p) /\ DOMAIN Append(p, c) = 1..(Len(p) + 1)
      /\ Append(p, c)[Len(p) + 1] = c /\ \A i \in 1..Len(p) : Append(p, c)[i] = p[i]
  <2>1. p \in Seq(Chunk) /\ sent_position[r] \in Nat
    BY PendingShape DEF ReplicaInv, TypeOK
  <2> QED BY <1>3, <2>1, AppendProperties, LenProperties
<1>8. /\ Joined(Append(p, c), sent_position'[r])
      /\ GoesOn(Append(p, c), 1, sent_position'[r]) = GoesOn(p, 1, sent_position[r])
  <2>1. Joined(p, sent_position[r])
    BY DEF InOrder
  <2> HIDE DEF p
  <2> QED BY <1>3, <1>6, <1>7, <2>1, JoinSlice
<1>9. InOrder(r)'
  <2>1. \A i \in DOMAIN Append(p, c) : Append(p, c)[i].from <= Append(p, c)[i].to
    BY <1>3, <1>7 DEF InOrder
  <2>2. Len(received[r]) <= Len(text'[r]) /\ received[r] = SubSeq(text'[r], 1, Len(received[r]))
    BY <1>1, PrefixOfLonger DEF InOrder
  <2> QED BY <1>1, <1>4, <1>5, <1>8, <2>1, <2>2 DEF InOrder
<1>10. InStep(r)'
  BY <1>1, <1>5 DEF InStep
<1>11. ErrorLast(r)'
  <2>1. \A i \in DOMAIN Append(p, c) : Append(p, c)[i].kind = "text"
    BY <1>3, <1>6, <1>7 DEF Clean
  <2>2. result'[r] = "none"
    BY <1>1, <1>6
  <2> HIDE DEF p
  <2> QED BY <1>4, <2>1, <2>2 DEF ErrorLast
<1> QED BY <1>9, <1>10, <1>11

-----------------------------------------------------------------------------
(* The invariant of a call.                                                *)

\* It holds before the first call.
LEMMA StreamInit == Init => StreamInv
<1> SUFFICES ASSUME Init, NEW r \in Requests PROVE InOrder(r) /\ InStep(r) /\ ErrorLast(r)
  BY DEF StreamInv
<1>1. Pending(r) = <<>>
  <2>1. Pending(r) = <<>> \o <<>>
    BY DEF Init, Pending
  <2> QED BY <2>1, EmptySeq, ConcatEmptySeq
<1>2. /\ received[r] = <<>> /\ text[r] = <<>> /\ sent_position[r] = 0 /\ client[r] = "none"
      /\ SubSeq(<<>>, 1, 0) = <<>> /\ Len(<<>>) = 0
  BY DEF Init
<1>3. InOrder(r)
  BY <1>1, <1>2 DEF InOrder, Joined
<1>4. InStep(r) /\ ErrorLast(r)
  BY <1>1 DEF Init, InStep, ErrorLast
<1> QED BY <1>3, <1>4

\* Every step keeps it, for the request it is a step of and for the others.
LEMMA StreamNext == ReplicaInv /\ StreamInv /\ [Next]_vars => StreamInv'
<1> SUFFICES ASSUME ReplicaInv, StreamInv, [Next]_vars, NEW o \in Requests
             PROVE  InOrder(o)' /\ InStep(o)' /\ ErrorLast(o)'
  BY DEF StreamInv
<1>1. CASE Untouched(o)
  BY <1>1, UntouchedKeeps DEF StreamInv
<1>2. CASE Main \/ UNCHANGED vars
  BY <1>1, <1>2, MainTouchesNone
<1>3. ASSUME NEW r \in Requests, StepOf(r) PROVE InOrder(o)' /\ InStep(o)' /\ ErrorLast(o)'
  <2>1. CASE o # r
    BY <1>1, <1>3, <2>1, OthersUntouched DEF ReplicaInv
  <2>2. CASE o = r
    BY <1>3, <2>2, SendRequestKeeps, SameChunksKeep, WriteKeeps, EngineRaisesKeeps,
       EngineOutputKeeps DEF StepOf, HandlerStep, GeneratorStep, StreamInv
  <2> QED BY <2>1, <2>2
<1> QED BY <1>2, <1>3, Steps

\* StreamInv holds in every behaviour, for any number of requests at the same
\* time, texts of any length and callers that leave when they like.
THEOREM StreamInvariant == Spec => []StreamInv
<1>1. Init => ReplicaInv /\ StreamInv
  BY ReplicaInitInv, StreamInit
<1>2. ReplicaInv /\ StreamInv /\ [Next]_vars => (ReplicaInv /\ StreamInv)'
  BY ReplicaNextInv, StreamNext
<1> QED BY <1>1, <1>2, PTL DEF Spec

\* generate_stream, the queue and SendRequest together neither lose nor repeat
\* nor reorder a slice of the text, and an error message comes last.
THEOREM NothingLostBetween == Spec => []Consecutive
<1>1. StreamInv => Consecutive
  BY DEF StreamInv, Consecutive, InOrder, ErrorLast
<1> QED BY <1>1, StreamInvariant, PTL

-----------------------------------------------------------------------------
(* A replica implements TokenStream.                                       *)

\* A text is a prefix of what it grows to, and of itself.
LEMMA IsPrefixConcat ==
  ASSUME NEW S, NEW s \in Seq(S), NEW u \in Seq(S)
  PROVE  Stream!IsPrefix(s, s \o u) /\ Stream!IsPrefix(s, s)
<1>1. Len(s) <= Len(s) /\ s = SubSeq(s, 1, Len(s))
  BY SubSeqFull, LenProperties
<1>2. Len(s) <= Len(s \o u) /\ s = SubSeq(s \o u, 1, Len(s))
  BY <1>1, PrefixOfLonger
<1> QED BY <1>1, <1>2 DEF Stream!IsPrefix

\* What InOrder says of the received text, in the words of TokenStream.
LEMMA ReceivedIsPrefix ==
  ASSUME TypeOK, NEW r \in Requests, InOrder(r)
  PROVE  Stream!IsPrefix(received[r], text[r])
<1>1. received[r] \in Seq(Chars)
  BY DEF TypeOK
<1>2. SubSeq(received[r], 1, Len(received[r])) = received[r]
  BY <1>1, SubSeqFull
<1> QED BY <1>2 DEF InOrder, Stream!IsPrefix

\* The engine's side and the caller's side of a request as TokenStream has them.
LEMMA Mapped ==
  ASSUME NEW r \in Requests
  PROVE  /\ Stream!EngineSame(r) <=>
              text'[r] = text[r] /\ (result'[r] = "success") = (result[r] = "success")
         /\ Stream!CallerSame(r) <=> received'[r] = received[r] /\ Verdict(r)' = Verdict(r)
  BY DEF Stream!EngineSame, Stream!CallerSame

\* A request that is not touched stutters.
LEMMA UntouchedStutters ==
  ASSUME NEW r \in Requests, Untouched(r)
  PROVE  Stream!EngineSame(r) /\ Stream!CallerSame(r)
<1>1. Verdict(r)' = Verdict(r)
  BY DEF Untouched, Verdict
<1> QED BY <1>1, Mapped DEF Untouched

\* The step of a request, as TokenStream sees it.
StreamStep(r) ==
  \/ Stream!Generate(r) \/ Stream!Deliver(r) \/ Stream!Complete(r) \/ Stream!Break(r)
  \/ Stream!EngineSame(r) /\ Stream!CallerSame(r)

\* The engine adds to its text, or ends it; the caller does not notice.
LEMMA GeneratorImplements ==
  ASSUME ReplicaInv, NEW r \in Requests, InOrder(r), InStep(r), ErrorLast(r),
         GeneratorStep(r) \/ \E s \in Growth : EngineOutput(r, s)
  PROVE  StreamStep(r)
<1>1. UNCHANGED <<client, received, flagged, status>>
  BY DEF GeneratorStep, Generate, GenerateRaises, EngineEnds, EngineRaises, Finally,
         EngineOutput, caller
<1>2. Stream!CallerSame(r)
  <2>1. Verdict(r)' = Verdict(r)
    BY <1>1 DEF Verdict
  <2> QED BY <1>1, <2>1, Mapped
<1>3. CASE Generate(r) \/ GenerateRaises(r) \/ EngineRaises(r) \/ Finally(r)
  <2>1. text'[r] = text[r] /\ (result'[r] = "success") = (result[r] = "success")
    BY <1>3 DEF Generate, GenerateRaises, EngineRaises, Finally, InStep, ReplicaInv, TypeOK
  <2> QED BY <1>2, <2>1, Mapped DEF StreamStep
<1>4. ASSUME NEW u \in Seq(Chars), coro[r] = "generating", text'[r] = text[r] \o u \/ text'[r] = text[r]
      PROVE  StreamStep(r)
  <2>1. result[r] # "success"
    BY <1>4 DEF InStep
  <2>2. text[r] \in Seq(Chars)
    BY DEF ReplicaInv, TypeOK
  <2>3. Stream!IsPrefix(text[r], text'[r])
    BY <1>4, <2>2, IsPrefixConcat
  <2> QED BY <1>2, <2>1, <2>3 DEF StreamStep, Stream!Generate
<1>5. CASE EngineEnds(r)
  <2>1. <<>> \in Seq(Chars) /\ coro[r] = "generating" /\ text'[r] = text[r]
    BY <1>5 DEF EngineEnds
  <2> QED BY <1>4, <2>1
<1>6. ASSUME NEW s \in Growth, EngineOutput(r, s) PROVE StreamStep(r)
  <2>1. s \in Seq(Chars) /\ coro[r] = "generating" /\ text'[r] = text[r] \o s
    BY <1>6, LengthsAssumption DEF EngineOutput, Growth, ReplicaInv, TypeOK
  <2> QED BY <1>4, <2>1
<1> QED BY <1>3, <1>5, <1>6 DEF GeneratorStep

\* The caller is served, told of an error, or leaves; the engine does not notice.
LEMMA CallerImplements ==
  ASSUME ReplicaInv, ReplicaInv', NEW r \in Requests, InOrder(r), InStep(r), ErrorLast(r),
         InOrder(r)',
         SendRequest(r) \/ SendRequestRaises(r) \/ ClientLeaves(r) \/ HandlerStep(r)
  PROVE  StreamStep(r)
<1>1. UNCHANGED <<text, result>>
  BY DEF SendRequest, SendRequestRaises, ClientLeaves, HandlerStep, GetItem, GetSleeps,
         GetEnd, Write, WriteFails, producer
<1>2. Stream!EngineSame(r)
  BY <1>1, Mapped
<1>3. CASE received'[r] = received[r] /\ Verdict(r)' = Verdict(r)
  BY <1>2, <1>3, Mapped DEF StreamStep
<1>4. CASE received'[r] = received[r] /\ Verdict(r) = "open" /\ Verdict(r)' = "broken"
  BY <1>2, <1>4 DEF StreamStep, Stream!Break
<1>5. CASE SendRequest(r)
  <2>1. /\ received'[r] = received[r] /\ handler[r] = "idle" /\ client'[r] = "there"
        /\ flagged'[r] = flagged[r] /\ status'[r] = status[r]
    BY <1>5 DEF SendRequest, ReplicaInv, TypeOK
  <2>2. Verdict(r)' = Verdict(r)
    BY <2>1 DEF Verdict, InStep
  <2> QED BY <1>3, <2>1, <2>2
<1>6. CASE SendRequestRaises(r)
  <2>1. /\ received'[r] = received[r] /\ handler[r] = "idle" /\ status'[r] = "CANCELLED"
    BY <1>6 DEF SendRequestRaises, ReplicaInv, TypeOK
  <2>2. Verdict(r) = "open" /\ Verdict(r)' = "broken"
    BY <2>1 DEF Verdict, InStep
  <2> QED BY <1>4, <2>1, <2>2
<1>7. CASE ClientLeaves(r)
  <2>1. /\ received'[r] = received[r] /\ handler[r] # "returned" /\ client'[r] = "gone"
        /\ client[r] = "there"
    BY <1>7 DEF ClientLeaves, ReplicaInv, TypeOK
  <2>2. Verdict(r) \in {"open", "broken"} /\ Verdict(r)' = "broken"
    BY <2>1 DEF Verdict, InStep
  <2> QED BY <1>3, <1>4, <2>1, <2>2
<1>8. CASE GetItem(r) \/ GetSleeps(r)
  <2>1. UNCHANGED <<client, received, flagged, status>>
    BY <1>8 DEF GetItem, GetSleeps, caller
  <2>2. Verdict(r)' = Verdict(r)
    BY <2>1 DEF Verdict
  <2> QED BY <1>3, <2>1, <2>2
<1>9. CASE WriteFails(r)
  <2>1. UNCHANGED <<client, received, flagged>> /\ client[r] = "gone"
    BY <1>9 DEF WriteFails
  <2>2. Verdict(r)' = Verdict(r)
    BY <2>1 DEF Verdict
  <2> QED BY <1>3, <2>1, <2>2
<1>10. CASE GetEnd(r)
  <2>1. /\ UNCHANGED <<client, received, flagged>> /\ status'[r] = "OK"
        /\ handler[r] = "getting" /\ queue[r] = <<>> /\ closed[r] = "yes"
    BY <1>10 DEF GetEnd, ReplicaInv, TypeOK
  <2>2. client[r] \in {"there", "gone"} /\ status[r] = "none"
    BY <2>1 DEF InStep, ReplicaInv, TypeOK
  <2>3. CASE client[r] = "gone"
    <3>1. Verdict(r)' = Verdict(r)
      BY <2>1, <2>3 DEF Verdict
    <3> QED BY <1>3, <2>1, <3>1
  <2>5. CASE client[r] = "there" /\ flagged[r] = "yes"
    <3>1. Verdict(r) = "open" /\ Verdict(r)' = "broken"
      BY <2>1, <2>2, <2>5 DEF Verdict
    <3> QED BY <1>4, <2>1, <3>1
  <2>4. CASE client[r] = "there" /\ flagged[r] # "yes"
    <3>1. Pending(r) = <<>>
      BY <2>1, PendingShape DEF ReplicaInv
    <3>2. result[r] = "success"
      BY <2>1, <2>4, <3>1 DEF InStep, ErrorLast, ReplicaInv, TypeOK
    <3>3. Len(received[r]) = Len(text[r])
      BY <2>1, <2>4, <3>1 DEF InOrder, GoesOn
    <3>4. received[r] = text[r]
      <4>1. text[r] \in Seq(Chars)
        BY DEF ReplicaInv, TypeOK
      <4>2. SubSeq(text[r], 1, Len(text[r])) = text[r]
        BY <4>1, SubSeqFull
      <4> QED BY <3>3, <4>2 DEF InOrder
    <3>5. Verdict(r) = "open" /\ Verdict(r)' = "complete"
      BY <2>1, <2>2, <2>4 DEF Verdict
    <3> QED BY <1>2, <2>1, <3>2, <3>4, <3>5 DEF StreamStep, Stream!Complete
  <2> QED BY <2>2, <2>3, <2>4, <2>5
<1>11. CASE Write(r)
  <2>1. handler[r] = "writing" /\ UNCHANGED <<client, status>>
    BY <1>11 DEF Write
  <2>2. status[r] = "none" /\ client[r] # "none" /\ client[r] \in {"none", "there", "gone"}
    BY <2>1 DEF InStep, ReplicaInv, TypeOK
  <2>3. Verdict(r)' = Verdict(r) /\ (client[r] = "there" => Verdict(r) = "open")
    BY <2>1, <2>2 DEF Verdict
  <2>4. CASE client[r] # "there"
    <3>1. received' = received
      BY <1>11, <2>4 DEF Write
    <3> QED BY <1>3, <2>3, <3>1
  <2>5. CASE client[r] = "there"
    <3>1. item[r] \in Chunk /\ text[r] \in Seq(Chars) /\ received \in [Requests -> Seq(Chars)]
      BY DEF ReplicaInv, TypeOK
    <3>2. item[r].from \in Nat /\ item[r].to \in Nat /\ item[r].to <= Len(text[r])
      BY <3>1 DEF Chunk, ReplicaInv, WithinText
    <3>3. Slice(r) \in Seq(Chars)
      BY <3>1, <3>2, SliceOfText DEF Slice
    <3>4. received' = [received EXCEPT ![r] = received[r] \o Slice(r)]
      BY <1>11, <2>5 DEF Write
    <3>5. received'[r] = received[r] \o Slice(r)
      BY <3>1, <3>4
    <3>6. Stream!IsPrefix(received[r], received'[r])
      BY <3>1, <3>3, <3>5, IsPrefixConcat
    <3>7. Stream!IsPrefix(received'[r], text[r])
      <4>1. received'[r] \in Seq(Chars) /\ text'[r] = text[r]
        BY <1>1 DEF ReplicaInv, TypeOK
      <4>2. SubSeq(received'[r], 1, Len(received'[r])) = received'[r]
        BY <4>1, SubSeqFull
      <4>3. /\ Len(received'[r]) <= Len(text'[r])
            /\ received'[r] = SubSeq(text'[r], 1, Len(received'[r]))
        BY DEF InOrder
      <4> QED BY <4>1, <4>2, <4>3 DEF Stream!IsPrefix
    <3> QED BY <1>2, <2>3, <2>5, <3>6, <3>7 DEF StreamStep, Stream!Deliver
  <2> QED BY <2>4, <2>5
<1> QED BY <1>5, <1>6, <1>7, <1>8, <1>9, <1>10, <1>11 DEF HandlerStep

\* A replica process, with its event loop, its queues and its gRPC threads,
\* implements TokenStream: every caller receives a prefix of the text its
\* request generated, and one whose call ends OK, with no chunk in which the
\* marker was found, has received the whole.  For any number of concurrent
\* requests, any marker, and texts that hold it.
THEOREM ReplicaImplementsStream == Spec => StreamSpec
<1>1. Init => Stream!Init
  <2> SUFFICES ASSUME Init PROVE Stream!Init
    OBVIOUS
  <2>1. /\ text = [r \in Requests |-> <<>>] /\ received = [r \in Requests |-> <<>>]
        /\ \A r \in Requests : result[r] = "none" /\ Verdict(r) = "open"
    BY DEF Init, Verdict
  <2>2. [r \in Requests |-> result[r] = "success"] = [r \in Requests |-> FALSE]
    BY <2>1
  <2>3. [r \in Requests |-> Verdict(r)] = [r \in Requests |-> "open"]
    BY <2>1
  <2> QED BY <2>1, <2>2, <2>3 DEF Stream!Init
<1>2. ASSUME ReplicaInv, ReplicaInv', StreamInv, StreamInv', [Next]_vars
      PROVE  Stream!Next
  <2> SUFFICES ASSUME NEW o \in Requests PROVE StreamStep(o)
    BY DEF Stream!Next, StreamStep
  <2>1. CASE Untouched(o)
    BY <2>1, UntouchedStutters DEF StreamStep
  <2>2. CASE Main \/ UNCHANGED vars
    BY <2>1, <2>2, MainTouchesNone
  <2>3. ASSUME NEW r \in Requests, StepOf(r) PROVE StreamStep(o)
    <3>1. CASE o # r
      BY <1>2, <2>1, <2>3, <3>1, OthersUntouched DEF ReplicaInv
    <3>2. CASE o = r
      BY <1>2, <2>3, <3>2, GeneratorImplements, CallerImplements DEF StepOf, StreamInv
    <3> QED BY <3>1, <3>2
  <2> QED BY <1>2, <2>2, <2>3, Steps
<1> QED
  BY <1>1, <1>2, ReplicaInvariant, StreamInvariant, PTL DEF Spec, StreamSpec, Stream!Spec
=============================================================================
