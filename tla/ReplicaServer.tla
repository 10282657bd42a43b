---------------------------- MODULE ReplicaServer ----------------------------
(***************************************************************************)
(* One replica process: the gRPC server (replica_server.cc) and the Python *)
(* ReplicaManager it embeds (add_replica.py).                              *)
(*                                                                         *)
(* A SendRequest handler runs on a thread of the gRPC server and takes     *)
(* chunks from a ThreadSafeQueue; the coroutine generate_stream runs on    *)
(* the thread of the Python event loop and fills it.  Every queue          *)
(* operation is atomic under the mutex of the queue; the predicate of      *)
(* cv.wait is tested, and the thread put to sleep, under the same mutex.   *)
(*                                                                         *)
(* The engine reports the whole text so far; a chunk is the slice          *)
(* text[from+1 .. to] of it, fixed once it is in the queue because the     *)
(* text only grows; or it is the message of the except block, which begins *)
(* with the marker "[PYTHON ERROR]" and adds nothing to the text.  Whether *)
(* a reply says is_error is found by searching the chunk for the marker,   *)
(* which a generated text may hold too, in one chunk or cut in two.        *)
(* Times and counters for Prometheus are left out.                         *)
(***************************************************************************)
EXTENDS Integers, Sequences

CONSTANTS
  Requests,    \* SendRequest calls
  Chars,       \* what texts are made of
  Marker,      \* the characters of "[PYTHON ERROR]"
  MaxLen,      \* bound: length of the text of a request (max_tokens)
  MaxStep      \* bound: characters one engine report adds

ASSUME LengthsAssumption == MaxLen \in Nat \ {0} /\ MaxStep \in Nat \ {0}
ASSUME MarkerAssumption == Marker \in Seq(Chars) /\ Marker # <<>>

Chunk == [from : 0..MaxLen, to : 0..MaxLen, kind : {"text", "error"}]
NoChunk == [from |-> 0, to |-> 0, kind |-> "text"]

VARIABLES
  life,       \* main: "loading", "serving", "registered", "exited"
  engine,     \* self.engine: "missing" or "loaded"
  handler,    \* where the SendRequest handler of each request is
  item,       \* the chunk it holds
  queue,      \* ThreadSafeQueue.q
  closed,     \* ThreadSafeQueue.closed: "no", "yes"
  coro,       \* where generate_stream is
  text,       \* the text the engine has generated
  sent_position,
  result,     \* the label REQUEST_COUNT counts it under
  client,     \* the caller: "none", "there", "gone"
  received,   \* the text it has received
  flagged,    \* "yes" once it has received a chunk with is_error
  status      \* the grpc::Status of the call: "none", "OK", "CANCELLED"

process == <<life, engine>>
call    == <<handler, item>>
q       == <<queue, closed>>
producer == <<coro, text, sent_position, result>>
caller  == <<client, received, flagged, status>>
vars    == <<process, call, q, producer, caller>>

HandlerStates == {"idle", "getting", "asleep", "writing", "returned"}
CoroStates == {"none", "scheduled", "generating", "closing", "over", "raised"}

TypeOK ==
  /\ life \in {"loading", "serving", "registered", "exited"}
  /\ engine \in {"missing", "loaded"}
  /\ handler \in [Requests -> HandlerStates]
  /\ item \in [Requests -> Chunk]
  /\ queue \in [Requests -> Seq(Chunk)]
  /\ closed \in [Requests -> {"no", "yes"}]
  /\ coro \in [Requests -> CoroStates]
  /\ text \in [Requests -> Seq(Chars)]
  /\ sent_position \in [Requests -> 0..MaxLen]
  /\ result \in [Requests -> {"none", "success", "error"}]
  /\ client \in [Requests -> {"none", "there", "gone"}]
  /\ received \in [Requests -> Seq(Chars)]
  /\ flagged \in [Requests -> {"no", "yes"}]
  /\ status \in [Requests -> {"none", "OK", "CANCELLED"}]

Init ==
  /\ life = "loading" /\ engine = "missing"
  /\ handler = [r \in Requests |-> "idle"]
  /\ item = [r \in Requests |-> NoChunk]
  /\ queue = [r \in Requests |-> <<>>]
  /\ closed = [r \in Requests |-> "no"]
  /\ coro = [r \in Requests |-> "none"]
  /\ text = [r \in Requests |-> <<>>]
  /\ sent_position = [r \in Requests |-> 0]
  /\ result = [r \in Requests |-> "none"]
  /\ client = [r \in Requests |-> "none"]
  /\ received = [r \in Requests |-> <<>>]
  /\ flagged = [r \in Requests |-> "no"]
  /\ status = [r \in Requests |-> "none"]

Up == life \in {"serving", "registered"}

-----------------------------------------------------------------------------
(* main: load the model, start the server, register.                       *)

\* init_model catches what from_engine_args raises and returns; main goes on
\* without an engine.
LoadModel(e) ==
  /\ life = "loading"
  /\ engine' = e
  /\ life' = "serving"
  /\ UNCHANGED <<call, q, producer, caller>>

RegisterReplicaWithScheduler ==
  /\ life = "serving"
  /\ life' = "registered"
  /\ UNCHANGED <<engine, call, q, producer, caller>>

\* Registration fails, or the process is signalled or crashes.
Exit ==
  /\ life # "exited"
  /\ life' = "exited"
  /\ UNCHANGED <<engine, call, q, producer, caller>>

-----------------------------------------------------------------------------
(* ThreadSafeQueue.                                                        *)

Awake(r) == [handler EXCEPT ![r] = IF @ = "asleep" THEN "getting" ELSE @]

\* Slip: a sleeping consumer is not notified.
put_unnotified(r, c) ==
  /\ queue' = [queue EXCEPT ![r] = Append(@, c)]
  /\ UNCHANGED handler

put(r, c) ==
  /\ queue' = [queue EXCEPT ![r] = Append(@, c)]
  /\ handler' = Awake(r)

\* Slip: a sleeping consumer is not notified.
close_unnotified(r) ==
  /\ closed' = [closed EXCEPT ![r] = "yes"]
  /\ UNCHANGED handler

close(r) ==
  /\ closed' = [closed EXCEPT ![r] = "yes"]
  /\ handler' = Awake(r)

-----------------------------------------------------------------------------
(* SendRequest.                                                            *)

\* The coroutine is handed to the event loop, and the handler turns to the
\* queue.
SendRequest(r) ==
  /\ Up /\ handler[r] = "idle"
  /\ client' = [client EXCEPT ![r] = "there"]
  /\ coro' = [coro EXCEPT ![r] = "scheduled"]
  /\ handler' = [handler EXCEPT ![r] = "getting"]
  /\ UNCHANGED <<process, item, q, text, sent_position, result, received, flagged, status>>

\* Python raises while the coroutine is made or handed over.
SendRequestRaises(r) ==
  /\ Up /\ handler[r] = "idle"
  /\ client' = [client EXCEPT ![r] = "there"]
  /\ handler' = [handler EXCEPT ![r] = "returned"]
  /\ status' = [status EXCEPT ![r] = "CANCELLED"]
  /\ UNCHANGED <<process, item, q, producer, received, flagged>>

\* get() finds a chunk, even in a queue that is closed already.
GetItem(r) ==
  /\ Up /\ handler[r] = "getting" /\ queue[r] # <<>>
  /\ item' = [item EXCEPT ![r] = Head(queue[r])]
  /\ queue' = [queue EXCEPT ![r] = Tail(@)]
  /\ handler' = [handler EXCEPT ![r] = "writing"]
  /\ UNCHANGED <<process, closed, producer, caller>>

GetSleeps(r) ==
  /\ Up /\ handler[r] = "getting" /\ queue[r] = <<>> /\ closed[r] = "no"
  /\ handler' = [handler EXCEPT ![r] = "asleep"]
  /\ UNCHANGED <<process, item, q, producer, caller>>

\* get() returns nullopt: the handler returns OK.
GetEnd(r) ==
  /\ Up /\ handler[r] = "getting" /\ queue[r] = <<>> /\ closed[r] = "yes"
  /\ handler' = [handler EXCEPT ![r] = "returned"]
  /\ status' = [status EXCEPT ![r] = "OK"]
  /\ UNCHANGED <<process, item, q, producer, client, received, flagged>>

\* item->find("[PYTHON ERROR]") != npos
Contains(s) ==
  \E i \in 1..(Len(s) - Len(Marker) + 1) : SubSeq(s, i, i + Len(Marker) - 1) = Marker

\* The text of the chunk the handler holds, and what set_is_error makes of it.
Slice(r) == SubSeq(text[r], item[r].from + 1, item[r].to)
IsError(r) == item[r].kind = "error" \/ Contains(Slice(r))

\* writer->Write succeeds.  A caller that has just gone away sees nothing.
Write(r) ==
  /\ Up /\ handler[r] = "writing"
  /\ handler' = [handler EXCEPT ![r] = "getting"]
  /\ IF client[r] = "there"
       THEN /\ received' = [received EXCEPT ![r] = @ \o Slice(r)]
            /\ flagged' = [flagged EXCEPT ![r] = IF IsError(r) THEN "yes" ELSE @]
       ELSE UNCHANGED <<received, flagged>>
  /\ UNCHANGED <<process, item, q, producer, client, status>>

\* writer->Write fails: the handler leaves its loop and returns OK.
WriteFails(r) ==
  /\ Up /\ handler[r] = "writing" /\ client[r] = "gone"
  /\ handler' = [handler EXCEPT ![r] = "returned"]
  /\ status' = [status EXCEPT ![r] = "OK"]
  /\ UNCHANGED <<process, item, q, producer, client, received, flagged>>

ClientLeaves(r) ==
  /\ client[r] = "there" /\ handler[r] # "returned"
  /\ client' = [client EXCEPT ![r] = "gone"]
  /\ UNCHANGED <<process, call, q, producer, received, flagged, status>>

-----------------------------------------------------------------------------
(* generate_stream.                                                        *)

\* The first step of the coroutine asks the engine for a generator.
Generate(r) ==
  /\ Up /\ coro[r] = "scheduled" /\ engine = "loaded"
  /\ coro' = [coro EXCEPT ![r] = "generating"]
  /\ UNCHANGED <<process, call, q, text, sent_position, result, caller>>

\* Without an engine that is an AttributeError, outside of the try.
GenerateRaises(r) ==
  /\ Up /\ coro[r] = "scheduled" /\ engine = "missing"
  /\ coro' = [coro EXCEPT ![r] = "raised"]
  /\ UNCHANGED <<process, call, q, text, sent_position, result, caller>>

\* Slip: the slice starts one character early.
NewText_overlap(r) ==
  [from |-> sent_position[r] - 1, to |-> Len(text'[r]), kind |-> "text"]

\* new_text = current_text[sent_position:]
NewText(r) == [from |-> sent_position[r], to |-> Len(text'[r]), kind |-> "text"]

\* Slip: sent_position is not moved.
EngineOutput_resend(r, s) ==
  /\ Up /\ coro[r] = "generating" /\ Len(text[r]) + Len(s) <= MaxLen
  /\ text' = [text EXCEPT ![r] = @ \o s]
  /\ put(r, NewText(r))
  /\ UNCHANGED <<process, item, closed, coro, sent_position, result, caller>>

\* The engine reports its text, grown by the characters s; nothing is put
\* when there is nothing new.
EngineOutput(r, s) ==
  /\ Up /\ coro[r] = "generating" /\ Len(text[r]) + Len(s) <= MaxLen
  /\ text' = [text EXCEPT ![r] = @ \o s]
  /\ put(r, NewText(r))
  /\ sent_position' = [sent_position EXCEPT ![r] = Len(text'[r])]
  /\ UNCHANGED <<process, item, closed, coro, result, caller>>

EngineEnds(r) ==
  /\ Up /\ coro[r] = "generating"
  /\ result' = [result EXCEPT ![r] = "success"]
  /\ coro' = [coro EXCEPT ![r] = "closing"]
  /\ UNCHANGED <<process, call, q, text, sent_position, caller>>

\* Slip: the exception is only logged and counted.
EngineRaises_silent(r) ==
  /\ Up /\ coro[r] = "generating"
  /\ result' = [result EXCEPT ![r] = "error"]
  /\ coro' = [coro EXCEPT ![r] = "closing"]
  /\ UNCHANGED <<process, call, q, text, sent_position, caller>>

\* The engine raises: a last chunk carries the message.
EngineRaises(r) ==
  /\ Up /\ coro[r] = "generating"
  /\ put(r, [from |-> 0, to |-> 0, kind |-> "error"])
  /\ result' = [result EXCEPT ![r] = "error"]
  /\ coro' = [coro EXCEPT ![r] = "closing"]
  /\ UNCHANGED <<process, item, closed, text, sent_position, caller>>

\* finally: put(None).
Finally(r) ==
  /\ Up /\ coro[r] = "closing"
  /\ close(r)
  /\ coro' = [coro EXCEPT ![r] = "over"]
  /\ UNCHANGED <<process, item, queue, text, sent_position, result, caller>>

-----------------------------------------------------------------------------
Main ==
  \/ \E e \in {"missing", "loaded"} : LoadModel(e)
  \/ RegisterReplicaWithScheduler
  \/ Exit

HandlerStep(r) ==
  \/ GetItem(r) \/ GetSleeps(r) \/ GetEnd(r)
  \/ Write(r) \/ WriteFails(r)

GeneratorStep(r) ==
  \/ Generate(r) \/ GenerateRaises(r)
  \/ EngineEnds(r) \/ EngineRaises(r) \/ Finally(r)

\* What one report adds to the text.
Growth == UNION {[1..n -> Chars] : n \in 1..MaxStep}

Next ==
  \/ Main
  \/ \E r \in Requests : SendRequest(r)
  \/ \E r \in Requests : SendRequestRaises(r)
  \/ \E r \in Requests : ClientLeaves(r)
  \/ \E r \in Requests : HandlerStep(r)
  \/ \E r \in Requests : GeneratorStep(r)
  \/ \E r \in Requests, s \in Growth : EngineOutput(r, s)

Spec == Init /\ [][Next]_vars

\* A gRPC thread that can run does, and so does the event loop; the engine ends
\* or raises at the latest after max_tokens.  Callers owe nothing.
Fairness ==
  \A r \in Requests : WF_vars(HandlerStep(r)) /\ WF_vars(GeneratorStep(r))

FairSpec == Spec /\ Fairness

-----------------------------------------------------------------------------
(* Safety.                                                                 *)

\* The chunks between engine and caller.
Pending(r) == (IF handler[r] = "writing" THEN <<item[r]>> ELSE <<>>) \o queue[r]

\* Where the text goes on at the i-th chunk of s; behind the last slice, at e.
GoesOn(s, i, e) == IF i \in DOMAIN s /\ s[i].kind = "text" THEN s[i].from ELSE e

\* Consecutive slices up to e; an error message comes last.
Joined(s, e) ==
  \A i \in DOMAIN s :
    IF s[i].kind = "text" THEN s[i].to = GoesOn(s, i + 1, e) ELSE i = Len(s)

\* Between engine and caller nothing is lost, repeated or reordered: what the
\* caller has, the chunk in the handler's hands and the chunks in the queue are
\* consecutive slices that end at sent_position.  An error message comes last,
\* and only where the engine raised.
Consecutive ==
  \A r \in Requests :
    LET p == Pending(r)
    IN  /\ Joined(p, sent_position[r])
        /\ client[r] = "there" /\ handler[r] # "returned" =>
             Len(received[r]) = GoesOn(p, 1, sent_position[r])
        /\ \A i \in DOMAIN p : p[i].kind = "error" => result[r] = "error"

\* The consumer never sleeps on a queue that has something for it: no wakeup
\* is lost between the test of the predicate and the sleep.
NoLostWakeup ==
  \A r \in Requests : handler[r] = "asleep" => queue[r] = <<>> /\ closed[r] = "no"

\* A replica keeps the promise of TokenStream.  A call ended well if it returned
\* OK and no chunk of it was marked as an error; until it returns it is open,
\* with a marked chunk behind it too, because chunks go on coming.
Verdict(r) ==
  IF client[r] = "gone" \/ status[r] = "CANCELLED" THEN "broken"
  ELSE IF status[r] = "none" THEN "open"
  ELSE IF flagged[r] = "yes" THEN "broken" ELSE "complete"

Stream == INSTANCE TokenStream WITH
  finished <- [r \in Requests |-> result[r] = "success"],
  verdict <- [r \in Requests |-> Verdict(r)]

StreamSpec == Stream!Spec

-----------------------------------------------------------------------------
(* Liveness.                                                               *)

\* Every call of a replica that has its engine returns, also when its caller
\* has left.
CallsReturn ==
  \A r \in Requests :
    handler[r] # "idle" ~> (handler[r] = "returned" \/ life = "exited" \/ engine = "missing")

-----------------------------------------------------------------------------
(* What a comment says, and the code does not do.                          *)

\* generate_stream, finally: the end of the stream is signalled, whatever
\* happened before.
EndIsSignalled ==
  \A r \in Requests : coro[r] = "scheduled" ~> (closed[r] = "yes" \/ life = "exited")
=============================================================================
