------------------------------ MODULE Serving ------------------------------
(***************************************************************************)
(* A gateway process from its first request to its exit: streamed calls    *)
(* (internal/server/stream.go) with the adapters that turn a provider's    *)
(* events into chunks, the pump and replay goroutines, the writers of the  *)
(* cache stage, the batchers of analytics rows and the recorder of shadow  *)
(* evidence, and the shutdown at the end of run.                           *)
(*                                                                         *)
(* A chunk is what the assembler makes of it: some text, a finish reason   *)
(* "stop", the usage.  Which target is called, and failover, are           *)
(* RouterExecute's; what a writer writes is ResponseCache's.               *)
(***************************************************************************)
EXTENDS Naturals, Sequences, FiniteSets

CONSTANTS
    MaxCalls,     \* a bound
    Streamed,     \* the calls that ask for a stream
    Wires,        \* what providers may send: [kind, events]
    ChanCap,      \* 16 in the code
    Capacity,     \* of the queues of rows
    BatchSize

(* What a provider sends.  Its finish reason comes with the last text or   *)
(* after it.                                                               *)
Event == [text : 0..1, finish : BOOLEAN, usage : BOOLEAN, end : BOOLEAN]
Wire == [kind : {"openai", "anthropic", "gemini"}, events : Seq(Event)]
FinishComesLast(events) ==
    \A i, j \in DOMAIN events : events[i].finish /\ i < j => events[j].text = 0

ASSUME ServingAssumption ==
    /\ {MaxCalls, ChanCap, Capacity, BatchSize} \subseteq Nat \ {0} /\ Streamed \subseteq 1..MaxCalls
    /\ Wires \subseteq Wire /\ \A w \in Wires : FinishComesLast(w.events)

VARIABLES
    call,         \* per call: handler, goroutine, stream and context
    queue,        \* the usage batcher and the shadow recorder
    main,         \* how far run has come
    drained,      \* public.Shutdown returned without an error
    flushed,      \* no Close gave up waiting
    accepted,     \* history: rows that a queue took
    refused,      \* history: rows offered to a closed queue
    written       \* history: rows handed to ClickHouse, stored there or not

servingVars == <<call, queue, main, drained, flushed, accepted, refused, written>>
offers == <<accepted, refused>>
rows == <<queue, offers, written>>
process == <<main, drained, flushed>>

Calls == 1..MaxCalls
Queues == {"usage", "shadow"}

Nothing == [text |-> 0, finish |-> FALSE, usage |-> FALSE]
UsageChunk == [Nothing EXCEPT !.usage = TRUE]

NewCall == [pc |-> "new", gone |-> FALSE, err |-> FALSE, asm |-> Nothing, write |-> "idle"]
EmptyQueue == [ch |-> <<>>, buf |-> {}, closed |-> FALSE, loop |-> "run"]

ServingInit ==
    /\ call = [c \in Calls |-> NewCall]
    /\ queue = [x \in Queues |-> EmptyQueue]
    /\ main = "serving" /\ drained = FALSE /\ flushed = TRUE
    /\ accepted = {} /\ refused = {} /\ written = {}

-----------------------------------------------------------------------------
(* Provider streams                                                         *)

(* The three adapters on an event: OpenAI's chunks are the provider's and  *)
(* its [DONE] ends them, Anthropic's message_stop is a chunk with the      *)
(* usage after which the stream is done, Gemini's usage is kept.           *)
OnEvent(st, e) ==
    LET read == [st EXCEPT !.pos = @ + 1]
        chunk == [text |-> e.text, finish |-> e.finish, usage |-> e.usage]
    IN CASE st.kind = "openai" ->
              [end |-> IF e.end THEN "eof" ELSE "no", chunk |-> chunk, st |-> read]
         [] st.kind = "anthropic" ->
              [end |-> "no", chunk |-> chunk, st |-> [read EXCEPT !.done = e.end]]
         [] st.kind = "gemini" ->
              [end |-> "no", chunk |-> [chunk EXCEPT !.usage = FALSE],
               st |-> [read EXCEPT !.usage = @ \/ e.usage]]

(* The body ends, perhaps too early.  Gemini's usage comes last.           *)
OnEOF(st) ==
    [end |-> IF st.kind = "gemini" /\ st.usage /\ ~st.done THEN "no" ELSE "eof",
     chunk |-> UsageChunk, st |-> [st EXCEPT !.pos = Len(st.events), !.done = TRUE]]

OnError(st) == [end |-> "error", chunk |-> Nothing, st |-> st]

(* What Recv may return.                                                   *)
Recv(st) ==
    {OnEOF(st)} \cup (IF st.done THEN {} ELSE {OnError(st)})
      \cup {OnEvent(st, st.events[i]) : i \in {j \in DOMAIN st.events : j = st.pos + 1 /\ ~st.done}}

Opened(w) == [kind |-> w.kind, events |-> w.events, pos |-> 0, usage |-> FALSE, done |-> FALSE]

(* Assembler.Add.                                                          *)
Add(asm, x) == [text |-> asm.text + x.text, finish |-> asm.finish \/ x.finish,
                usage |-> asm.usage \/ x.usage]

-----------------------------------------------------------------------------
(* Serving a stream                                                         *)

Running == main \notin {"exited", "failed"}

(* The handler is at p, and in no write that waits for the client.         *)
At(c, p) == Running /\ call[c].pc = p /\ call[c].write # "blocked"
Set(c, new) == call' = [call EXCEPT ![c] = new]

Begins(c, fields) ==
    /\ main = "serving" /\ At(c, "new") /\ \A d \in 1..c - 1 : call[d].pc # "new"
    /\ Set(c, fields)
    /\ UNCHANGED <<rows, process>>

Begun == [pc |-> "exec", hit |-> FALSE, candidate |-> FALSE, gone |-> FALSE, err |-> FALSE,
          failed |-> FALSE, asm |-> Nothing, ctx |-> "live", up |-> "open", writer |-> "none",
          pump |-> "off", held |-> Nothing, out |-> <<>>, st |-> <<>>, write |-> "idle"]

(* A request for a whole answer: from the cache, or from a provider.       *)
Chat(c, hit) ==
    /\ c \notin Streamed
    /\ Begins(c, [Begun EXCEPT !.hit = hit, !.pc = IF hit THEN "cache" ELSE "exec"])

(* A request for a stream, which a goroutine replays from the cache or a   *)
(* provider sends.  The cache may have a candidate to compare it with.     *)
ServeStream(c, w, candidate) ==
    /\ c \in Streamed
    /\ Begins(c, [Begun EXCEPT !.st = Opened(w), !.pc = "open", !.candidate = candidate])

(* The answer in the cache has some text and its usage.                    *)
ReplayStream(c) ==
    /\ c \in Streamed
    /\ Begins(c, [Begun EXCEPT !.hit = TRUE, !.pc = "loop", !.pump = "send",
                               !.held = [text |-> 1, finish |-> TRUE, usage |-> FALSE]])

(* Contexts: the request's ends when the client goes, and the upstream's,  *)
(* its child, with it.  It matters until the answer is written.            *)
Left(f) == [f EXCEPT !.ctx = "done", !.up = "cancelled"]

ClientLeaves(c) ==
    /\ Running /\ call[c].pc \in {"exec", "open", "loop", "loop ended"}
    /\ call[c].ctx = "live"
    /\ Set(c, Left(call[c]))
    /\ UNCHANGED <<rows, process>>

(* What an adapter makes of a provider's answer: its finish reason says    *)
(* whether it is whole or was cut at max_tokens.                           *)
Answers == {[text |-> 1, finish |-> whole, usage |-> TRUE] : whole \in BOOLEAN}

(* The provider's answer, or an error; also the client's leaving is one.   *)
ExecChat(c) ==
    /\ At(c, "exec")
    /\ \/ \E answer \in Answers :
            Set(c, [call[c] EXCEPT !.pc = "cache", !.err = call[c].ctx = "done",
                                   !.asm = answer])
       \/ Set(c, [call[c] EXCEPT !.pc = "cache", !.err = TRUE])
    /\ UNCHANGED <<rows, process>>

(* No first chunk in time: the stream is cancelled.  The timer is stopped  *)
(* only after the chunk has come, so that it may hit a stream just opened. *)
FirstTokenTimeout(c) ==
    /\ At(c, "open") /\ call[c].up = "open"
    /\ Set(c, [call[c] EXCEPT !.up = "cancelled"])
    /\ UNCHANGED <<rows, process>>

Pumped(f, x) == [f EXCEPT !.pc = "loop", !.pump = "send", !.held = x]

(* openStream waits for the first chunk.                                   *)
OpenStream(c) ==
    /\ At(c, "open")
    /\ \E r \in Recv(call[c].st) :
         LET f == [call[c] EXCEPT !.st = r.st]
         IN Set(c, IF r.end = "no" THEN Pumped(f, r.chunk)
                   ELSE [f EXCEPT !.pc = "cache", !.err = TRUE, !.up = "cancelled", !.st = Opened(@)])
    /\ UNCHANGED <<rows, process>>

(* The pump.  Nothing in it waits for the handler but send.                *)
Room(c) == IF call[c].hit THEN 0 ELSE ChanCap

PumpEnds(f) == [f EXCEPT !.pump = "ended", !.held = Nothing, !.up = "cancelled",
                         !.st = IF f.hit THEN f.st ELSE Opened(f.st)]

\* Mutant of PumpSend: the pump waits for room only.
PumpSendBlocking(c) ==
    /\ Running /\ call[c].pc # "new" /\ call[c].pump = "send"
    /\ Len(call[c].out) < Room(c)
    /\ Set(c, [call[c] EXCEPT !.pump = "recv", !.out = Append(@, call[c].held), !.held = Nothing])
    /\ UNCHANGED <<rows, process>>

PumpSend(c) ==
    /\ Running /\ call[c].pc # "new" /\ call[c].pump = "send"
    /\ \/ /\ Len(call[c].out) < Room(c)
          /\ Set(c, [call[c] EXCEPT !.pump = "recv", !.out = Append(@, call[c].held), !.held = Nothing])
       \/ /\ call[c].ctx = "done"
          /\ Set(c, PumpEnds(call[c]))
    /\ UNCHANGED <<rows, process>>

PumpRecv(c) ==
    /\ Running /\ call[c].pc # "new" /\ call[c].pump = "recv"
    /\ \E r \in Recv(call[c].st) :
         LET f == [call[c] EXCEPT !.st = r.st]
         IN Set(c, CASE r.end = "eof" -> PumpEnds(f)
                     [] r.end = "error" -> [PumpEnds(f) EXCEPT !.failed = f.ctx = "live"]
                     [] r.end = "no" -> [f EXCEPT !.pump = "send", !.held = r.chunk])
    /\ UNCHANGED <<rows, process>>

(* The stall timer runs while the pump receives and also while it sends.   *)
StreamIdleTimeout(c) ==
    /\ Running /\ call[c].pc # "new" /\ ~call[c].hit
    /\ call[c].pump \in {"send", "recv"} /\ call[c].up = "open"
    /\ Set(c, [call[c] EXCEPT !.up = "cancelled"])
    /\ UNCHANGED <<rows, process>>

(* The next chunk goes to the assembler and to the client.  A write that   *)
(* fails ends the request's context too.  There is no deadline for writes: *)
(* one waits while a client that is connected does not read.               *)
Deliver(c, x, f) ==
    \/ Set(c, [f EXCEPT !.asm = Add(@, x)])
    \/ f.ctx = "live" /\ Set(c, [f EXCEPT !.asm = Add(@, x), !.write = "blocked"])
    \/ Set(c, [Left(f) EXCEPT !.asm = Add(@, x), !.gone = TRUE, !.pc = "loop ended"])

ServeChunk(c) ==
    /\ At(c, "loop")
    /\ \/ /\ call[c].out # <<>>
          /\ Deliver(c, Head(call[c].out), [call[c] EXCEPT !.out = Tail(@)])
       \/ /\ call[c].hit /\ call[c].pump = "send"       \* an unbuffered channel
          /\ Deliver(c, call[c].held,
                     IF call[c].held.usage THEN PumpEnds(call[c])
                     ELSE [call[c] EXCEPT !.held = UsageChunk])
    /\ UNCHANGED <<rows, process>>

(* The channel is closed and empty.                                        *)
LoopEnds(c) ==
    /\ At(c, "loop") /\ call[c].out = <<>> /\ call[c].pump = "ended"
    /\ Set(c, [call[c] EXCEPT !.pc = "loop ended"])
    /\ UNCHANGED <<rows, process>>

(* serveStream's end: the pump of a live stream is waited for.  (Where the *)
(* client is gone its context has cancelled the upstream already.)         *)
Finish(c) ==
    /\ At(c, "loop ended")
    /\ call[c].hit \/ call[c].pump = "ended"
    /\ Set(c, [call[c] EXCEPT !.pc = "cache", !.err = call[c].gone \/ call[c].failed,
                              !.up = "cancelled"])
    /\ UNCHANGED <<rows, process>>

(* The write of the whole answer, or the last one of a stream, waits for a *)
(* client that does not read.                                              *)
AnswerBlocks(c) ==
    /\ At(c, "cache") /\ call[c].ctx = "live"
    /\ Set(c, [call[c] EXCEPT !.write = "blocked"])
    /\ UNCHANGED <<rows, process>>

(* The client reads again, or the connection is gone.  Errors of the last  *)
(* writes are ignored, and after them the context no longer matters.       *)
WriteReturns(c) ==
    /\ Running /\ call[c].write = "blocked"
    /\ \/ /\ call[c].pc = "loop" /\ call[c].ctx = "live"
          /\ Set(c, [call[c] EXCEPT !.write = "idle"])
       \/ /\ call[c].pc = "loop"
          /\ Set(c, [Left(call[c]) EXCEPT !.gone = TRUE, !.pc = "loop ended", !.write = "idle"])
       \/ /\ call[c].pc = "cache"
          /\ Set(c, [Left(call[c]) EXCEPT !.write = "idle"])
    /\ UNCHANGED <<rows, process>>

-----------------------------------------------------------------------------
(* Rows                                                                     *)

(* Emit never blocks.  The batcher refuses once closed, the recorder does  *)
(* not.                                                                    *)
Refuses(x) == x = "usage" /\ queue[x].closed

Emit(x, c) ==
    LET accepts == ~Refuses(x) /\ Len(queue[x].ch) < Capacity
    IN /\ queue' = IF accepts THEN [queue EXCEPT ![x].ch = Append(@, c)] ELSE queue
       /\ accepted' = IF accepts THEN accepted \cup {<<x, c>>} ELSE accepted
       /\ refused' = IF Refuses(x) THEN refused \cup {<<x, c>>} ELSE refused

(* A batch goes to ClickHouse, once: rows it does not take are lost.       *)
Flush(x, batch) ==
    written' = written \cup {<<x, c>> : c \in batch}

Take(x) == queue[x].buf \cup {Head(queue[x].ch)}

(* loop and run: a row joins the batch, which is written when it is full.  *)
Collect(x) ==
    /\ Running /\ queue[x].loop # "ended" /\ queue[x].ch # <<>>
    /\ IF Cardinality(Take(x)) >= BatchSize
       THEN /\ Flush(x, Take(x))
            /\ queue' = [queue EXCEPT ![x].ch = Tail(@), ![x].buf = {}]
       ELSE /\ queue' = [queue EXCEPT ![x].ch = Tail(@), ![x].buf = Take(x)]
            /\ UNCHANGED written
    /\ UNCHANGED <<call, offers, process>>

FlushInterval(x) ==
    /\ Running /\ queue[x].loop = "run" /\ queue[x].buf # {}
    /\ Flush(x, queue[x].buf)
    /\ queue' = [queue EXCEPT ![x].buf = {}]
    /\ UNCHANGED <<call, offers, process>>

(* The recorder notices that it is to stop and drains what is there.       *)
NoticeStop ==
    /\ Running /\ queue["shadow"].closed /\ queue["shadow"].loop = "run"
    /\ queue' = [queue EXCEPT !["shadow"].loop = "drain"]
    /\ UNCHANGED <<call, offers, process, written>>

\* Mutant of FinalFlush: rows collected so far are not written.
FinalFlushNone(x) ==
    /\ Running /\ queue[x].closed /\ queue[x].ch = <<>>
    /\ queue[x].loop = (IF x = "usage" THEN "run" ELSE "drain")
    /\ queue' = [queue EXCEPT ![x].buf = {}, ![x].loop = "ended"]
    /\ UNCHANGED <<call, offers, process, written>>

(* Nothing is left in the channel: the last batch.                         *)
FinalFlush(x) ==
    /\ Running /\ queue[x].closed /\ queue[x].ch = <<>>
    /\ queue[x].loop = (IF x = "usage" THEN "run" ELSE "drain")
    /\ Flush(x, queue[x].buf)
    /\ queue' = [queue EXCEPT ![x].buf = {}, ![x].loop = "ended"]
    /\ UNCHANGED <<call, offers, process>>

-----------------------------------------------------------------------------
(* Pipeline.After: the cache stage, then usage                              *)

\* Mutant of Storable: any text.
StorableText(asm) == asm.text > 0

Storable(asm) == asm.finish /\ asm.text > 0

Stores(c) == ~call[c].hit /\ ~call[c].err /\ Storable(call[c].asm)

(* What is left of a call after the cache stage.                           *)
Answered(f) == [Begun EXCEPT !.pc = "usage", !.hit = f.hit, !.ctx = "done", !.up = "cancelled",
                             !.st = f.st, !.pump = f.pump]

(* Evidence goes to the recorder and a storable answer to a writer, unless *)
(* it is too large or no slot is free.                                     *)
AfterCache(c) ==
    /\ At(c, "cache")
    /\ IF call[c].candidate /\ ~call[c].err THEN Emit("shadow", c) ELSE UNCHANGED <<queue, offers>>
    /\ \/ /\ Stores(c)
          /\ Set(c, [Answered(call[c]) EXCEPT !.writer = "running", !.asm = call[c].asm])
       \/ Set(c, Answered(call[c]))
    /\ UNCHANGED <<written, process>>

AfterUsage(c) ==
    /\ At(c, "usage") /\ Emit("usage", c)
    /\ Set(c, [call[c] EXCEPT !.pc = "done"])
    /\ UNCHANGED <<written, process>>

WriterEnds(c) ==
    /\ Running /\ call[c].pc # "new" /\ call[c].writer = "running"
    /\ Set(c, [call[c] EXCEPT !.writer = "none", !.asm = Nothing])
    /\ UNCHANGED <<rows, process>>

-----------------------------------------------------------------------------
(* The end of run                                                           *)

Active == {c \in Calls : call[c].pc \notin {"new", "done"}}
Writers == {c \in Calls : call[c].pc # "new" /\ call[c].writer = "running"}

(* A signal: nothing new is served.                                        *)
Shutdown ==
    /\ main = "serving" /\ main' = "drain"
    /\ UNCHANGED <<call, rows, drained, flushed>>

(* A listener fails: run returns with its error, and drains, closes and    *)
(* flushes nothing.                                                        *)
ListenerFails ==
    /\ main = "serving" /\ main' = "failed"
    /\ UNCHANGED <<call, rows, drained, flushed>>

(* public.Shutdown returns: every handler did, or drain_timeout is over.   *)
Drain ==
    /\ main = "drain" /\ main' = "wait"
    /\ drained' = (Active = {})
    /\ UNCHANGED <<call, rows, flushed>>

Close(x) == queue' = [queue EXCEPT ![x].closed = TRUE]

(* cacheStage.Wait, then the end of the usage batcher.                     *)
CloseUsage ==
    /\ main = "wait" /\ Writers = {}
    /\ main' = "usage" /\ Close("usage")
    /\ UNCHANGED <<call, offers, written, drained, flushed>>

(* It has flushed, or flush_timeout is over; then the recorder's end.      *)
CloseShadow ==
    /\ main = "usage" /\ main' = "shadow" /\ Close("shadow")
    /\ flushed' = (queue["usage"].loop = "ended")
    /\ UNCHANGED <<call, offers, written, drained>>

(* Whatever still runs ends with the process.                              *)
RunReturns ==
    /\ main = "shadow" /\ queue["shadow"].loop = "ended" /\ main' = "exited"
    /\ UNCHANGED <<call, rows, drained, flushed>>

-----------------------------------------------------------------------------
Handler(c) == ExecChat(c) \/ ServeChunk(c) \/ LoopEnds(c) \/ Finish(c)
                \/ AfterCache(c) \/ AfterUsage(c)

ServingNext ==
    \/ \E c \in Calls, w \in Wires, candidate \in BOOLEAN : ServeStream(c, w, candidate)
    \/ \E c \in Calls :
          \/ Chat(c, TRUE) \/ Chat(c, FALSE) \/ ReplayStream(c) \/ ExecChat(c)
          \/ ClientLeaves(c) \/ FirstTokenTimeout(c) \/ OpenStream(c)
          \/ PumpSend(c) \/ PumpRecv(c) \/ StreamIdleTimeout(c)
          \/ ServeChunk(c) \/ LoopEnds(c) \/ Finish(c) \/ AnswerBlocks(c) \/ WriteReturns(c)
          \/ AfterCache(c) \/ AfterUsage(c) \/ WriterEnds(c)
    \/ \E x \in Queues : Collect(x) \/ FlushInterval(x) \/ FinalFlush(x)
    \/ NoticeStop \/ Shutdown \/ ListenerFails \/ Drain \/ CloseUsage \/ CloseShadow \/ RunReturns

(* Goroutines are scheduled fairly and timers fire.  A provider may stall  *)
(* for ever, but the route's timeout ends a call, and Recv returns once    *)
(* its context is cancelled.  Writers and flushes have timeouts.  A write  *)
(* to a client returns only if the client has left: one that stays and     *)
(* does not read may block it for ever.                                    *)
ServingFairness ==
    /\ \A c \in Calls :
         /\ WF_servingVars(\/ Handler(c)
                           \/ call[c].pc # "new" /\ call[c].ctx = "done" /\ WriteReturns(c))
         /\ WF_servingVars(WriterEnds(c))
    /\ \A c \in Streamed :
         /\ WF_servingVars(PumpSend(c))
         /\ WF_servingVars(FirstTokenTimeout(c) \/ StreamIdleTimeout(c))
         /\ WF_servingVars(call[c].pc # "new" /\ call[c].up = "cancelled"
                      /\ (OpenStream(c) \/ PumpRecv(c)))
    /\ \A x \in Queues : WF_servingVars(Collect(x) \/ FinalFlush(x))
    /\ WF_servingVars(NoticeStop)
    /\ WF_servingVars(Drain \/ CloseUsage \/ CloseShadow \/ RunReturns)

ServingSpec == ServingInit /\ [][ServingNext]_servingVars /\ ServingFairness

-----------------------------------------------------------------------------
(* Properties                                                               *)

(* Only whole answers are handed to a cache writer: whatever the provider, *)
(* the timers and the client do, an answer that was cut short is not       *)
(* stored (stream.go serveStream, pump; stage.go storable).                *)
StoredIsComplete ==
    \A c \in Streamed : call[c].pc # "new" /\ call[c].writer # "none" =>
        LET sent == call[c].st.events
        IN call[c].asm.text = Cardinality({i \in DOMAIN sent : sent[i].text = 1})

ServingTypeOK ==
    /\ \A c \in Calls : call[c].pc \in {"new", "exec", "open", "loop", "loop ended", "cache",
                                        "usage", "done"}
    /\ \A c \in Active : Len(call[c].out) <= ChanCap
    /\ \A x \in Queues : Len(queue[x].ch) <= Capacity /\ Cardinality(queue[x].buf) < BatchSize
    /\ written \subseteq accepted

(* Rows that wait in a queue's channel or in its batch.                    *)
Pending ==
    {a \in accepted : \/ a[2] \in queue[a[1]].buf
                     \/ \E i \in DOMAIN queue[a[1]].ch : queue[a[1]].ch[i] = a[2]}

(* When a process that was told to stop is gone, every usage row that Emit *)
(* accepted has been handed to ClickHouse, unless flush_timeout cut it     *)
(* off.  If the requests were drained in time no row was refused, the      *)
(* shadow evidence is written as well and no cache write was cut off.      *)
(* Until then a row waits or is written: a process that ends because a     *)
(* listener failed loses what was waiting, and no more (batcher.go Emit,   *)
(* loop, Close; shadow_cache.go run, Close; main.go run).                  *)
RowsKept ==
    /\ ServingTypeOK
    /\ main = "exited" =>
        /\ flushed => {a \in accepted : a[1] = "usage"} \subseteq written
        /\ drained => /\ refused = {} /\ Writers = {}
                      /\ {a \in accepted : a[1] = "shadow"} \subseteq written
    /\ accepted \ written \subseteq Pending

(* Every call ends, also when the provider stalls or the client leaves:    *)
(* its handler returns and its goroutine ends.  Only a client that stays   *)
(* connected and stops reading for good can keep them.  A process that is  *)
(* told to stop exits even then (stream.go pump, serveStream; main.go      *)
(* run).                                                                   *)
StreamsEnd ==
    /\ \A c \in Calls :
         \/ <>[](call[c].write = "blocked" /\ call[c].ctx = "live")
         \/ call[c].pc # "new"
               ~> (~Running \/ (call[c].pc = "done" /\ call[c].pump \in {"off", "ended"}))
    /\ main = "drain" ~> main = "exited"
=============================================================================
