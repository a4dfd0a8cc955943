----------------------------- MODULE RequestStream -----------------------------
(***************************************************************************)
(* The HTTP/3 request path of one QUIC worker: the streams of a connection *)
(* (runtime/connection/{stream,request}.rs), the event loop and the        *)
(* progress pass that drive them (quic_listener/forwarding/), and the      *)
(* tokio tasks they race with: the external authorization call, the        *)
(* upstream task with its retry and hedge, and the response body pump.     *)
(* It composes the controllers of Resilience with each stream's permits,   *)
(* the global request buffer and the backends' active request counts.      *)
(*                                                                         *)
(* The worker is one thread: it handles h3 events, then visits every       *)
(* stream (advance_streams_non_blocking); the tasks run between any two of *)
(* its steps.  Bodies are sequences of numbered chunks, deadlines are      *)
(* flags that time may raise at any moment, and a reply write succeeds,    *)
(* blocks or fails by choice of the h3 library.                            *)
(***************************************************************************)
EXTENDS Resilience, Sequences, FiniteSets

CONSTANTS
    Streams,          \* stream ids; each is opened at most once
    Backends,
    Workloads,        \* what clients ask for: functions from Streams to
                      \* [mode, auth, route, hedged, body, reply]
    GlobalInflight,   \* permits of the global semaphore
    UpstreamInflight, \* permits of each upstream's semaphore
    MaxStreams,       \* max_streams_per_connection
    MaxBodyChunks,    \* max_request_body_bytes, in chunks
    ChannelCap,       \* REQUEST_CHUNK_CHANNEL_CAPACITY
    BufferCap,        \* request_buffer_global_cap_bytes, in chunks
    ReplyCap          \* RESPONSE_CHUNK_CHANNEL_CAPACITY

VARIABLES
    load,     \* the workload: mode is the RequestMode ("Unused": no request),
              \* auth the external auth failure mode or "none", hedged whether
              \* the route hedges, body and reply the chunks sent either way
    ctl,      \* adaptive, queue, brownout, semaphores, buffer, active counts
    budget,   \* the retry budget
    st,       \* the streams
    task,     \* each stream's upstream task and body pump
    worker    \* where the worker is: [pc, cur, todo]

vars == <<load, ctl, budget, st, task, worker>>

Tunnel(s) == load[s].mode \in {"ConnectTunnel", "WebsocketTunnel"}
Bodyless(s) == load[s].mode \in {"Bodyless", "HeadLike"}
RouteOf(s) == load[s].route
None == "none"

-------------------------------------------------------------------------------
(* Request body states (RequestBodyState).                                 *)
FromRuntime(fin, buffered, open) ==
    CASE open /\ buffered          -> "Buffered"
      [] open /\ ~buffered /\ fin  -> "FinReceived"
      [] ~open /\ fin              -> "ClosedToUpstream"
      [] ~open /\ ~fin /\ buffered -> "Buffered"
      [] OTHER                     -> "Open"

FinStates == {"FinReceived", "ClosedToUpstream"}

(* set_request_body_state: the FIN flag is overwritten by what the new     *)
(* state says; a streaming response has no stored body state.              *)
SetBody(r, next) ==
    [r EXCEPT !.fin = next \in FinStates,
              !.body = IF r.exec = "StreamingResponse" THEN @ ELSE next]

Refresh(r) == SetBody(r, FromRuntime(r.fin, r.buf # <<>>, r.tx))

BodyState(r) ==
    IF r.exec = "StreamingResponse"
    THEN FromRuntime(r.fin, r.buf # <<>>, FALSE) ELSE r.body

OnBuffered(r) ==
    SetBody(r, IF BodyState(r) = "ClosedToUpstream"
               THEN "ClosedToUpstream" ELSE "Buffered")

OnFinished(r) ==
    SetBody(r, IF BodyState(r) = "ClosedToUpstream"
               THEN "ClosedToUpstream" ELSE "FinReceived")

ForwardClosed(r) == Refresh([r EXCEPT !.tx = FALSE])

CanAcceptBody(r) ==
    /\ r.exec \notin {"StreamingResponse"}
    /\ r.body \in {"Open", "Buffered"}

CanPollUpstream(s, r) ==
    /\ r.exec = "AwaitingUpstream" /\ r.rx
    /\ Tunnel(s) \/ r.body = "ClosedToUpstream"

-------------------------------------------------------------------------------
(* A stream that does not exist, one just received, and an idle task.      *)
Absent == [exec |-> "Absent"]
Ended == [exec |-> "Ended"]
Live(s) == st[s].exec \notin {"Absent", "Ended"}
LiveStreams == {s \in Streams : Live(s)}

(* build_request_intake and build_dispatch_ready_candidate.                *)
NewStream(s, b) ==
    LET body == IF Bodyless(s) THEN "FinReceived" ELSE "Open" IN
    [ exec |-> "DispatchReady", body |-> body, fin |-> body \in FinStates,
      buf |-> <<>>, received |-> 0, finSent |-> FALSE,
      tx |-> FALSE, rx |-> FALSE, backend |-> b, permits |-> FALSE,
      answer |-> None, taken |-> FALSE,
      head |-> FALSE, reply |-> <<>>, pending |-> <<>>, out |-> <<>> ]

NoTask == [ pc |-> "none", chan |-> <<>>, open |-> FALSE,
            alt |-> FALSE, seen |-> 0, result |-> None,
            pump |-> "none", deferred |-> FALSE, made |-> 0, emit |-> <<>> ]

Init ==
    /\ ctl = [ adaptive |-> AdaptiveInit, queue |-> QueueInit, brownout |-> FALSE,
               global |-> GlobalInflight,
               upstream |-> [r \in Routes |-> UpstreamInflight],
               buffered |-> 0, active |-> [b \in Backends |-> 0] ]
    /\ budget = BudgetInit
    /\ load \in Workloads
    /\ st = [s \in Streams |-> Absent]
    /\ task = [s \in Streams |-> NoTask]
    /\ worker = [pc |-> "events", cur |-> None, todo |-> {}, conn |-> "open"]

-------------------------------------------------------------------------------
(* Shared bookkeeping, as functions of ctl = c and a stream's record = r.  *)
Shed(c) == [c EXCEPT !.adaptive = Observe(@, TRUE)]

TryReserveBuffer(c) == c.buffered + 1 <= BufferCap

ReleaseBuffer(c, n) == [c EXCEPT !.buffered = Max({@ - n, 0})]

GrantPermits(c, route) ==
    [c EXCEPT !.adaptive = AcquireAdaptive(@), !.queue = AcquireQueue(@, route),
              !.global = @ - 1, !.upstream[route] = @ - 1]

DropPermits(c, route) ==
    [c EXCEPT !.adaptive = DropAdaptive(@), !.queue = DropQueue(@, route),
              !.global = @ + 1, !.upstream[route] = @ + 1]

(* Variant of Cleanup for a mutation check: the buffer is not released.    *)
CleanupKeepsBuffer(c, s, r) ==
    LET counted == r.exec \in {"AwaitingUpstream", "StreamingResponse"}
        a == IF counted
             THEN [c EXCEPT !.active[r.backend] = Max({@ - 1, 0})] ELSE c
    IN  IF r.permits THEN DropPermits(a, RouteOf(s)) ELSE a

(* transition_to_terminal_with_cleanup, and the removal that follows it in *)
(* every handler: the backend's count is finished if a request was sent,   *)
(* buffered bytes and permits are returned with the state that held them.  *)
Cleanup(c, s, r) ==
    LET counted == r.exec \in {"AwaitingUpstream", "StreamingResponse"}
        a == IF counted
             THEN [c EXCEPT !.active[r.backend] = Max({@ - 1, 0})] ELSE c
        b == ReleaseBuffer(a, Len(r.buf))
    IN  IF r.permits THEN DropPermits(b, RouteOf(s)) ELSE b

(* The stream's ends of the channels go with it: a late result or reply    *)
(* chunk finds no receiver, and what the upstream still reads of the body  *)
(* is of no consequence.  The upstream task itself is not aborted.         *)
Orphan(t) == [t EXCEPT !.chan = <<>>, !.open = FALSE, !.result = None,
                       !.pump = "none", !.emit = <<>>, !.made = 0,
                       !.deferred = FALSE]

EndStream(s, r, c) ==
    /\ ctl' = Cleanup(c, s, r)
    /\ st' = [st EXCEPT ![s] = Ended]
    /\ task' = [task EXCEPT ![s] = Orphan(@)]

(* Control of the worker: back to the event loop, to the next stream of    *)
(* the pass, or out of both when a reply cannot be written (the "?" of the *)
(* handlers).  handle_h3 closes the connection then, handle_timeouts only  *)
(* logs, so a pass does either.                                            *)
NextStream == worker' = [worker EXCEPT !.pc = "visit", !.cur = None]
StayInEvents == UNCHANGED worker
Step(pc) == worker' = [worker EXCEPT !.pc = pc]
Continue == IF worker.pc = "events" THEN StayInEvents ELSE NextStream
Abandon ==
    \E conn \in IF worker.pc = "events" THEN {"closing"}
                ELSE {worker.conn, "closing"} :
        worker' = [pc |-> "events", cur |-> None, todo |-> {}, conn |-> conn]

(* Answer a stream and end it; the answer may not get through.             *)
ReplyAndEnd(s, r, c, sheds) ==
    \/ /\ EndStream(s, r, IF sheds THEN Shed(c) ELSE c)
       /\ Continue
    \/ /\ ctl' = c /\ st' = [st EXCEPT ![s] = r]
       /\ Abandon
       /\ UNCHANGED task

-------------------------------------------------------------------------------
(* flush_request_buffer: move buffered chunks into the channel until it is *)
(* full, then close it if the body has ended.                              *)
CloseForwarding(r, t) == [r |-> ForwardClosed(r), t |-> t]

FlushRequestBuffer(r, t) ==
    LET n     == Min({Len(r.buf), ChannelCap - Len(t.chan)})
        moved == [r EXCEPT !.buf = SubSeq(@, n + 1, Len(@))]
        sent  == [t EXCEPT !.chan = @ \o SubSeq(r.buf, 1, n)]
    IN  IF ~r.tx THEN [r |-> Refresh(r), t |-> t]
        ELSE IF ~t.open /\ r.buf # <<>>
        THEN [r |-> Refresh(ForwardClosed([r EXCEPT !.buf = <<>>])), t |-> t]
        ELSE IF moved.buf = <<>> /\ moved.body = "FinReceived"
        THEN CloseForwarding(moved, sent)
        ELSE IF Refresh(moved).body = "FinReceived"
        THEN CloseForwarding(Refresh(moved), sent)
        ELSE [r |-> Refresh(moved), t |-> sent]

Flushed(c, r, f) == ReleaseBuffer(c, Len(r.buf) - Len(f.r.buf))

-------------------------------------------------------------------------------
(* execute_forwarding_post_auth_admission: the checks in order; the quota  *)
(* store and the health checks answer as they like.  Permits taken by earlier checks are     *)
(* dropped when a later one refuses.                                       *)
AdmissionRefusal(c, route, quotaAllows, healthy) ==
    IF ~quotaAllows THEN "Quota"
    ELSE IF ~CanAcquireAdaptive(c.adaptive) THEN "Adaptive"
    ELSE IF QueueRefusal(c.queue, route) # "None" THEN "Queue"
    ELSE IF c.global = 0 THEN "Global"
    ELSE IF c.upstream[route] = 0 THEN "Upstream"
    ELSE IF ~healthy THEN "Unhealthy"
    ELSE "Ready"

(* spawn_upstream_forward_task: the alternate backend is resolved now.     *)
SpawnUpstreamTask(s, alternate) ==
    [NoTask EXCEPT !.pc = "start", !.open = ~Bodyless(s),
                   !.alt = alternate]

(* transition_admitted_to_awaiting_upstream.                               *)
AwaitUpstream(s, r) ==
    LET tx == ~Bodyless(s) /\ ~(r.fin /\ r.buf = <<>>) IN
    [r EXCEPT !.exec = "AwaitingUpstream", !.tx = tx, !.rx = TRUE,
              !.body = FromRuntime(r.fin, r.buf # <<>>, tx)]

(* materialize_forward_after_auth: admission, then dispatch.  A missing    *)
(* endpoint, an invalid request or a runtime without workers fails the     *)
(* dispatch of an admitted stream.                                         *)
Refuse(s, r, c) ==
    \E quotaAllows, healthy \in BOOLEAN :
        LET why == AdmissionRefusal(c, RouteOf(s), quotaAllows, healthy) IN
        /\ why # "Ready"
        /\ ReplyAndEnd(s, r, c, why \notin {"Quota", "Unhealthy"})

FailDispatch(s, r, c) ==
    /\ AdmissionRefusal(c, RouteOf(s), TRUE, TRUE) = "Ready"
    /\ \E sheds \in BOOLEAN :
           ReplyAndEnd(s, [r EXCEPT !.exec = "Admitted", !.permits = TRUE],
                       GrantPermits(c, RouteOf(s)), sheds)

Dispatch(s, r, c) ==
    \E alternate \in BOOLEAN :
        LET a == AwaitUpstream(s, [r EXCEPT !.permits = TRUE])
            f == FlushRequestBuffer(a, SpawnUpstreamTask(s, alternate))
            g == [GrantPermits(c, RouteOf(s)) EXCEPT !.active[r.backend] = @ + 1]
        IN
        /\ AdmissionRefusal(c, RouteOf(s), TRUE, TRUE) = "Ready"
        /\ ctl' = Flushed(g, a, f)
        /\ st' = [st EXCEPT ![s] = f.r]
        /\ task' = [task EXCEPT ![s] = f.t]
        /\ IF worker.pc = "events" THEN StayInEvents ELSE Step("upstream")

Materialize(s, r, c) == Refuse(s, r, c) \/ FailDispatch(s, r, c) \/ Dispatch(s, r, c)

-------------------------------------------------------------------------------
(* handle_h3, one event.  Headers: validation, the stream limit, routing   *)
(* to a healthy backend, local policy, then external auth or dispatch.     *)
InEvents == worker.pc = "events" /\ worker.conn = "open"

Arriving(s) == st[s] = Absent /\ load[s].mode # "Unused"

PreAdmission(s) ==
    [ctl EXCEPT !.brownout = ObservePressure(@, InflightPercent(ctl.adaptive))]

Refusable(s) ==
    {ctl, Shed(ctl)} \cup (IF RouteAllowed(PreAdmission(s).brownout, RouteOf(s))
            THEN {PreAdmission(s)} ELSE {Shed(PreAdmission(s))})

HeadersRefused(s) ==
    /\ InEvents /\ Arriving(s)
    /\ ctl' \in Refusable(s)
    /\ st' = [st EXCEPT ![s] = Ended]
    /\ StayInEvents \/ Abandon
    /\ UNCHANGED <<load, budget, task>>

HeadersAccepted(s) ==
    /\ InEvents /\ Arriving(s)
    /\ Cardinality(LiveStreams) < MaxStreams
    /\ RouteAllowed(PreAdmission(s).brownout, RouteOf(s))

(* No external auth, or its task cannot start and the policy fails open.   *)
HeadersDispatch(s) ==
    \E b \in Backends :
        /\ HeadersAccepted(s) /\ load[s].auth # "FailClosed"
        /\ Materialize(s, NewStream(s, b), PreAdmission(s))
        /\ UNCHANGED <<load, budget>>

HeadersStartAuth(s) ==
    \E b \in Backends :
        /\ HeadersAccepted(s) /\ load[s].auth # "none"
        /\ st' = [st EXCEPT ![s] = [NewStream(s, b) EXCEPT !.exec = "AwaitingAuth"]]
        /\ ctl' = PreAdmission(s)
        /\ StayInEvents
        /\ UNCHANGED <<load, budget, task>>

(* enqueue_request_chunk and push_request_chunk: a chunk goes straight to  *)
(* the channel when it has room, even past chunks that are still buffered. *)
Enqueue(c, r, t, chunk) ==
    IF ~CanAcceptBody(r) THEN [c |-> c, r |-> r, t |-> t, err |-> "None"]
    ELSE IF r.tx /\ ~t.open
    THEN [c |-> ReleaseBuffer(c, Len(r.buf)),
          r |-> ForwardClosed([r EXCEPT !.buf = <<>>]), t |-> t, err |-> "None"]
    ELSE IF r.tx /\ Len(t.chan) < ChannelCap
    THEN [c |-> c, r |-> r, t |-> [t EXCEPT !.chan = Append(@, chunk)],
          err |-> "None"]
    ELSE IF ~TryReserveBuffer(c)
    THEN [c |-> c, r |-> r, t |-> t, err |-> "Global"]
    ELSE IF r.received > MaxBodyChunks
    THEN [c |-> c, r |-> r, t |-> t, err |-> "BodySize"]
    ELSE [c |-> [c EXCEPT !.buffered = @ + 1],
          r |-> OnBuffered([r EXCEPT !.buf = Append(@, chunk)]),
          t |-> t, err |-> "None"]

(* Data: one read of one chunk.                                            *)
Data(s) ==
    /\ InEvents /\ Live(s) /\ ~st[s].finSent /\ st[s].received < load[s].body
    /\ LET r == st[s]
           n == [r EXCEPT !.received = @ + 1]
           e == Enqueue(ctl, n, task[s], n.received)
       IN  IF Bodyless(s)
              \/ (load[s].mode # "ConnectTunnel" /\ n.received > MaxBodyChunks)
           THEN ReplyAndEnd(s, r, ctl, TRUE)
           ELSE IF e.err # "None" THEN ReplyAndEnd(s, n, ctl, TRUE)
           ELSE /\ ctl' = e.c
                /\ st' = [st EXCEPT ![s] = e.r]
                /\ task' = [task EXCEPT ![s] = e.t]
                /\ StayInEvents
    /\ UNCHANGED <<load, budget>>

(* A protocol error while reading the body: answered, best effort.         *)
DataError(s) ==
    /\ InEvents /\ Live(s)
    /\ EndStream(s, st[s], Shed(ctl))
    /\ StayInEvents
    /\ UNCHANGED <<load, budget>>

Finished(s) ==
    /\ InEvents /\ Live(s) /\ ~st[s].finSent
    /\ LET r == OnFinished([st[s] EXCEPT !.finSent = TRUE])
           f == FlushRequestBuffer(r, task[s])
       IN  /\ ctl' = Flushed(ctl, r, f)
           /\ st' = [st EXCEPT ![s] = f.r]
           /\ task' = [task EXCEPT ![s] = f.t]
    /\ StayInEvents
    /\ UNCHANGED <<load, budget>>

Reset(s) ==
    /\ InEvents /\ Live(s)
    /\ EndStream(s, st[s], ctl)
    /\ StayInEvents
    /\ UNCHANGED <<load, budget>>

(* release_connection_streams, when the connection closes or is swept.     *)
ConnectionClosed ==
    /\ worker.pc = "events" /\ worker.conn # "closed"
    /\ ctl' = FoldSet(LAMBDA s, c : Cleanup(c, s, st[s]), ctl, LiveStreams)
    /\ st' = [s \in Streams |-> IF Live(s) THEN Ended ELSE st[s]]
    /\ task' = [s \in Streams |-> IF Live(s) THEN Orphan(task[s]) ELSE task[s]]
    /\ worker' = [worker EXCEPT !.conn = "closed"]
    /\ UNCHANGED <<load, budget>>

-------------------------------------------------------------------------------
(* advance_streams_non_blocking: visit the streams that were live when the *)
(* pass began.                                                             *)
BeginPass ==
    /\ worker.pc = "events" /\ LiveStreams # {}
    /\ worker' = [worker EXCEPT !.pc = "visit", !.todo = LiveStreams]
    /\ UNCHANGED <<load, ctl, budget, st, task>>

EndPass ==
    /\ worker.pc = "visit" /\ worker.todo = {}
    /\ worker' = [worker EXCEPT !.pc = "events"]
    /\ UNCHANGED <<load, ctl, budget, st, task>>

(* Variant of VisitTimeout: no deadline once the body has ended.           *)
VisitTimeoutBodyOnly(s) ==
    /\ worker.pc = "visit" /\ s \in worker.todo /\ CanAcceptBody(st[s])
    /\ EndStream(s, st[s], Shed(ctl))
    /\ worker' = [worker EXCEPT !.todo = @ \ {s}]
    /\ UNCHANGED <<load, budget>>

(* Body timeouts, then the total deadline, else flush the request body.    *)
(* Time is not modelled: any visit may find that a deadline has passed.    *)
VisitTimeout(s) ==
    /\ worker.pc = "visit" /\ s \in worker.todo
    /\ EndStream(s, st[s], Shed(ctl))
    /\ worker' = [worker EXCEPT !.todo = @ \ {s}]
    /\ UNCHANGED <<load, budget>>

VisitFlush(s) ==
    /\ worker.pc = "visit" /\ s \in worker.todo
    /\ LET f == FlushRequestBuffer(st[s], task[s]) IN
       /\ ctl' = Flushed(ctl, st[s], f)
       /\ st' = [st EXCEPT ![s] = f.r]
       /\ task' = [task EXCEPT ![s] = f.t]
    /\ worker' = [worker EXCEPT !.pc = "auth", !.cur = s, !.todo = @ \ {s}]
    /\ UNCHANGED <<load, budget>>

(* poll_non_blocking: the deadline may have passed, and is read first; an  *)
(* answer that was already taken reads as a dropped sender.                *)
AuthPolls(r) ==
    IF r.exec # "AwaitingAuth" THEN {}
    ELSE IF r.taken THEN {"timeout", "error"}
    ELSE {"timeout"} \cup ({r.answer} \ {None})

(* Variant of AuthTransition: a timeout always fails open.                 *)
AuthTransitionTimeoutOpen(result, failureMode) ==
    IF result = "deny" \/ (result = "error" /\ failureMode = "FailClosed")
    THEN "Rejected" ELSE "Admitted"

(* resolve_external_auth_state_transition.                                 *)
AuthTransition(result, failureMode) ==
    IF result = "allow" THEN "Admitted"
    ELSE IF result = "deny" THEN "Rejected"
    ELSE IF failureMode = "FailOpen" THEN "Admitted" ELSE "Rejected"

AuthPending ==
    /\ worker.pc = "auth"
    /\ st[worker.cur].exec = "AwaitingAuth" => st[worker.cur].answer = None
    /\ Step("upstream")
    /\ UNCHANGED <<load, ctl, budget, st, task>>

(* complete_auth_result.                                                   *)
CompleteAuth ==
    LET s == worker.cur IN
    /\ worker.pc = "auth"
    /\ \E polled \in AuthPolls(st[s]) :
           LET r == [st[s] EXCEPT !.taken = @ \/ polled = st[s].answer] IN
           IF AuthTransition(polled, load[s].auth) = "Admitted"
           THEN Materialize(s, [r EXCEPT !.exec = "DispatchReady"], ctl)
           ELSE ReplyAndEnd(s, r, ctl, FALSE)
    /\ UNCHANGED <<load, budget>>

UpstreamPending ==
    LET s == worker.cur IN
    /\ worker.pc = "upstream"
    /\ ~CanPollUpstream(s, st[s]) \/ task[s].result = None
    /\ Step("response")
    /\ UNCHANGED <<load, ctl, budget, st, task>>

(* A failed forward: answered if the h3 stream still takes it, and ended.  *)
UpstreamFailed ==
    LET s == worker.cur IN
    /\ worker.pc = "upstream"
    /\ CanPollUpstream(s, st[s]) /\ task[s].result = "error"
    /\ EndStream(s, st[s], Shed(ctl))
    /\ NextStream
    /\ UNCHANGED <<load, budget>>

(* prepare_response_start_decision and apply_response_start_decision.  A   *)
(* declared length over the cap ends the stream with a synthetic answer,   *)
(* a reply that ends with its head ends it at once, a head that cannot be  *)
(* written fails it.                                                       *)
UpstreamEndsAtHead ==
    LET s == worker.cur IN
    /\ worker.pc = "upstream"
    /\ CanPollUpstream(s, st[s]) /\ task[s].result = "ok"
    /\ \E sheds \in BOOLEAN :
           EndStream(s, st[s], [ctl EXCEPT !.adaptive = Observe(@, sheds)])
    /\ NextStream
    /\ UNCHANGED <<load, budget>>

(* Otherwise the reply streams: with its head sent, or deferred until a    *)
(* body of unknown length has been read.                                   *)
UpstreamStreams ==
    LET s == worker.cur IN
    /\ worker.pc = "upstream"
    /\ CanPollUpstream(s, st[s]) /\ task[s].result = "ok"
    /\ \E deferred, slow \in BOOLEAN :
           /\ st' = [st EXCEPT ![s] =
                  [@ EXCEPT !.exec = "StreamingResponse", !.tx = FALSE,
                            !.rx = FALSE, !.head = ~deferred,
                            !.out = IF deferred THEN <<>> ELSE <<<<"start">>>>]]
           /\ task' = [task EXCEPT ![s] =
                  [@ EXCEPT !.result = None, !.pump = "run",
                            !.deferred = deferred]]
           /\ ctl' = [ctl EXCEPT !.adaptive = Observe(@, slow)]
    /\ Step("response")
    /\ UNCHANGED <<load, budget>>

-------------------------------------------------------------------------------
(* flush_response_chunks, one turn of its loop: the pending chunk, else    *)
(* the next one of the channel.                                            *)
HasChunk(r) == r.exec = "StreamingResponse" /\ r.pending \o r.reply # <<>>
NextChunk(r) == Head(r.pending \o r.reply)
TakeChunk(r) ==
    IF r.pending # <<>> THEN [r EXCEPT !.pending = <<>>]
    ELSE [r EXCEPT !.reply = Tail(@)]

NothingToFlush ==
    /\ worker.pc = "response" /\ ~HasChunk(st[worker.cur])
    /\ NextStream
    /\ UNCHANGED <<load, ctl, budget, st, task>>

(* The write is accepted: the loop goes on, or the stream completes.       *)
WriteChunk ==
    LET s == worker.cur
        chunk == NextChunk(st[s])
        r == TakeChunk(st[s])
    IN  /\ worker.pc = "response" /\ HasChunk(st[s])
        /\ chunk[1] \in {"start", "data", "trailers", "end"}
        /\ IF chunk[1] = "end" THEN EndStream(s, r, ctl) /\ NextStream
           ELSE /\ st' = [st EXCEPT ![s] = [r EXCEPT !.head = TRUE,
                                                !.out = Append(@, chunk)]]
                /\ UNCHANGED <<ctl, task, worker>>
        /\ UNCHANGED <<load, budget>>

(* Variant of WriteBlocked: the blocked chunk is dropped.                  *)
WriteBlockedDrops ==
    LET s == worker.cur IN
    /\ worker.pc = "response" /\ HasChunk(st[s])
    /\ st' = [st EXCEPT ![s] = TakeChunk(@)]
    /\ NextStream
    /\ UNCHANGED <<load, ctl, budget, task>>

(* The write blocks: the chunk is kept for the next pass.                  *)
WriteBlocked ==
    LET s == worker.cur IN
    /\ worker.pc = "response" /\ HasChunk(st[s])
    /\ NextChunk(st[s])[1] \in {"start", "data", "trailers", "end"}
    /\ st' = [st EXCEPT ![s] = [TakeChunk(@) EXCEPT !.pending = <<NextChunk(st[s])>>]]
    /\ NextStream
    /\ UNCHANGED <<load, ctl, budget, task>>

(* The write fails, or the pump reports an error or a timeout.             *)
WriteFails ==
    LET s == worker.cur IN
    /\ worker.pc = "response" /\ HasChunk(st[s])
    /\ EndStream(s, TakeChunk(st[s]), Shed(ctl))
    /\ NextStream
    /\ UNCHANGED <<load, budget>>

-------------------------------------------------------------------------------
(* The upstream task.  It outlives its stream: nothing aborts it.          *)
SetTask(s, t) ==
    /\ task' = [task EXCEPT ![s] = t]
    /\ UNCHANGED <<load, ctl, st, worker>>

(* send_upstream_request finished with the primary's body.  The result is  *)
(* sent on a oneshot that only a stream awaiting it still holds.           *)
Deliver(s, t, result) ==
    [t EXCEPT !.pc = "done", !.open = FALSE, !.alt = FALSE, !.seen = 0,
              !.result = IF st[s].exec = "AwaitingUpstream" THEN result ELSE None]

Hedges(s) ==
    load[s].hedged /\ Bodyless(s) /\ task[s].alt

TaskStart(s) ==
    /\ task[s].pc = "start"
    /\ budget' = IF R.budget
                 THEN MarkRoutePrimary(MarkGlobalPrimary(budget), RouteOf(s))
                 ELSE budget
    /\ SetTask(s, [task[s] EXCEPT !.pc = IF Hedges(s) THEN "hedging" ELSE "primary"])

(* The transport reads the body while the primary request is in flight.    *)
TaskReads(s) ==
    /\ task[s].open /\ task[s].chan # <<>>
    /\ task[s].pc \in {"primary", "hedging"}
    /\ SetTask(s, [task[s] EXCEPT !.chan = Tail(@)])
    /\ UNCHANGED budget

TaskResponds(s) ==
    /\ task[s].pc \in {"primary", "hedging", "waiting", "racing", "last", "retrying"}
    /\ SetTask(s, Deliver(s, task[s], "ok"))
    /\ UNCHANGED budget

(* An attempt fails.  A primary that may be retried first asks the budget, *)
(* unless its circuit was open; a race goes on with the other attempt.     *)
TaskFails(s) ==
    \/ /\ task[s].pc = "primary"
       /\ \E next \in {"load", "decide"} :
              SetTask(s, [task[s] EXCEPT !.pc = next, !.open = FALSE])
       /\ UNCHANGED budget
    \/ /\ task[s].pc = "racing"
       /\ SetTask(s, [task[s] EXCEPT !.pc = "last"])
       /\ UNCHANGED budget
    \/ /\ task[s].pc \in {"hedging", "waiting", "last", "retrying"}
       /\ SetTask(s, Deliver(s, task[s], "error"))
       /\ UNCHANGED budget

HedgeDelayElapses(s) ==
    /\ task[s].pc = "hedging"
    /\ SetTask(s, [task[s] EXCEPT !.pc = "load"])
    /\ UNCHANGED budget

(* RetryBudget::allow_retry: load, reserve a global slot, take the route   *)
(* lock; the global slot is given back when the route has none.            *)
Allowed(s) == IF Hedges(s) THEN "racing" ELSE "decide"
Denied(s) ==
    IF Hedges(s) THEN [task[s] EXCEPT !.pc = "waiting", !.seen = 0]
    ELSE Deliver(s, task[s], "error")

BudgetLoad(s) ==
    /\ task[s].pc = "load"
    /\ SetTask(s, IF R.budget
                  THEN [task[s] EXCEPT !.pc = "reserve", !.seen = budget.primary]
                  ELSE [task[s] EXCEPT !.pc = Allowed(s)])
    /\ UNCHANGED budget

BudgetReserve(s) ==
    /\ task[s].pc = "reserve"
    /\ IF GlobalSlotFree(budget, task[s].seen)
       THEN /\ budget' = ReserveGlobal(budget)
            /\ SetTask(s, [task[s] EXCEPT !.pc = "route", !.seen = 0])
       ELSE /\ SetTask(s, Denied(s))
            /\ UNCHANGED budget

(* Variant of BudgetRoute: a refused slot is not given back.               *)
BudgetRouteKeepsSlot(s) ==
    /\ task[s].pc = "route"
    /\ IF RouteSlotFree(budget, RouteOf(s))
       THEN /\ budget' = TakeRouteSlot(budget, RouteOf(s))
            /\ SetTask(s, [task[s] EXCEPT !.pc = Allowed(s)])
       ELSE SetTask(s, Denied(s)) /\ UNCHANGED budget

BudgetRoute(s) ==
    /\ task[s].pc = "route"
    /\ IF RouteSlotFree(budget, RouteOf(s))
       THEN /\ budget' = TakeRouteSlot(budget, RouteOf(s))
            /\ SetTask(s, [task[s] EXCEPT !.pc = Allowed(s)])
       ELSE /\ budget' = ReturnGlobal(budget)
            /\ SetTask(s, Denied(s))

(* evaluate_retry_policy, after the budget was asked: a terminal error, a  *)
(* method or body that cannot be replayed, or no alternate ends the task.  *)
RetryDecision(s) ==
    /\ task[s].pc = "decide"
    /\ \E retryable \in BOOLEAN :
           SetTask(s, IF retryable /\ Bodyless(s) /\ task[s].alt
                      THEN [task[s] EXCEPT !.pc = "retrying"]
                      ELSE Deliver(s, task[s], "error"))
    /\ UNCHANGED budget

-------------------------------------------------------------------------------
(* spawn_response_body_pump: frames go out one by one as the channel has   *)
(* room, or all at the end when the head is deferred.                      *)
Made(t) == [k \in 1 .. t.made |-> <<"data", k>>]
PumpReady(s) == task[s].pump = "run" /\ task[s].emit = <<>>

PumpRead(s) ==
    /\ PumpReady(s) /\ task[s].made < load[s].reply
    /\ LET t == [task[s] EXCEPT !.made = @ + 1] IN
       SetTask(s, IF t.deferred THEN t
                  ELSE [t EXCEPT !.emit = <<<<"data", t.made>>>>])
    /\ UNCHANGED budget

PumpEnd(s) ==
    /\ PumpReady(s)
    /\ \E trailers \in {<<>>, <<<<"trailers">>>>} :
           LET t == task[s]
               body == IF t.deferred THEN <<<<"start">>>> \o Made(t) ELSE <<>>
           IN  SetTask(s, [t EXCEPT !.pump = "over",
                              !.emit = body \o trailers \o <<<<"end">>>>])
    /\ UNCHANGED budget

PumpFails(s) ==
    /\ PumpReady(s)
    /\ \E report \in {"error", "timeout"} :
           SetTask(s, [task[s] EXCEPT !.pump = "over", !.emit = <<<<report>>>>])
    /\ UNCHANGED budget

PumpSend(s) ==
    /\ task[s].emit # <<>> /\ Len(st[s].reply) < ReplyCap
    /\ st' = [st EXCEPT ![s].reply = Append(@, Head(task[s].emit))]
    /\ task' = [task EXCEPT ![s].emit = Tail(@)]
    /\ UNCHANGED <<load, ctl, budget, worker>>

-------------------------------------------------------------------------------
(* The authorization service answers the call of start_external_auth_task. *)
AuthAnswers(s) ==
    /\ st[s].exec = "AwaitingAuth" /\ st[s].answer = None
    /\ \E a \in {"allow", "deny", "error", "timeout"} :
           st' = [st EXCEPT ![s].answer = a]
    /\ UNCHANGED <<load, ctl, budget, task, worker>>

-------------------------------------------------------------------------------
ClientEvent(s) ==
    \/ HeadersRefused(s) \/ HeadersDispatch(s) \/ HeadersStartAuth(s)
    \/ Data(s) \/ DataError(s) \/ Finished(s) \/ Reset(s)

Pass ==
    \/ EndPass
    \/ \E s \in Streams : VisitTimeout(s) \/ VisitFlush(s)
    \/ AuthPending \/ CompleteAuth
    \/ UpstreamPending \/ UpstreamFailed \/ UpstreamEndsAtHead \/ UpstreamStreams
    \/ NothingToFlush \/ WriteChunk \/ WriteBlocked \/ WriteFails

UpstreamTask(s) ==
    \/ TaskStart(s) \/ TaskReads(s) \/ TaskResponds(s) \/ TaskFails(s)
    \/ HedgeDelayElapses(s)
    \/ BudgetLoad(s) \/ BudgetReserve(s) \/ BudgetRoute(s) \/ RetryDecision(s)

Pump(s) == PumpRead(s) \/ PumpEnd(s) \/ PumpFails(s) \/ PumpSend(s)

Next ==
    \/ \E s \in Streams : ClientEvent(s) \/ AuthAnswers(s) \/ UpstreamTask(s) \/ Pump(s)
    \/ ConnectionClosed
    \/ BeginPass \/ Pass

(* The worker loop never stops: it begins a pass and finishes it.  A       *)
(* stream visited again and again is at last visited after its total       *)
(* deadline, which is a fixed instant.                                     *)
Fairness ==
    /\ WF_vars(BeginPass) /\ WF_vars(Pass)
    /\ \A s \in Streams : SF_vars(VisitTimeout(s))

Spec == Init /\ [][Next]_vars /\ Fairness

-------------------------------------------------------------------------------
(* Everything a stream took is held by exactly the streams that took it:   *)
(* adaptive, queue and semaphore permits by the admitted ones, a backend's *)
(* active count by those awaiting or streaming its reply, buffered bytes   *)
(* by those that buffer them (AdmissionPermits, BackendAccountingState and *)
(* body_buf_bytes, returned once by transition_to_terminal_with_cleanup).  *)
ResourcesAccounted ==
    LET holders == {s \in LiveStreams : st[s].permits}
        on(r) == {s \in holders : RouteOf(s) = r}
        counted(b) ==
            {s \in LiveStreams : /\ st[s].backend = b
                /\ st[s].exec \in {"AwaitingUpstream", "StreamingResponse"}}
    IN  /\ ctl.adaptive.inflight = Cardinality(holders)
        /\ ctl.queue.total = Cardinality(holders)
        /\ ctl.global + Cardinality(holders) = GlobalInflight
        /\ \A r \in Routes :
               /\ ctl.queue.byRoute[r] = Cardinality(on(r))
               /\ ctl.upstream[r] + Cardinality(on(r)) = UpstreamInflight
        /\ \A b \in Backends : ctl.active[b] = Cardinality(counted(b))
        /\ ctl.buffered = MapThenSumSet(LAMBDA s : Len(st[s].buf), LiveStreams)

(* Retries and hedges never exceed the allowance the primaries earned, and *)
(* the global count is the routes' counts plus the reservations whose      *)
(* route check is still to come: allow_retry gives a refused slot back     *)
(* exactly once, whatever other tasks do between its two halves.           *)
BudgetRespected ==
    LET reserving == {s \in Streams : task[s].pc = "route"} IN
    /\ budget.retries <= Allowance(budget.primary, R.globalRatio)
    /\ \A r \in Routes : budget.routeRetries[r]
                           <= Allowance(budget.routePrimary[r], R.routeRatio[r])
    /\ budget.retries = Cardinality(reserving)
                          + MapThenSumSet(LAMBDA r : budget.routeRetries[r], Routes)

(* What a client is sent is a head, then the body chunks in the order the  *)
(* pump read them, none lost or repeated by a blocked write, and nothing   *)
(* after the trailers (flush_response_chunks with its pending chunk).      *)
ReplyInOrder ==
    \A s \in LiveStreams :
        LET out == st[s].out
            data == SelectSeq(out, LAMBDA c : c[1] = "data")
        IN  /\ \A k \in 1 .. Len(data) : data[k] = <<"data", k>>
            /\ \A k \in 1 .. Len(out) :
                   /\ (out[k] = <<"start">>) <=> k = 1
                   /\ out[k] = <<"trailers">> => k = Len(out)

(* A request whose policy fails closed goes past authorization only with   *)
(* the service's "allow": not on a late answer, a timeout, a dropped task, *)
(* or a second poll after an answer that could not be relayed.             *)
FailClosedHolds ==
    \A s \in LiveStreams :
        load[s].auth = "FailClosed" /\ st[s].exec # "AwaitingAuth"
            => st[s].answer = "allow"

(* The body channel is closed once the client's FIN was received and the   *)
(* buffer is empty, when a progress pass has flushed the stream            *)
(* (stream_progress.rs, step 2 of advance_streams_non_blocking).           *)
BodyChannelCloses ==
    worker.pc = "auth" =>
        LET r == st[worker.cur] IN r.finSent /\ r.buf = <<>> => ~r.tx

(* Every stream ends, whatever clients, backends and the authorization     *)
(* service do: the total deadline removes it in some later pass.           *)
StreamsEnd == \A s \in Streams : Live(s) ~> ~Live(s)
===============================================================================
