------------------------------ MODULE DmaProxy ------------------------------
(***************************************************************************)
(* The receive path of the readout: the AXI DMA engine that moves packets  *)
(* of the data stream into the proxy driver's one buffer (external), the   *)
(* XFER ioctl of dma-proxy.c, and the loop of dma_thread (task_dma.c) that *)
(* calls it, counts the outcome and publishes the buffer.                  *)
(* Operators whose name begins with Mutant are faulty variants of the      *)
(* definition that follows them; no specification uses them.               *)
(*                                                                         *)
(* Packets are numbered 1, 2, ... in stream order and a descriptor takes   *)
(* one packet.  Descriptors complete in the order they were submitted, so  *)
(* the engine is three cookies: the last one submitted (used), the last    *)
(* one whose data is in memory (completed) and the last one whose callback *)
(* has run (called).  All descriptors share one struct completion and one  *)
(* buffer, which is where the interesting interleavings come from.         *)
(***************************************************************************)
EXTENDS Integers, Sequences, FiniteSets

CONSTANTS
    Packet,             \* the packets the stream may carry, records [id, len]
    Word,               \* the counters are unsigned words: 2^32 in the code
    MaxPackets,         \* bound: packets the stream yields
    MaxTimeouts,        \* bound: XFER calls that time out
    MaxPrepFailures,    \* bound: calls for which device_prep_slave_sg fails
    MaxSubmitErrors,    \* bound: calls for which dmaengine_submit fails
    MaxRestarts         \* bound: times the application is killed and restarted

ASSUME PacketAssumption ==
    \A k \in Packet : k.id \in {"AVG", "ADC", "OTHER"} /\ k.len \in Nat

ASSUME BoundsAssumption ==
    /\ Word \in Nat \ {0}
    /\ MaxPackets \in Nat
    /\ MaxTimeouts \in Nat
    /\ MaxPrepFailures \in Nat
    /\ MaxSubmitErrors \in Nat
    /\ MaxRestarts \in Nat

VARIABLES
    stream,     \* the packets the data stream has yielded so far
    used,       \* cookie of the last descriptor submitted to the engine
    completed,  \* cookie of the last descriptor whose packet is in memory
    called,     \* cookie of the last descriptor whose callback has run
    writing,    \* the engine is in the middle of writing a packet
    buffer,     \* channel_buffer.buffer: the packets its first word and its rest are from
    done,       \* the counter inside the one struct completion (cmp)
    cookie,     \* bdtable[0].cookie; -1 is an error code
    status,     \* channel_buffer.status
    pc,         \* where dma_thread is
    header,     \* the packet whose header word dma_thread has read
    count,      \* the counters of dma_thread that STATUS messages carry
    published,  \* history: the messages sent, [hdr, body] packet numbers
    process,    \* history: [calls, used, sent] of the process now running
    spent       \* how much of each bound is used up

engineVars == <<stream, used, completed, called, writing, buffer>>
vars == <<stream, used, completed, called, writing, buffer, done, cookie,
          status, pc, header, count, published, process, spent>>

Published == {"AVG", "ADC"}
Zeroes == [pkts |-> 0, bytes |-> 0, errors |-> 0, valid |-> 0, timeouts |-> 0,
           samples |-> 0, status |-> 0, adc |-> 0, avg |-> 0]

Counters == [DOMAIN Zeroes -> 0..(Word - 1)]
Message == [hdr : Nat, body : Nat]
Process == [calls : Nat, used : Nat, sent : Nat]
Budget == [timeouts : 0..MaxTimeouts, preps : 0..MaxPrepFailures,
           submits : 0..MaxSubmitErrors, restarts : 0..MaxRestarts]

TypeOK ==
    /\ stream \in Seq(Packet)
    /\ used \in Nat /\ completed \in Nat /\ called \in Nat /\ done \in Nat
    /\ writing \in BOOLEAN
    /\ buffer \in Message
    /\ cookie \in Nat \cup {-1}
    /\ status \in {"NO_ERROR", "BUSY", "TIMEOUT", "ERROR"}
    /\ pc \in {"loop", "start", "wait", "check", "examine", "send"}
    /\ header \in Nat
    /\ count \in Counters
    /\ published \in Seq(Message)
    /\ process \in Process
    /\ spent \in Budget

(* The channels come from devm_kmalloc and nobody initialises the          *)
(* completion before the first transfer: done may start as anything.       *)
Init ==
    /\ stream = << >>
    /\ used = 0 /\ completed = 0 /\ called = 0
    /\ writing = FALSE
    /\ buffer = [hdr |-> 0, body |-> 0]
    /\ done \in {0, 1}
    /\ cookie = 0
    /\ status = "NO_ERROR"
    /\ pc = "loop"
    /\ header = 0
    /\ count = Zeroes
    /\ published = << >>
    /\ process = [calls |-> 0, used |-> 0, sent |-> 0]
    /\ spent = [timeouts |-> 0, preps |-> 0, submits |-> 0, restarts |-> 0]

----------------------------------------------------------------------------
(* The data stream and the DMA engine (external).                          *)

\* The stream holds back a packet until a descriptor is in flight.
Arrive ==
    /\ Len(stream) < MaxPackets
    /\ \E k \in Packet : stream' = Append(stream, k)
    /\ UNCHANGED <<used, completed, called, writing, buffer, done, cookie,
                   status, pc, header, count, published, process, spent>>

\* The oldest descriptor in flight takes the next packet: its first word is written.
DmaBegin ==
    /\ ~writing
    /\ completed < used
    /\ completed < Len(stream)
    /\ writing' = TRUE
    /\ buffer' = [buffer EXCEPT !.hdr = completed + 1]
    /\ UNCHANGED <<stream, used, completed, called, done, cookie,
                   status, pc, header, count, published, process, spent>>

\* The interrupt: the packet is in memory and its cookie is complete.
DmaEnd ==
    /\ writing
    /\ writing' = FALSE
    /\ buffer' = [buffer EXCEPT !.body = completed + 1]
    /\ completed' = completed + 1
    /\ UNCHANGED <<stream, used, called, done, cookie,
                   status, pc, header, count, published, process, spent>>

\* sync_callback, run later by the engine's tasklet, once per descriptor.
SyncCallback ==
    /\ called < completed
    /\ called' = called + 1
    /\ done' = done + 1
    /\ UNCHANGED <<stream, used, completed, writing, buffer, cookie,
                   status, pc, header, count, published, process, spent>>

\* The engine's answer is not looked at: any wake-up counts as success.
MutantAnyComplete(c) == TRUE

\* dma_async_is_tx_complete: complete, and not in progress.
IsTxComplete(c) == c <= completed \/ used < c

----------------------------------------------------------------------------
(* start_transfer and wait_for_transfer, the two halves of XFER.           *)

\* No descriptor: the completion and the cookie stay as the last call left them.
PrepFails ==
    /\ spent.preps < MaxPrepFailures
    /\ spent' = [spent EXCEPT !.preps = @ + 1]
    /\ UNCHANGED <<done, cookie, used>>

\* The completion is initialised anew, but nothing is queued.
SubmitFails ==
    /\ spent.submits < MaxSubmitErrors
    /\ spent' = [spent EXCEPT !.submits = @ + 1]
    /\ done' = 0
    /\ cookie' = -1
    /\ UNCHANGED used

\* The cookie of the first transfer is kept.
MutantSubmitted ==
    /\ done' = 0
    /\ used' = used + 1
    /\ cookie' = IF cookie = 0 THEN used + 1 ELSE cookie
    /\ UNCHANGED spent

\* The completion is not initialised anew.
MutantSubmittedStale ==
    /\ used' = used + 1
    /\ cookie' = used + 1
    /\ UNCHANGED <<done, spent>>

Submitted ==
    /\ done' = 0
    /\ used' = used + 1
    /\ cookie' = used + 1
    /\ UNCHANGED spent

StartTransfer ==
    /\ pc = "start"
    /\ PrepFails \/ SubmitFails \/ Submitted
    /\ status' = "BUSY"
    /\ process' = [process EXCEPT !.calls = @ + 1]
    /\ pc' = "wait"
    /\ UNCHANGED <<stream, completed, called, writing, buffer, header, count, published>>

\* wait_for_completion_timeout returns early: it consumes one completion.
Woken ==
    /\ pc = "wait"
    /\ done > 0
    /\ done' = done - 1
    /\ pc' = "check"
    /\ UNCHANGED <<engineVars, cookie, status, header, count, published, process, spent>>

\* A wait without a time limit.
MutantWaitForever == FALSE

\* Three seconds without a completion. The descriptor is not taken back.
TimesOut ==
    /\ pc = "wait"
    /\ done = 0
    /\ spent.timeouts < MaxTimeouts
    /\ spent' = [spent EXCEPT !.timeouts = @ + 1]
    /\ status' = "TIMEOUT"
    /\ pc' = "examine"
    /\ UNCHANGED <<engineVars, done, cookie, header, count, published, process>>

\* Woken is one step and the look at the cookie a later one: the engine runs in between.
CheckCookie ==
    /\ pc = "check"
    /\ status' = IF IsTxComplete(cookie) THEN "NO_ERROR" ELSE "ERROR"
    /\ pc' = "examine"
    /\ UNCHANGED <<engineVars, done, cookie, header, count, published, process, spent>>

----------------------------------------------------------------------------
(* dma_thread.                                                             *)

\* A counter wider than the word that is sent.
MutantAdd(x, n) == x + n

Add(x, n) == (x + n) % Word
Bump(c, field) == [c EXCEPT ![field] = Add(@, 1)]

\* The top of the loop: a STATUS message is sent every two seconds.
LoopTop ==
    /\ pc = "loop"
    /\ count' \in {count, Bump(count, "status")}
    /\ pc' = "start"
    /\ UNCHANGED <<engineVars, done, cookie, status, header, published, process, spent>>

\* Only time-outs are counted.
MutantCountFailure ==
    /\ pc = "examine"
    /\ status # "NO_ERROR"
    /\ count' = IF status = "TIMEOUT" THEN Bump(count, "timeouts") ELSE count
    /\ pc' = "loop"
    /\ UNCHANGED <<engineVars, done, cookie, status, header, published, process, spent>>

\* PROXY_TIMEOUT and PROXY_ERROR.
CountFailure ==
    /\ pc = "examine"
    /\ status # "NO_ERROR"
    /\ count' = Bump(count, IF status = "TIMEOUT" THEN "timeouts" ELSE "errors")
    /\ pc' = "loop"
    /\ UNCHANGED <<engineVars, done, cookie, status, header, published, process, spent>>

\* PROXY_NO_ERROR and a header word of zero: a packet number 0 is a buffer never written.
EmptyHeader ==
    /\ pc = "examine"
    /\ status = "NO_ERROR"
    /\ buffer.hdr = 0
    /\ count' = Bump(count, "pkts")
    /\ pc' = "loop"
    /\ UNCHANGED <<engineVars, done, cookie, status, header, published, process, spent>>

\* A length check that refuses the longest packet.
MutantReadHeader ==
    /\ pc = "examine"
    /\ status = "NO_ERROR"
    /\ buffer.hdr # 0
    /\ LET pkt == stream[buffer.hdr] IN
         /\ count' = Bump(count, "pkts")
         /\ pc' = IF pkt.id \in Published /\ pkt.len < 3 THEN "send" ELSE "loop"
    /\ header' = buffer.hdr
    /\ UNCHANGED <<engineVars, done, cookie, status, published, process, spent>>

\* PROXY_NO_ERROR and a header: only the identifiers in Published are sent on. Its 16-bit
\* length is always within the buffer.
ReadHeader ==
    /\ pc = "examine"
    /\ status = "NO_ERROR"
    /\ buffer.hdr # 0
    /\ LET pkt == stream[buffer.hdr] IN
         /\ count' = [Bump(Bump(count, "pkts"), "valid")
                         EXCEPT !.bytes = Add(@, 8 + 8 * pkt.len)]
         /\ pc' = IF pkt.id \in Published THEN "send" ELSE "loop"
    /\ header' = buffer.hdr
    /\ UNCHANGED <<engineVars, done, cookie, status, published, process, spent>>

\* The time-stamp word is counted as a sample.
MutantSend ==
    /\ pc = "send"
    /\ published' = Append(published, [hdr |-> header, body |-> buffer.body])
    /\ LET pkt == stream[header] IN
         count' = IF pkt.id = "AVG"
                  THEN Bump(count, "avg")
                  ELSE [Bump(count, "adc") EXCEPT !.samples = Add(@, pkt.len)]
    /\ pc' = "loop"
    /\ UNCHANGED <<engineVars, done, cookie, status, header, process, spent>>

\* zmq_send copies the buffer, header word included, after the header was examined.
Send ==
    /\ pc = "send"
    /\ published' = Append(published, [hdr |-> header, body |-> buffer.body])
    /\ LET pkt == stream[header] IN
         count' = IF pkt.id = "AVG"
                  THEN Bump(count, "avg")
                  ELSE [Bump(count, "adc") EXCEPT !.samples = Add(@, pkt.len - 1)]
    /\ pc' = "loop"
    /\ UNCHANGED <<engineVars, done, cookie, status, header, process, spent>>

\* The process is killed and started again. Inside the ioctl it cannot be
\* killed (the wait is uninterruptible); release() leaves the engine alone.
Restart ==
    /\ pc \notin {"wait", "check"}
    /\ spent.restarts < MaxRestarts
    /\ spent' = [spent EXCEPT !.restarts = @ + 1]
    /\ count' = Zeroes
    /\ header' = 0
    /\ process' = [calls |-> 0, used |-> used, sent |-> Len(published)]
    /\ pc' = "loop"
    /\ UNCHANGED <<engineVars, done, cookie, status, published>>

----------------------------------------------------------------------------
Engine == Arrive \/ DmaBegin \/ DmaEnd \/ SyncCallback
Ioctl == StartTransfer \/ Woken \/ TimesOut \/ CheckCookie
Thread == LoopTop \/ CountFailure \/ EmptyHeader \/ ReadHeader \/ Send
Next == Engine \/ Ioctl \/ Thread \/ Restart

Spec == Init /\ [][Next]_vars

(* The engine serves a descriptor when a packet waits and runs every       *)
(* callback; the kernel timer ends a wait; the thread is scheduled. Only   *)
(* the arrival of packets, failures and restarts are not promised.         *)
Fairness ==
    /\ WF_vars(DmaBegin) /\ WF_vars(DmaEnd) /\ WF_vars(SyncCallback)
    /\ WF_vars(Ioctl) /\ WF_vars(Thread)

FairSpec == Spec /\ Fairness

----------------------------------------------------------------------------
(* Properties.                                                             *)

\* Whenever dma_thread believes it holds a received packet, no descriptor is in
\* flight: the engine cannot write into the buffer that zmq_send is copying.
QuiescentWhenValid ==
    pc \in {"examine", "send"} /\ status = "NO_ERROR" => completed = used /\ ~writing

\* What a subscriber can conclude from a STATUS message: of the packets moved for
\* this process, those it never received are at most the errors and time-outs
\* reported (as long as the counters have not wrapped). No loss is silent.
Reached(p) == \E i \in DOMAIN published : published[i] = [hdr |-> p, body |-> p]
Lost == {p \in (process.used + 1)..completed :
            stream[p].id \in Published /\ ~Reached(p)}
LossAccounted ==
    pc = "loop" /\ process.calls < Word => Cardinality(Lost) <= count.errors + count.timeouts

\* The counters a subscriber uses to check its own reception agree with what was
\* sent to it since the process started, time-stamp words not counted as samples.
Mine == (process.sent + 1)..Len(published)
SentWith(id) == {i \in Mine : stream[published[i].hdr].id = id}
SamplesIn(i) ==
    LET pkt == stream[published[i].hdr] IN IF pkt.id = "ADC" THEN pkt.len - 1 ELSE 0
SamplesSent ==
    LET sum[i \in 0..Len(published)] ==
            IF i <= process.sent THEN 0 ELSE sum[i - 1] + SamplesIn(i)
    IN  sum[Len(published)]
TallyMatches ==
    /\ count.adc = Cardinality(SentWith("ADC")) % Word
    /\ count.avg = Cardinality(SentWith("AVG")) % Word
    /\ count.samples = SamplesSent % Word

\* Errors are only reported after the path has once timed out: without a
\* time-out, a wake-up always belongs to the descriptor just submitted.
ErrorsFollowTimeouts == status = "ERROR" => spent.timeouts > 0

\* What start_transfer's comment says of the cookie and the completion: the wait
\* is ended by the transfer that was submitted for it.
WokenByOwnTransfer == pc = "check" => IsTxComplete(cookie)

\* The path implements PacketFeed: published in order, once, whole.
Feed == INSTANCE PacketFeed WITH arrived <- Len(stream), out <- published
FeedSpec == Feed!Spec

\* An XFER call returns while the kernel timer can still fire.
CallReturns == pc = "wait" /\ spent.timeouts < MaxTimeouts ~> pc = "loop"

\* Every packet of a published kind that waits in the stream reaches the
\* subscriber, unless something goes wrong before the packet's descriptor is called
\* back: a call times out, or cannot prepare or submit its descriptor.
Undisturbed == spent.timeouts = 0 /\ spent.preps = 0 /\ spent.submits = 0
EveryPacketDelivered ==
    \A p \in 1..MaxPackets :
        (/\ p <= Len(stream) /\ stream[p].id \in Published
         /\ called < p /\ Undisturbed)
            ~> (Reached(p) \/ (~Undisturbed /\ called < p))
=============================================================================
