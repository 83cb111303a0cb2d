--------------------------- MODULE DmaProxy_proofs ---------------------------
(***************************************************************************)
(* What TLAPS proves of DmaProxy, for every set of packets, every word     *)
(* size and all bounds: type correctness; when no submission fails, that   *)
(* the engine is quiet whenever dma_thread holds a received packet; when   *)
(* no preparation fails either, that the path implements PacketFeed; and,  *)
(* whatever fails, that errors need a time-out, every loss is counted, and *)
(* the tally is that of the packets sent.                                  *)
(***************************************************************************)
EXTENDS DmaProxy, FiniteSetTheorems, WellFoundedInduction, TLAPS

USE PacketAssumption, BoundsAssumption

\* A counter stays a word.
LEMMA AddIsWord == \A x, n \in Int : Add(x, n) \in 0..(Word - 1)
  BY SMT DEF Add

\* Counting one event, or adding to a field, leaves a record of words.
LEMMA BumpIsCount ==
  ASSUME NEW D, NEW c \in [D -> 0..(Word - 1)], NEW field \in D
  PROVE  /\ Bump(c, field) \in [D -> 0..(Word - 1)]
         /\ \A n \in Int : [c EXCEPT ![field] = Add(@, n)] \in [D -> 0..(Word - 1)]
<1>1. c[field] \in Int
  OBVIOUS
<1>2. \A n \in Int : Add(c[field], n) \in 0..(Word - 1)
  BY <1>1, AddIsWord
<1>3. \A v \in 0..(Word - 1) : [c EXCEPT ![field] = v] \in [D -> 0..(Word - 1)]
  OBVIOUS
<1> QED
  BY <1>2, <1>3 DEF Bump

LEMMA ZeroesIsCount == Zeroes \in Counters
  BY DEF Zeroes, Counters

\* The fields of the record of counters.
LEMMA Fields == DOMAIN Zeroes = {"pkts", "bytes", "errors", "valid", "timeouts",
                                 "samples", "status", "adc", "avg"}
  BY DEF Zeroes

\* A budget is spent only while some of it is left.
LEMMA SpendIsBudget ==
  ASSUME NEW b \in Budget
  PROVE  /\ b.timeouts < MaxTimeouts => [b EXCEPT !.timeouts = @ + 1] \in Budget
         /\ b.preps < MaxPrepFailures => [b EXCEPT !.preps = @ + 1] \in Budget
         /\ b.submits < MaxSubmitErrors => [b EXCEPT !.submits = @ + 1] \in Budget
         /\ b.restarts < MaxRestarts => [b EXCEPT !.restarts = @ + 1] \in Budget
<1>1. \A n \in Nat : \A m \in 0..n : m < n => m + 1 \in 0..n
  OBVIOUS
<1>2. /\ b.timeouts \in 0..MaxTimeouts
      /\ b.preps \in 0..MaxPrepFailures
      /\ b.submits \in 0..MaxSubmitErrors
      /\ b.restarts \in 0..MaxRestarts
  BY DEF Budget
<1>3. /\ b.timeouts < MaxTimeouts => b.timeouts + 1 \in 0..MaxTimeouts
      /\ b.preps < MaxPrepFailures => b.preps + 1 \in 0..MaxPrepFailures
      /\ b.submits < MaxSubmitErrors => b.submits + 1 \in 0..MaxSubmitErrors
      /\ b.restarts < MaxRestarts => b.restarts + 1 \in 0..MaxRestarts
  BY <1>1, <1>2
<1>4. b = [timeouts |-> b.timeouts, preps |-> b.preps, submits |-> b.submits,
           restarts |-> b.restarts]
  BY DEF Budget
<1> QED
  BY <1>2, <1>3, <1>4, Zenon DEF Budget

\* The records of the buffer and of the history keep their types.
LEMMA MessageFields ==
  ASSUME NEW m \in Message, NEW n \in Nat
  PROVE  [m EXCEPT !.hdr = n] \in Message /\ [m EXCEPT !.body = n] \in Message
  BY DEF Message

LEMMA OneMoreCall ==
  ASSUME NEW p \in Process
  PROVE  [p EXCEPT !.calls = @ + 1] \in Process
  BY DEF Process

----------------------------------------------------------------------------
(* Type correctness: the engine, the driver and the thread keep every      *)
(* variable in its type, the counters inside their words.                  *)

LEMMA InitTypeOK == Init => TypeOK
<1> SUFFICES ASSUME Init PROVE TypeOK
  OBVIOUS
<1>1. count \in Counters
  BY ZeroesIsCount DEF Init
<1> QED
  <2>1. buffer \in Message /\ process \in Process /\ spent \in Budget
    BY DEF Init, Message, Process, Budget
  <2>2. stream \in Seq(Packet) /\ published \in Seq(Message)
    BY DEF Init
  <2>3. done \in Nat /\ cookie \in Nat \cup {-1} /\ used \in Nat
    BY DEF Init
  <2>4. status \in {"NO_ERROR", "BUSY", "TIMEOUT", "ERROR"} /\ writing \in BOOLEAN
    BY DEF Init
  <2> QED
    BY <1>1, <2>1, <2>2, <2>3, <2>4 DEF Init, TypeOK

LEMMA EngineTypeOK == TypeOK /\ Engine => TypeOK'
<1> SUFFICES ASSUME TypeOK, Engine PROVE TypeOK'
  OBVIOUS
<1>1. CASE Arrive
  BY <1>1 DEF TypeOK, Arrive
<1>2. CASE DmaBegin
  <2>1. buffer' \in Message
    BY <1>2, completed + 1 \in Nat, MessageFields DEF TypeOK, DmaBegin
  <2> QED
    BY <1>2, <2>1 DEF TypeOK, DmaBegin
<1>3. CASE DmaEnd
  <2>1. buffer' \in Message /\ completed' \in Nat
    BY <1>3, completed + 1 \in Nat, MessageFields DEF TypeOK, DmaEnd
  <2> QED
    BY <1>3, <2>1 DEF TypeOK, DmaEnd
<1>4. CASE SyncCallback
  BY <1>4 DEF TypeOK, SyncCallback
<1> QED
  BY <1>1, <1>2, <1>3, <1>4 DEF Engine

LEMMA IoctlTypeOK == TypeOK /\ Ioctl => TypeOK'
<1> SUFFICES ASSUME TypeOK, Ioctl PROVE TypeOK'
  OBVIOUS
<1>1. CASE StartTransfer
  <2>1. process' \in Process
    BY <1>1, OneMoreCall DEF TypeOK, StartTransfer
  <2>2. spent' \in Budget
    BY <1>1, SpendIsBudget DEF TypeOK, StartTransfer, PrepFails, SubmitFails, Submitted
  <2>3. done' \in Nat /\ used' \in Nat /\ cookie' \in Nat \cup {-1}
    BY <1>1 DEF TypeOK, StartTransfer, PrepFails, SubmitFails, Submitted
  <2> QED
    BY <1>1, <2>1, <2>2, <2>3 DEF TypeOK, StartTransfer
<1>2. CASE Woken
  BY <1>2 DEF TypeOK, Woken, engineVars
<1>3. CASE TimesOut
  <2>1. spent' \in Budget
    BY <1>3, SpendIsBudget DEF TypeOK, TimesOut
  <2> QED
    BY <1>3, <2>1 DEF TypeOK, TimesOut, engineVars
<1>4. CASE CheckCookie
  BY <1>4 DEF TypeOK, CheckCookie, engineVars
<1> QED
  BY <1>1, <1>2, <1>3, <1>4 DEF Ioctl

\* Packet fields used by the counters are numbers, wherever the header came from.
LEMMA ThreadTypeOK ==
  ASSUME TypeOK, Thread, buffer.hdr <= Len(stream), header \in 1..Len(stream) \/ pc # "send"
  PROVE  TypeOK'
<1>0. /\ count \in Counters
      /\ {"pkts", "bytes", "errors", "valid", "timeouts", "samples", "status",
          "adc", "avg"} = DOMAIN Zeroes
  BY Fields DEF TypeOK
<1>1. CASE LoopTop
  <2>1. count' \in Counters
    BY <1>0, <1>1, BumpIsCount DEF Counters, LoopTop
  <2> QED
    BY <1>1, <2>1 DEF TypeOK, LoopTop, engineVars
<1>2. CASE CountFailure
  <2>1. count' \in Counters
    BY <1>0, <1>2, BumpIsCount DEF Counters, CountFailure
  <2> QED
    BY <1>2, <2>1 DEF TypeOK, CountFailure, engineVars
<1>3. CASE EmptyHeader
  <2>1. count' \in Counters
    BY <1>0, <1>3, BumpIsCount DEF Counters, EmptyHeader
  <2> QED
    BY <1>3, <2>1 DEF TypeOK, EmptyHeader, engineVars
<1>4. CASE ReadHeader
  <2>1. buffer.hdr \in 1..Len(stream)
    BY <1>4 DEF TypeOK, ReadHeader, Message
  <2>2. stream[buffer.hdr].len \in Nat
    BY <2>1 DEF TypeOK
  <2>3. 8 + 8 * stream[buffer.hdr].len \in Int
    BY <2>2
  <2>4. Bump(Bump(count, "pkts"), "valid") \in Counters
    BY <1>0, BumpIsCount DEF Counters
  <2>5. ASSUME NEW c \in Counters, NEW n \in Int
        PROVE  [c EXCEPT !.bytes = Add(@, n)] \in Counters
    BY <1>0, BumpIsCount DEF Counters
  <2>6. count' \in Counters
    BY <1>4, <2>3, <2>4, <2>5 DEF ReadHeader
  <2>7. header' \in Nat /\ pc' \in {"loop", "send"}
    BY <1>4, <2>1 DEF ReadHeader
  <2> QED
    BY <1>4, <2>6, <2>7 DEF TypeOK, ReadHeader, engineVars
<1>5. CASE Send
  <2>1. header \in 1..Len(stream)
    BY <1>5 DEF Send
  <2>2. stream[header].len - 1 \in Int
    BY <2>1 DEF TypeOK
  <2>3. Bump(count, "adc") \in Counters
    BY <1>0, BumpIsCount DEF Counters
  <2>4. ASSUME NEW c \in Counters, NEW n \in Int
        PROVE  [c EXCEPT !.samples = Add(@, n)] \in Counters
    BY <1>0, BumpIsCount DEF Counters
  <2>5. Bump(count, "avg") \in Counters
    BY <1>0, BumpIsCount DEF Counters
  <2>6. [Bump(count, "adc") EXCEPT !.samples = Add(@, stream[header].len - 1)] \in Counters
    BY <2>2, <2>3, <2>4
  <2>7. count' \in Counters
    BY <1>5, <2>5, <2>6 DEF Send
  <2>8. published' \in Seq(Message)
    BY <1>5 DEF TypeOK, Send, Message
  <2> QED
    BY <1>5, <2>7, <2>8 DEF TypeOK, Send, engineVars
<1> QED
  BY <1>1, <1>2, <1>3, <1>4, <1>5 DEF Thread

LEMMA RestartTypeOK == TypeOK /\ Restart => TypeOK'
<1> SUFFICES ASSUME TypeOK, Restart PROVE TypeOK'
  OBVIOUS
<1>1. count' \in Counters
  BY ZeroesIsCount DEF Restart
<1>2. spent' \in Budget
  BY SpendIsBudget DEF TypeOK, Restart
<1>3. process' \in Process
  BY DEF TypeOK, Restart, Process
<1> QED
  BY <1>1, <1>2, <1>3 DEF TypeOK, Restart, engineVars

----------------------------------------------------------------------------
(* The engine and the buffer. The packet numbers in the buffer are the     *)
(* cookies of the descriptors that wrote it, and a header word that is     *)
(* about to be sent belongs to a packet the stream has yielded.            *)

CookiesOrdered == called <= completed /\ completed <= used
NeverAhead == completed <= Len(stream)
WritesOne == writing => completed < used /\ completed < Len(stream)
BufferIsLast ==
    /\ buffer.body = completed
    /\ buffer.hdr = IF writing THEN completed + 1 ELSE completed
HeaderKnown == pc = "send" => header \in 1..Len(stream)

EngineInv == CookiesOrdered /\ NeverAhead /\ WritesOne /\ BufferIsLast /\ HeaderKnown

LEMMA EngineInvInit == Init => EngineInv
  BY DEF Init, EngineInv, CookiesOrdered, NeverAhead, WritesOne, BufferIsLast, HeaderKnown

LEMMA EngineInvStep == TypeOK /\ EngineInv /\ [Next]_vars => EngineInv'
<1> SUFFICES ASSUME TypeOK, EngineInv, [Next]_vars PROVE EngineInv'
  OBVIOUS
<1> USE DEF EngineInv
<1>0. /\ Len(stream) \in Nat /\ used \in Nat /\ completed \in Nat /\ called \in Nat
      /\ buffer = [hdr |-> buffer.hdr, body |-> buffer.body]
  BY DEF TypeOK, Message
<1>1. CASE Arrive
  <2>1. Len(stream') = Len(stream) + 1
    BY <1>1 DEF TypeOK, Arrive
  <2> QED
    BY <1>0, <1>1, <2>1
       DEF Arrive, CookiesOrdered, NeverAhead, WritesOne, BufferIsLast, HeaderKnown
<1>2. CASE DmaBegin
  BY <1>0, <1>2
     DEF DmaBegin, CookiesOrdered, NeverAhead, WritesOne, BufferIsLast, HeaderKnown
<1>3. CASE DmaEnd
  BY <1>0, <1>3
     DEF DmaEnd, CookiesOrdered, NeverAhead, WritesOne, BufferIsLast, HeaderKnown
<1>4. CASE SyncCallback
  BY <1>0, <1>4
     DEF SyncCallback, CookiesOrdered, NeverAhead, WritesOne, BufferIsLast, HeaderKnown
<1>5. CASE StartTransfer
  <2>1. used' \in {used, used + 1}
    BY <1>5 DEF StartTransfer, PrepFails, SubmitFails, Submitted
  <2> QED
    BY <1>0, <1>5, <2>1 DEF StartTransfer, CookiesOrdered, NeverAhead, WritesOne,
                             BufferIsLast, HeaderKnown
<1>6. CASE ReadHeader
  <2>1. buffer.hdr \in 1..Len(stream)
    BY <1>0, <1>6 DEF ReadHeader, NeverAhead, WritesOne, BufferIsLast
  <2> QED
    BY <1>6, <2>1 DEF ReadHeader, engineVars, CookiesOrdered, NeverAhead, WritesOne,
                      BufferIsLast, HeaderKnown
<1>7. CASE \/ Woken \/ TimesOut \/ CheckCookie
           \/ LoopTop \/ CountFailure \/ EmptyHeader \/ Send \/ Restart \/ UNCHANGED vars
  <2>1. UNCHANGED engineVars
    BY <1>7 DEF engineVars, vars, Woken, TimesOut, CheckCookie, LoopTop, CountFailure,
                EmptyHeader, Send, Restart
  <2>2. pc' # "send" \/ (pc' = pc /\ header' = header)
    BY <1>7 DEF vars, Woken, TimesOut, CheckCookie, LoopTop, CountFailure,
                EmptyHeader, Send, Restart
  <2> QED
    BY <2>1, <2>2 DEF engineVars, CookiesOrdered, NeverAhead, WritesOne, BufferIsLast,
                      HeaderKnown
<1> QED
  BY <1>1, <1>2, <1>3, <1>4, <1>5, <1>6, <1>7 DEF Next, Engine, Ioctl, Thread

\* Every variable keeps its type whatever fails and whenever: no header word ever
\* leads dma_thread to a packet the stream did not yield, and the counters stay words.
THEOREM TypeCorrect == Spec => []TypeOK
<1>1. Init => TypeOK /\ EngineInv
  BY InitTypeOK, EngineInvInit
<1>2. TypeOK /\ EngineInv /\ [Next]_vars => (TypeOK /\ EngineInv)'
  <2> SUFFICES ASSUME TypeOK, EngineInv, [Next]_vars PROVE TypeOK'
    BY EngineInvStep
  <2>1. CASE Engine
    BY <2>1, EngineTypeOK
  <2>2. CASE Ioctl
    BY <2>2, IoctlTypeOK
  <2>3. CASE Thread
    <3>1. buffer.hdr <= Len(stream)
      BY DEF TypeOK, EngineInv, NeverAhead, WritesOne, BufferIsLast
    <3>2. header \in 1..Len(stream) \/ pc # "send"
      BY DEF EngineInv, HeaderKnown
    <3> QED
      BY <2>3, <3>1, <3>2, ThreadTypeOK
  <2>4. CASE Restart
    BY <2>4, RestartTypeOK
  <2>5. CASE UNCHANGED vars
    BY <2>5 DEF TypeOK, vars
  <2> QED
    BY <2>1, <2>2, <2>3, <2>4, <2>5 DEF Next
<1> QED
  BY <1>1, <1>2, PTL DEF Spec

\* Descriptors are issued, completed and called back in order, one at a time, and the
\* buffer holds the packet completed last, its header already the next one's while the
\* engine writes.
THEOREM EngineInvariant == Spec => []EngineInv
<1>1. TypeOK /\ EngineInv /\ [Next]_vars => EngineInv'
  BY EngineInvStep
<1> QED
  BY <1>1, EngineInvInit, TypeCorrect, PTL DEF Spec

----------------------------------------------------------------------------
(* The quiet engine. QuiescentWhenValid is not inductive by itself: it     *)
(* needs that the driver's cookie is the last one submitted, so that a     *)
(* complete cookie means that nothing older is in flight either, whichever *)
(* descriptor's callback ended the wait. A failed submission breaks that:  *)
(* its error code compares as a complete cookie.                           *)

CookieIsNewest == cookie = used
SendsWhatIsThere == pc = "send" => status = "NO_ERROR" /\ header = completed
QuietInv == CookieIsNewest /\ QuiescentWhenValid /\ SendsWhatIsThere

LEMMA QuietInvInit == Init => QuietInv
  BY DEF Init, QuietInv, CookieIsNewest, QuiescentWhenValid, SendsWhatIsThere

LEMMA QuietInvStep ==
  ASSUME MaxSubmitErrors = 0, TypeOK, EngineInv, QuietInv, [Next]_vars
  PROVE  QuietInv'
<1> USE DEF QuietInv
<1>0. /\ used \in Nat /\ completed \in Nat /\ completed <= used
      /\ writing => completed < used
      /\ buffer.hdr = IF writing THEN completed + 1 ELSE completed
  BY DEF TypeOK, EngineInv, CookiesOrdered, WritesOne, BufferIsLast
<1>1. CASE Arrive \/ SyncCallback \/ Woken \/ UNCHANGED vars
  BY <1>1 DEF Arrive, SyncCallback, Woken, engineVars, vars, CookieIsNewest,
              QuiescentWhenValid, SendsWhatIsThere
<1>2. CASE DmaBegin \/ DmaEnd
  <2>1. completed < used
    BY <1>0, <1>2 DEF DmaBegin, DmaEnd
  <2>2. ~(pc \in {"examine", "send"} /\ status = "NO_ERROR")
    BY <1>0, <2>1 DEF QuiescentWhenValid
  <2> QED
    BY <1>2, <2>2 DEF DmaBegin, DmaEnd, CookieIsNewest, QuiescentWhenValid,
                      SendsWhatIsThere
<1>3. CASE StartTransfer
  <2>1. ~SubmitFails
    BY DEF SubmitFails, TypeOK, Budget
  <2>2. cookie' = used'
    BY <1>3, <2>1 DEF StartTransfer, PrepFails, Submitted, CookieIsNewest
  <2> QED
    BY <1>3, <2>2 DEF StartTransfer, CookieIsNewest, QuiescentWhenValid, SendsWhatIsThere
<1>4. CASE CheckCookie
  <2>1. status' = "NO_ERROR" => completed = used /\ ~writing
    BY <1>0, <1>4 DEF CheckCookie, IsTxComplete, CookieIsNewest
  <2> QED
    BY <1>4, <2>1 DEF CheckCookie, engineVars, CookieIsNewest, QuiescentWhenValid,
                      SendsWhatIsThere
<1>5. CASE TimesOut \/ LoopTop \/ CountFailure \/ EmptyHeader \/ Send \/ Restart
  BY <1>5 DEF TimesOut, LoopTop, CountFailure, EmptyHeader, Send, Restart, engineVars,
              CookieIsNewest, QuiescentWhenValid, SendsWhatIsThere
<1>6. CASE ReadHeader
  <2>1. header' = completed
    BY <1>0, <1>6 DEF ReadHeader, QuiescentWhenValid
  <2> QED
    BY <1>6, <2>1 DEF ReadHeader, engineVars, CookieIsNewest, QuiescentWhenValid,
                      SendsWhatIsThere
<1> QED
  BY <1>1, <1>2, <1>3, <1>4, <1>5, <1>6 DEF Next, Engine, Ioctl, Thread

\* While dma_thread examines and sends a packet the engine has nothing in flight,
\* whatever timed out before and whatever could not be prepared.
THEOREM BufferIsQuiet ==
  ASSUME MaxSubmitErrors = 0
  PROVE  Spec => []QuiescentWhenValid
<1>1. TypeOK /\ EngineInv /\ QuietInv /\ [Next]_vars => QuietInv'
  BY QuietInvStep
<1>2. Spec => []QuietInv
  BY <1>1, QuietInvInit, TypeCorrect, EngineInvariant, PTL DEF Spec
<1>3. QuietInv => QuiescentWhenValid
  BY DEF QuietInv
<1> QED
  BY <1>2, <1>3, PTL

----------------------------------------------------------------------------
(* The feed. When every call submits a descriptor, the call being made is  *)
(* for a packet newer than any that was sent.                              *)

SentWhole == \A i \in DOMAIN published : published[i].hdr = published[i].body
SentOlder ==
    \A i \in DOMAIN published :
        IF pc \in {"loop", "start"} THEN published[i].hdr <= used
                                    ELSE published[i].hdr < used
FeedInv == SentWhole /\ SentOlder

LEMMA FeedInvInit == Init => FeedInv
  BY DEF Init, FeedInv, SentWhole, SentOlder

\* The message that Send adds, and the facts that make it a delivery.
LEMMA SendDelivers ==
  ASSUME TypeOK, EngineInv, QuietInv, FeedInv, Send
  PROVE  /\ header = used
         /\ header \in 1..Len(stream)
         /\ published' = Append(published, [hdr |-> header, body |-> header])
         /\ \A i \in DOMAIN published : published[i].hdr < header
<1>1. completed = used /\ header = completed /\ buffer.body = completed
  BY DEF Send, EngineInv, BufferIsLast, QuietInv, SendsWhatIsThere, QuiescentWhenValid
<1>2. header \in 1..Len(stream)
  BY DEF Send, EngineInv, HeaderKnown
<1>3. \A i \in DOMAIN published : published[i].hdr < used
  BY DEF Send, FeedInv, SentOlder
<1> QED
  BY <1>1, <1>2, <1>3 DEF Send

LEMMA FeedInvStep ==
  ASSUME MaxPrepFailures = 0, MaxSubmitErrors = 0,
         TypeOK, EngineInv, QuietInv, FeedInv, [Next]_vars
  PROVE  FeedInv'
<1>0. /\ used \in Nat
      /\ published \in Seq(Message)
      /\ \A i \in DOMAIN published : published[i].hdr \in Nat
  <2>1. used \in Nat /\ published \in Seq(Message)
    BY DEF TypeOK
  <2>2. \A i \in DOMAIN published : published[i] \in Message
    BY <2>1
  <2> QED
    BY <2>1, <2>2 DEF Message
<1>1. CASE StartTransfer
  <2>1. used' = used + 1
    BY <1>1 DEF StartTransfer, PrepFails, SubmitFails, Submitted, TypeOK, Budget
  <2>2. pc = "start" /\ pc' = "wait" /\ published' = published
    BY <1>1 DEF StartTransfer
  <2>3. \A i \in DOMAIN published : published[i].hdr < used'
    BY <1>0, <2>1, <2>2 DEF FeedInv, SentOlder
  <2> QED
    BY <2>2, <2>3 DEF FeedInv, SentWhole, SentOlder
<1>2. CASE Send
  <2> DEFINE m == [hdr |-> header, body |-> header]
  <2>1. /\ header = used
        /\ published' = Append(published, m)
        /\ \A i \in DOMAIN published : published[i].hdr < header
    BY <1>2, SendDelivers
  <2>2. \A i \in DOMAIN published' :
            published'[i] = m \/ (i \in DOMAIN published /\ published'[i] = published[i])
    BY <1>0, <2>1
  <2>3. pc' = "loop" /\ used' = used
    BY <1>2 DEF Send, engineVars
  <2> QED
    BY <1>0, <2>1, <2>2, <2>3 DEF FeedInv, SentWhole, SentOlder
<1>3. CASE ~StartTransfer /\ ~Send
  <2>1. published' = published /\ used' = used
    BY <1>3 DEF Next, Engine, Ioctl, Thread, Arrive, DmaBegin, DmaEnd, SyncCallback,
                Woken, TimesOut, CheckCookie, LoopTop, CountFailure, EmptyHeader,
                ReadHeader, Restart, engineVars, vars
  <2>2. pc \in {"loop", "start"} => pc' \in {"loop", "start"}
    BY <1>3 DEF Next, Engine, Ioctl, Thread, Arrive, DmaBegin, DmaEnd, SyncCallback,
                Woken, TimesOut, CheckCookie, LoopTop, CountFailure, EmptyHeader,
                ReadHeader, Restart, engineVars, vars
  <2> QED
    BY <1>0, <2>1, <2>2 DEF FeedInv, SentWhole, SentOlder
<1> QED
  BY <1>1, <1>2, <1>3

\* Every step of the path is a step of PacketFeed or leaves what it sees alone.
LEMMA StepRefines ==
  ASSUME TypeOK, EngineInv, QuietInv, FeedInv, [Next]_vars
  PROVE  [Feed!Next]_Feed!vars
<1>1. CASE Arrive
  <2>1. Len(stream') = Len(stream) + 1 /\ published' = published
    BY <1>1 DEF TypeOK, Arrive
  <2> QED
    BY <2>1 DEF Feed!Next, Feed!Arrive
<1>2. CASE Send
  <2>1. Len(stream') = Len(stream)
    BY <1>2 DEF Send, engineVars
  <2>2. Feed!Deliver(header)
    BY <1>2, <2>1, SendDelivers DEF Feed!Deliver, Feed!Whole
  <2> QED
    BY <1>2, <2>2, SendDelivers DEF Feed!Next
<1>3. CASE ~Arrive /\ ~Send
  <2>1. stream' = stream /\ published' = published
    BY <1>3 DEF Next, Engine, Ioctl, Thread, DmaBegin, DmaEnd, SyncCallback,
                StartTransfer, Woken, TimesOut, CheckCookie, LoopTop, CountFailure,
                EmptyHeader, ReadHeader, Restart, engineVars, vars
  <2> QED
    BY <2>1 DEF Feed!vars
<1> QED
  BY <1>1, <1>2, <1>3

\* Subscribers get whole packets, in stream order, none twice: time-outs, late
\* callbacks and restarts lose packets but never repeat, reorder or tear one.
THEOREM ImplementsFeed ==
  ASSUME MaxPrepFailures = 0, MaxSubmitErrors = 0
  PROVE  Spec => FeedSpec
<1>1. Init => Feed!Init
  BY DEF Init, Feed!Init
<1>2. TypeOK /\ EngineInv /\ QuietInv /\ [Next]_vars => QuietInv'
  BY QuietInvStep
<1>3. TypeOK /\ EngineInv /\ QuietInv /\ FeedInv /\ [Next]_vars => FeedInv'
  BY FeedInvStep
<1>4. TypeOK /\ EngineInv /\ QuietInv /\ FeedInv /\ [Next]_vars => [Feed!Next]_Feed!vars
  BY StepRefines
<1> QED
  BY <1>1, <1>2, <1>3, <1>4, QuietInvInit, FeedInvInit, TypeCorrect, EngineInvariant, PTL
     DEF Spec, FeedSpec, Feed!Spec

----------------------------------------------------------------------------
(* Errors come from time-outs. As long as no call has timed out, at most   *)
(* the descriptor just submitted is outstanding while a call waits, and    *)
(* none is at any other time, so a wake-up finds its own cookie complete.  *)

CookieIssued == cookie <= used
InStep ==
    spent.timeouts = 0 =>
        /\ status # "ERROR"
        /\ called = used \/ (pc = "wait" /\ called = used - 1 /\ done = 0)
StepInv == CookieIssued /\ InStep

LEMMA StepInvInit == Init => StepInv
  BY DEF Init, StepInv, CookieIssued, InStep

LEMMA StepInvStep ==
  ASSUME TypeOK, EngineInv, StepInv, [Next]_vars
  PROVE  StepInv'
<1> USE DEF StepInv
<1>0. /\ used \in Nat /\ completed \in Nat /\ called \in Nat /\ done \in Nat
      /\ cookie \in Nat \cup {-1} /\ spent \in Budget
      /\ called <= completed /\ completed <= used
  BY DEF TypeOK, EngineInv, CookiesOrdered
<1>1. CASE Arrive \/ DmaBegin \/ DmaEnd \/ LoopTop \/ CountFailure \/ EmptyHeader
           \/ ReadHeader \/ Send \/ UNCHANGED vars
  BY <1>1 DEF Arrive, DmaBegin, DmaEnd, LoopTop, CountFailure, EmptyHeader, ReadHeader,
              Send, engineVars, vars, CookieIssued, InStep
<1>2. CASE SyncCallback
  <2>1. spent.timeouts = 0 => called' = used
    BY <1>0, <1>2 DEF SyncCallback, InStep
  <2> QED
    BY <1>2, <2>1 DEF SyncCallback, CookieIssued, InStep
<1>3. CASE StartTransfer
  <2>1. spent'.timeouts = spent.timeouts
    BY <1>0, <1>3 DEF StartTransfer, PrepFails, SubmitFails, Submitted, Budget
  <2>2. cookie' <= used'
    BY <1>0, <1>3 DEF StartTransfer, PrepFails, SubmitFails, Submitted, CookieIssued
  <2>3. \/ used' = used
        \/ used' = used + 1 /\ done' = 0
    BY <1>3 DEF StartTransfer, PrepFails, SubmitFails, Submitted
  <2>4. spent.timeouts = 0 => called = used
    BY <1>3 DEF StartTransfer, InStep
  <2> QED
    BY <1>0, <1>3, <2>1, <2>2, <2>3, <2>4 DEF StartTransfer, CookieIssued, InStep
<1>4. CASE Woken
  <2>1. spent.timeouts = 0 => called = used
    BY <1>4 DEF Woken, InStep
  <2> QED
    BY <1>4, <2>1 DEF Woken, engineVars, CookieIssued, InStep
<1>5. CASE TimesOut
  <2>1. spent'.timeouts # 0
    BY <1>0, <1>5 DEF TimesOut, Budget
  <2> QED
    BY <1>5, <2>1 DEF TimesOut, engineVars, CookieIssued, InStep
<1>6. CASE CheckCookie
  <2>1. spent.timeouts = 0 => IsTxComplete(cookie)
    BY <1>0, <1>6 DEF CheckCookie, IsTxComplete, CookieIssued, InStep
  <2> QED
    BY <1>6, <2>1 DEF CheckCookie, engineVars, CookieIssued, InStep
<1>7. CASE Restart
  <2>1. spent'.timeouts = spent.timeouts
    BY <1>0, <1>7 DEF Restart, Budget
  <2> QED
    BY <1>7, <2>1 DEF Restart, engineVars, CookieIssued, InStep
<1> QED
  BY <1>1, <1>2, <1>3, <1>4, <1>5, <1>6, <1>7 DEF Next, Engine, Ioctl, Thread

\* Whatever cannot be prepared or submitted and whenever the application is
\* restarted, PROXY_ERROR is only ever reported after some call has timed out.
THEOREM ErrorsNeedATimeout == Spec => []ErrorsFollowTimeouts
<1>1. TypeOK /\ EngineInv /\ StepInv /\ [Next]_vars => StepInv'
  BY StepInvStep
<1>2. TypeOK /\ StepInv => ErrorsFollowTimeouts
  BY DEF TypeOK, StepInv, InStep, ErrorsFollowTimeouts, Budget
<1> QED
  BY <1>1, <1>2, StepInvInit, TypeCorrect, EngineInvariant, PTL DEF Spec

----------------------------------------------------------------------------
(* The losses. A packet moved for this process is settled when it was sent *)
(* or is not of a published kind. What is not settled was given up by a    *)
(* call that counted a failure, or is what the present call submitted: a   *)
(* call that succeeds with a cookie of its own has the newest packet. An   *)
(* error code in the cookie tells that the call submitted nothing.         *)

InCall == pc \in {"wait", "check", "examine", "send"}
Settled(p) == p <= completed /\ (stream[p].id \notin Published \/ Reached(p))
Unsettled == {p \in (process.used + 1)..used : ~Settled(p)}
Current == IF InCall /\ cookie # -1 THEN {used} ELSE {}
Failures == count.errors + count.timeouts

OwnPacket ==
    /\ cookie \in {used, -1}
    /\ pc \in {"examine", "send"} /\ status = "NO_ERROR" /\ cookie # -1
          => completed = used /\ ~writing
    /\ pc = "send" => status = "NO_ERROR" /\ (cookie # -1 => header = completed)
    /\ process.used <= used

FailuresCounted ==
    process.calls < Word =>
        /\ Failures + (IF InCall THEN 1 ELSE 0) <= process.calls
        /\ Cardinality(Unsettled \ Current) <= Failures

LEMMA LossTypes ==
  ASSUME TypeOK, EngineInv
  PROVE  /\ used \in Nat /\ completed \in Nat /\ completed <= used /\ Len(stream) \in Nat
         /\ completed <= Len(stream) /\ (writing => completed < used)
         /\ process.used \in Nat /\ process.calls \in Nat
         /\ count \in Counters /\ count.errors \in 0..(Word - 1)
         /\ count.timeouts \in 0..(Word - 1)
         /\ buffer.body = completed /\ (~writing => buffer.hdr = completed)
<1>1. count.errors \in 0..(Word - 1) /\ count.timeouts \in 0..(Word - 1)
  BY Fields DEF TypeOK, Counters
<1>2. process.used \in Nat /\ process.calls \in Nat
  BY DEF TypeOK, Process
<1> QED
  BY <1>1, <1>2 DEF TypeOK, EngineInv, CookiesOrdered, NeverAhead, WritesOne, BufferIsLast

LEMMA OwnPacketStep ==
  ASSUME TypeOK, EngineInv, OwnPacket, [Next]_vars
  PROVE  OwnPacket'
<1>1. /\ used \in Nat /\ completed \in Nat /\ completed <= used
      /\ (writing => completed < used) /\ process.used \in Nat
  BY LossTypes
<1>2. CASE Arrive \/ SyncCallback \/ Woken \/ TimesOut \/ LoopTop \/ CountFailure
           \/ EmptyHeader \/ Send \/ UNCHANGED vars
  BY <1>2 DEF Arrive, SyncCallback, Woken, TimesOut, LoopTop, CountFailure, EmptyHeader,
              Send, engineVars, vars, OwnPacket
<1>3. CASE DmaBegin \/ DmaEnd
  <2>1. completed < used
    BY <1>1, <1>3 DEF DmaBegin, DmaEnd
  <2>2. ~(pc \in {"examine", "send"} /\ status = "NO_ERROR" /\ cookie # -1)
    BY <1>1, <2>1 DEF OwnPacket
  <2>3. UNCHANGED <<pc, status, cookie, used, process, header>>
    BY <1>3 DEF DmaBegin, DmaEnd
  <2> QED
    BY <2>2, <2>3 DEF OwnPacket
<1>4. CASE StartTransfer
  <2>1. /\ cookie' \in {used', -1} /\ process'.used = process.used
        /\ used' \in {used, used + 1} /\ pc' = "wait"
    BY <1>1, <1>4 DEF StartTransfer, PrepFails, SubmitFails, Submitted, OwnPacket, TypeOK,
                      Process
  <2>2. process.used <= used'
    BY <1>1, <2>1 DEF OwnPacket
  <2> QED
    BY <2>1, <2>2 DEF OwnPacket
<1>5. CASE CheckCookie
  <2>1. /\ pc' = "examine" /\ UNCHANGED <<cookie, used, completed, writing, process>>
        /\ status' = "NO_ERROR" => IsTxComplete(cookie)
    BY <1>5 DEF CheckCookie, engineVars
  <2>2. cookie = used /\ IsTxComplete(cookie) => completed = used /\ ~writing
    BY <1>1 DEF IsTxComplete
  <2> QED
    BY <2>1, <2>2 DEF OwnPacket
<1>6. CASE ReadHeader
  <2>1. /\ pc = "examine" /\ status = "NO_ERROR" /\ header' = buffer.hdr
        /\ UNCHANGED <<engineVars, cookie, status, process>>
    BY <1>6 DEF ReadHeader
  <2>2. cookie # -1 => header' = completed /\ completed = used /\ ~writing
    BY <2>1, LossTypes DEF OwnPacket
  <2> QED
    BY <2>1, <2>2 DEF OwnPacket, engineVars
<1>7. CASE Restart
  BY <1>1, <1>7 DEF Restart, engineVars, OwnPacket
<1> QED
  BY <1>2, <1>3, <1>4, <1>5, <1>6, <1>7 DEF Next, Engine, Ioctl, Thread

\* What was sent stays sent, and the stream keeps what it yielded.
LEMMA SettledStays ==
  ASSUME TypeOK, EngineInv, [Next]_vars, NEW p \in Nat \ {0}, Settled(p)
  PROVE  Settled(p)'
<1>1. /\ published \in Seq(Message) /\ stream \in Seq(Packet) /\ completed \in Nat
      /\ completed <= Len(stream) /\ Len(stream) \in Nat
  BY LossTypes DEF TypeOK
<1>2. published' = published \/ \E m : published' = Append(published, m)
  BY DEF Next, Engine, Ioctl, Thread, Arrive, DmaBegin, DmaEnd, SyncCallback, StartTransfer,
         Woken, TimesOut, CheckCookie, LoopTop, CountFailure, EmptyHeader, ReadHeader, Send,
         Restart, engineVars, vars
<1>3. stream' = stream \/ \E k \in Packet : stream' = Append(stream, k)
  BY DEF Next, Engine, Ioctl, Thread, Arrive, DmaBegin, DmaEnd, SyncCallback, StartTransfer,
         Woken, TimesOut, CheckCookie, LoopTop, CountFailure, EmptyHeader, ReadHeader, Send,
         Restart, engineVars, vars
<1>4. completed' = completed \/ completed' = completed + 1
  BY DEF Next, Engine, Ioctl, Thread, Arrive, DmaBegin, DmaEnd, SyncCallback, StartTransfer,
         Woken, TimesOut, CheckCookie, LoopTop, CountFailure, EmptyHeader, ReadHeader, Send,
         Restart, engineVars, vars
<1>5. \A i \in DOMAIN published : i \in DOMAIN published' /\ published'[i] = published[i]
  BY <1>1, <1>2
<1>6. Reached(p) => Reached(p)'
  BY <1>5 DEF Reached
<1>7. stream'[p] = stream[p]
  <2>1. p \in 1..Len(stream)
    BY <1>1 DEF Settled
  <2> QED
    BY <1>1, <1>3, <2>1
<1>8. p <= completed'
  BY <1>1, <1>4 DEF Settled
<1> QED
  BY <1>6, <1>7, <1>8 DEF Settled

LEMMA SmallWord == \A x \in Nat : x + 1 < Word => Add(x, 1) = x + 1
  BY SMT DEF Add

LEMMA UnsettledFinite ==
  ASSUME TypeOK, EngineInv
  PROVE  /\ IsFiniteSet(Unsettled) /\ IsFiniteSet(Unsettled \ Current)
         /\ Cardinality(Unsettled \ Current) \in Nat
<1>1. IsFiniteSet((process.used + 1)..used)
  <2>1. process.used + 1 \in Int /\ used \in Int
    BY LossTypes
  <2> QED
    BY <2>1, FS_Interval
<1>2. Unsettled \in SUBSET ((process.used + 1)..used)
  BY DEF Unsettled
<1>3. IsFiniteSet(Unsettled)
  BY <1>1, <1>2, FS_Subset
<1>4. IsFiniteSet(Unsettled \ Current)
  BY <1>3, FS_Subset
<1> QED
  BY <1>3, <1>4, FS_CardinalityType

LEMMA AtMostOneMore ==
  ASSUME NEW S, NEW x, IsFiniteSet(S)
  PROVE  /\ IsFiniteSet(S \cup {x}) /\ Cardinality(S) \in Nat
         /\ Cardinality(S \cup {x}) \in Nat
         /\ Cardinality(S \cup {x}) <= Cardinality(S) + 1
<1>1. IsFiniteSet(S \cup {x}) /\ Cardinality(S) \in Nat /\ Cardinality(S \cup {x}) \in Nat
  BY FS_AddElement, FS_CardinalityType
<1>2. Cardinality(S \cup {x}) = IF x \in S THEN Cardinality(S) ELSE Cardinality(S) + 1
  BY FS_AddElement
<1> QED
  BY <1>1, <1>2

\* Counting anything else leaves the failures alone.
LEMMA OtherCounts ==
  ASSUME NEW c \in [DOMAIN Zeroes -> Int],
         NEW field \in {"pkts", "bytes", "valid", "samples", "status", "adc", "avg"},
         NEW n \in Int
  PROVE  /\ [c EXCEPT ![field] = n] \in [DOMAIN Zeroes -> Int]
         /\ [c EXCEPT ![field] = n].errors = c.errors
         /\ [c EXCEPT ![field] = n].timeouts = c.timeouts
BY Fields

LEMMA AddIsInt == \A x, n \in Int : Add(x, n) \in Int
<1>1. \A v \in 0..(Word - 1) : v \in Int
  OBVIOUS
<1> QED
  BY <1>1, AddIsWord

LEMMA OtherBumps ==
  ASSUME NEW c \in [DOMAIN Zeroes -> Int],
         NEW field \in {"pkts", "bytes", "valid", "samples", "status", "adc", "avg"}
  PROVE  /\ Bump(c, field) \in [DOMAIN Zeroes -> Int]
         /\ Bump(c, field).errors = c.errors /\ Bump(c, field).timeouts = c.timeouts
<1>1. c[field] \in Int
  BY Fields
<1>2. 1 \in Int
  OBVIOUS
<1>3. Add(c[field], 1) \in Int
  BY Zenon, <1>1, <1>2, AddIsInt
<1> QED
  BY <1>3, OtherCounts DEF Bump

LEMMA SuccessCounts ==
  ASSUME TypeOK, EngineInv, EmptyHeader \/ ReadHeader \/ Send
  PROVE  count'.errors = count.errors /\ count'.timeouts = count.timeouts
<1>1. count \in [DOMAIN Zeroes -> Int]
  BY DEF TypeOK, Counters
<1>2. \A x, n \in Int : Add(x, n) \in Int
  BY AddIsInt
<1>3. \A k \in Packet : k.len \in Int
  OBVIOUS
<1>4. CASE EmptyHeader
  BY <1>1, <1>4, OtherBumps DEF EmptyHeader
<1>5. CASE ReadHeader
  <2> DEFINE c == Bump(Bump(count, "pkts"), "valid")
             n == Add(c["bytes"], 8 + 8 * stream[buffer.hdr].len)
  <2>1. c \in [DOMAIN Zeroes -> Int] /\ c.errors = count.errors /\ c.timeouts = count.timeouts
    BY <1>1, OtherBumps
  <2>2. n \in Int
    <3>1. stream[buffer.hdr] \in Packet
      BY <1>5 DEF ReadHeader, TypeOK, EngineInv, NeverAhead, WritesOne, BufferIsLast
    <3>2. 8 + 8 * stream[buffer.hdr].len \in Int
      BY <1>3, <3>1
    <3>3. c["bytes"] \in Int
      <4> HIDE DEF c
      <4> QED
        BY <2>1, Fields
    <3> HIDE DEF c
    <3> QED
      BY <1>2, <3>2, <3>3
  <2>3. count' = [c EXCEPT !["bytes"] = n]
    BY <1>5 DEF ReadHeader
  <2> HIDE DEF c, n
  <2> QED
    BY <2>1, <2>2, <2>3, OtherCounts
<1>6. CASE Send
  <2>1. stream[header] \in Packet
    BY <1>6 DEF Send, TypeOK, EngineInv, HeaderKnown
  <2> DEFINE c == Bump(count, "adc")
             n == Add(c["samples"], stream[header].len - 1)
  <2>2. c \in [DOMAIN Zeroes -> Int] /\ c.errors = count.errors /\ c.timeouts = count.timeouts
    BY <1>1, OtherBumps
  <2>3. n \in Int
    <3>1. stream[header].len - 1 \in Int
      BY <1>3, <2>1
    <3>2. c["samples"] \in Int
      <4> HIDE DEF c
      <4> QED
        BY <2>2, Fields
    <3> HIDE DEF c
    <3> QED
      BY <1>2, <3>1, <3>2
  <2>4. count' = Bump(count, "avg") \/ count' = [c EXCEPT !["samples"] = n]
    BY <1>6 DEF Send
  <2>5. Bump(count, "avg").errors = count.errors /\ Bump(count, "avg").timeouts = count.timeouts
    BY <1>1, OtherBumps
  <2> HIDE DEF c, n
  <2>6. /\ [c EXCEPT !["samples"] = n].errors = c.errors
        /\ [c EXCEPT !["samples"] = n].timeouts = c.timeouts
    BY <2>2, <2>3, OtherCounts
  <2> QED
    BY Zenon, <2>2, <2>4, <2>5, <2>6
<1> QED
  BY <1>4, <1>5, <1>6

\* A step of the same call, or its end, that leaves no packet behind.
LEMMA NoneMore ==
  ASSUME TypeOK, EngineInv, FailuresCounted,
         process' = process, Failures' = Failures, InCall' => InCall,
         (Unsettled \ Current)' \subseteq Unsettled \ Current
  PROVE  FailuresCounted'
<1> SUFFICES ASSUME process.calls < Word
             PROVE  /\ Failures' + (IF InCall' THEN 1 ELSE 0) <= process.calls
                    /\ Cardinality((Unsettled \ Current)') <= Failures'
  BY DEF FailuresCounted
<1>1. /\ Failures + (IF InCall THEN 1 ELSE 0) <= process.calls
      /\ Cardinality(Unsettled \ Current) <= Failures
  BY DEF FailuresCounted
<1>2. Failures \in Nat /\ process.calls \in Nat
  BY LossTypes DEF Failures
<1>3. /\ Cardinality((Unsettled \ Current)') <= Cardinality(Unsettled \ Current)
      /\ Cardinality((Unsettled \ Current)') \in Nat
  BY UnsettledFinite, FS_Subset, FS_CardinalityType
<1>4. Failures + (IF InCall' THEN 1 ELSE 0) <= process.calls
  BY <1>1, <1>2
<1> QED
  BY <1>1, <1>2, <1>3, <1>4, UnsettledFinite

\* While nothing is submitted no packet becomes unsettled.
LEMMA UnsettledShrinks ==
  ASSUME TypeOK, EngineInv, [Next]_vars, used' = used, process' = process
  PROVE  Unsettled' \subseteq Unsettled
<1>1. used \in Nat /\ process.used \in Nat
  BY LossTypes
<1>2. ASSUME NEW p \in Unsettled' PROVE p \in Unsettled
  <2>1. p \in (process.used + 1)..used /\ ~Settled(p)'
    BY <1>2 DEF Unsettled
  <2>2. p \in Nat \ {0}
    BY <1>1, <2>1
  <2>3. ~Settled(p)
    BY <2>1, <2>2, SettledStays
  <2> QED
    BY <2>1, <2>3 DEF Unsettled
<1> QED
  BY <1>2

\* A call that succeeds and submitted a descriptor ends with its packet settled.
LEMMA SuccessSettles ==
  ASSUME TypeOK, EngineInv, OwnPacket, [Next]_vars,
         EmptyHeader \/ (ReadHeader /\ pc' = "loop") \/ Send,
         cookie # -1, used > process.used
  PROVE  Settled(used)'
<1>1. /\ used \in Nat /\ process.used \in Nat /\ used \in Nat \ {0}
      /\ published \in Seq(Message)
  BY LossTypes DEF TypeOK
<1>2. completed = used /\ ~writing
  BY DEF OwnPacket, EmptyHeader, ReadHeader, Send
<1>3. buffer.hdr = used /\ buffer.body = used
  BY <1>2, LossTypes
<1>4. stream' = stream /\ completed' = completed /\ used' = used
  BY DEF EmptyHeader, ReadHeader, Send, engineVars
<1>5. CASE EmptyHeader
  BY <1>1, <1>3, <1>5 DEF EmptyHeader
<1>6. CASE ReadHeader /\ pc' = "loop"
  <2>1. stream[used].id \notin Published
    BY <1>3, <1>6 DEF ReadHeader
  <2> QED
    BY <1>1, <1>2, <1>4, <2>1 DEF Settled
<1>7. CASE Send
  <2>1. header = used
    BY <1>2, <1>7 DEF Send, OwnPacket
  <2>2. published' = Append(published, [hdr |-> used, body |-> used])
    BY <1>3, <1>7, <2>1 DEF Send
  <2>3. /\ Len(published) + 1 \in DOMAIN published'
        /\ published'[Len(published) + 1] = [hdr |-> used, body |-> used]
    BY <1>1, <2>2
  <2>4. \E i \in DOMAIN published' : published'[i] = [hdr |-> used', body |-> used']
    BY <1>4, <2>3
  <2> QED
    BY <1>1, <1>2, <1>4, <2>4 DEF Settled, Reached
<1> QED
  BY <1>5, <1>6, <1>7

LEMMA FailuresCountedStep ==
  ASSUME TypeOK, EngineInv, OwnPacket, FailuresCounted, [Next]_vars
  PROVE  FailuresCounted'
<1>1. /\ used \in Nat /\ process.used \in Nat /\ process.calls \in Nat
      /\ count \in Counters /\ count.errors \in 0..(Word - 1)
      /\ count.timeouts \in 0..(Word - 1) /\ Failures \in Nat
  BY LossTypes DEF Failures
<1>2. CASE Engine \/ Woken \/ TimesOut \/ CheckCookie \/ UNCHANGED vars
  <2>1. /\ used' = used /\ process' = process /\ cookie' = cookie /\ count' = count
        /\ InCall' = InCall
    BY <1>2 DEF Engine, Arrive, DmaBegin, DmaEnd, SyncCallback, Woken, TimesOut, CheckCookie,
                engineVars, vars, InCall
  <2>2. Current' = Current /\ Failures' = Failures
    BY <2>1 DEF Current, Failures
  <2>3. Unsettled' \subseteq Unsettled
    BY <2>1, UnsettledShrinks
  <2> QED
    BY <2>1, <2>2, <2>3, NoneMore
<1>3. CASE LoopTop
  <2>1. /\ used' = used /\ process' = process /\ ~InCall /\ ~InCall'
        /\ count' \in {count, Bump(count, "status")}
    BY <1>3 DEF LoopTop, engineVars, InCall
  <2>2. Failures' = Failures
    <3>1. count \in [DOMAIN Zeroes -> Int]
      BY <1>1 DEF Counters
    <3> QED
      BY <2>1, <3>1, OtherBumps DEF Failures
  <2>3. Current' = {} /\ Current = {}
    BY <2>1 DEF Current
  <2>4. Unsettled' \subseteq Unsettled
    BY <2>1, UnsettledShrinks
  <2> QED
    BY <2>1, <2>2, <2>3, <2>4, NoneMore
<1>4. CASE EmptyHeader \/ ReadHeader \/ Send
  <2>1. /\ used' = used /\ process' = process /\ cookie' = cookie /\ InCall
        /\ (InCall' <=> pc' # "loop")
    BY <1>4 DEF EmptyHeader, ReadHeader, Send, engineVars, InCall
  <2>2. Failures' = Failures
    BY <1>4, SuccessCounts DEF Failures
  <2>3. Unsettled' \subseteq Unsettled
    BY <2>1, UnsettledShrinks
  <2>4. (Unsettled \ Current)' \subseteq Unsettled \ Current
    <3>1. CASE InCall' \/ cookie = -1
      <4>1. Current' = Current
        BY <2>1, <3>1 DEF Current
      <4> QED
        BY <2>3, <4>1
    <3>2. CASE ~InCall' /\ cookie # -1
      <4>1. Current = {used}
        BY <2>1, <3>2 DEF Current
      <4>2. used > process.used => Settled(used)'
        BY <1>4, <2>1, <3>2, SuccessSettles DEF EmptyHeader, Send
      <4>3. used \notin Unsettled'
        BY <1>1, <2>1, <4>2 DEF Unsettled
      <4> QED
        BY <2>3, <4>1, <4>3
    <3> QED
      BY <3>1, <3>2
  <2> QED
    BY <2>1, <2>2, <2>4, NoneMore
<1>5. CASE CountFailure
  <2> SUFFICES ASSUME process'.calls < Word
               PROVE  /\ Failures' + (IF InCall' THEN 1 ELSE 0) <= process'.calls
                      /\ Cardinality((Unsettled \ Current)') <= Failures'
    BY DEF FailuresCounted
  <2>1. /\ used' = used /\ process' = process /\ InCall /\ ~InCall'
        /\ \/ count' = Bump(count, "timeouts")
           \/ count' = Bump(count, "errors")
    BY <1>5 DEF CountFailure, engineVars, InCall
  <2>2. Failures + 1 <= process.calls /\ Cardinality(Unsettled \ Current) <= Failures
    BY <2>1 DEF FailuresCounted
  <2>3. count.errors + 1 < Word /\ count.timeouts + 1 < Word
    BY <1>1, <2>1, <2>2 DEF Failures
  <2>4. Failures' = Failures + 1
    <3>1. Add(count.errors, 1) = count.errors + 1 /\ Add(count.timeouts, 1) = count.timeouts + 1
      BY <1>1, <2>3, SmallWord
    <3>2. \/ count'.timeouts = Add(count.timeouts, 1) /\ count'.errors = count.errors
          \/ count'.errors = Add(count.errors, 1) /\ count'.timeouts = count.timeouts
      BY <1>1, <2>1, Fields DEF Bump, Counters
    <3> QED
      BY <1>1, <3>1, <3>2 DEF Failures
  <2>5. Unsettled' \subseteq Unsettled /\ Current' = {}
    BY <2>1, UnsettledShrinks DEF Current
  <2>6. /\ IsFiniteSet((Unsettled \ Current) \cup {used})
        /\ Cardinality((Unsettled \ Current) \cup {used}) <= Cardinality(Unsettled \ Current) + 1
    BY UnsettledFinite, AtMostOneMore
  <2>7. (Unsettled \ Current)' \subseteq (Unsettled \ Current) \cup {used}
    BY <2>5 DEF Current
  <2>8. /\ Cardinality((Unsettled \ Current)') <= Cardinality((Unsettled \ Current) \cup {used})
        /\ Cardinality((Unsettled \ Current)') \in Nat
        /\ Cardinality((Unsettled \ Current) \cup {used}) \in Nat
    BY <2>6, <2>7, FS_Subset, FS_CardinalityType
  <2> QED
    BY <1>1, <2>1, <2>2, <2>4, <2>6, <2>8, UnsettledFinite
<1>6. CASE StartTransfer
  <2> SUFFICES ASSUME process'.calls < Word
               PROVE  /\ Failures' + (IF InCall' THEN 1 ELSE 0) <= process'.calls
                      /\ Cardinality((Unsettled \ Current)') <= Failures'
    BY DEF FailuresCounted
  <2>1. /\ process'.calls = process.calls + 1 /\ process'.used = process.used
        /\ count' = count /\ ~InCall /\ InCall' /\ completed' = completed
        /\ stream' = stream /\ published' = published
    BY <1>6 DEF StartTransfer, InCall, TypeOK, Process
  <2>2. /\ process.calls < Word /\ Failures <= process.calls
        /\ Cardinality(Unsettled \ Current) <= Failures
    BY <1>1, <2>1 DEF FailuresCounted
  <2>3. Failures' = Failures /\ Current = {}
    BY <2>1 DEF Failures, Current
  <2>4. \A p : Settled(p)' = Settled(p)
    BY <2>1 DEF Settled, Reached
  <2>5. (Unsettled \ Current)' \subseteq Unsettled \ Current
    <3>1. CASE used' = used
      <4>1. Unsettled' = Unsettled
        BY <2>1, <2>4, <3>1 DEF Unsettled
      <4> QED
        BY <2>3, <4>1
    <3>2. CASE used' = used + 1 /\ cookie' = used + 1
      <4>1. Current' = {used + 1}
        BY <1>1, <2>1, <3>2 DEF Current
      <4>2. ASSUME NEW p \in Unsettled', p # used + 1 PROVE p \in Unsettled
        <5>1. p \in (process.used + 1)..(used + 1) /\ ~Settled(p)
          BY <2>1, <2>4, <3>2, <4>2 DEF Unsettled
        <5>2. p \in (process.used + 1)..used
          BY <1>1, <4>2, <5>1
        <5> QED
          BY <5>1, <5>2 DEF Unsettled
      <4> QED
        BY <2>3, <4>1, <4>2
    <3> QED
      BY <1>6, <3>1, <3>2 DEF StartTransfer, PrepFails, SubmitFails, Submitted
  <2>6. /\ Cardinality((Unsettled \ Current)') <= Cardinality(Unsettled \ Current)
        /\ Cardinality((Unsettled \ Current)') \in Nat
    BY <2>5, UnsettledFinite, FS_Subset, FS_CardinalityType
  <2> QED
    BY <1>1, <2>1, <2>2, <2>3, <2>6, UnsettledFinite
<1>7. CASE Restart
  <2>1. /\ process'.used = used /\ process'.calls = 0 /\ used' = used
        /\ count'.errors = 0 /\ count'.timeouts = 0 /\ ~InCall'
    BY <1>7 DEF Restart, engineVars, Zeroes, InCall
  <2>2. (used + 1)..used = {}
    BY <1>1
  <2>3. Unsettled' = {}
    BY <2>1, <2>2 DEF Unsettled
  <2>4. (Unsettled \ Current)' = {}
    BY <2>3
  <2>5. Cardinality((Unsettled \ Current)') = 0
    BY Zenon, <2>4, FS_EmptySet
  <2>6. Failures' = 0
    BY <2>1 DEF Failures
  <2> QED
    BY <2>1, <2>5, <2>6 DEF FailuresCounted
<1> QED
  BY <1>2, <1>3, <1>4, <1>5, <1>6, <1>7 DEF Next, Ioctl, Thread

\* No loss is silent: what a process moved and did not send is counted among its errors
\* and time-outs, whatever fails and however often the thread gets out of step with the
\* engine, as long as it has not made as many calls as a counter can count.
THEOREM LossesAreCounted == Spec => []LossAccounted
<1>1. Init => OwnPacket /\ FailuresCounted
  <2> SUFFICES ASSUME Init PROVE OwnPacket /\ FailuresCounted
    OBVIOUS
  <2>1. OwnPacket
    BY DEF Init, OwnPacket
  <2>2. Unsettled = {} /\ Failures = 0 /\ ~InCall /\ process.calls = 0
    BY DEF Init, Unsettled, Failures, Zeroes, InCall
  <2>3. Unsettled \ Current = {}
    BY <2>2
  <2> QED
    BY <2>1, <2>2, <2>3, FS_EmptySet DEF FailuresCounted
<1>2. TypeOK /\ EngineInv /\ OwnPacket /\ FailuresCounted /\ [Next]_vars
        => (OwnPacket /\ FailuresCounted)'
  BY OwnPacketStep, FailuresCountedStep
<1>3. TypeOK /\ EngineInv /\ FailuresCounted => LossAccounted
  <2> SUFFICES ASSUME TypeOK, EngineInv, FailuresCounted, pc = "loop", process.calls < Word
               PROVE  Cardinality(Lost) <= count.errors + count.timeouts
    BY DEF LossAccounted
  <2>1. Current = {} /\ Cardinality(Unsettled) <= Failures
    <3>1. Current = {}
      BY DEF Current, InCall
    <3>2. Unsettled \ Current = Unsettled
      BY <3>1
    <3> QED
      BY <3>1, <3>2 DEF FailuresCounted
  <2>2. Lost \subseteq Unsettled
    BY LossTypes DEF Lost, Unsettled, Settled
  <2>3. Cardinality(Lost) <= Cardinality(Unsettled) /\ Cardinality(Lost) \in Nat
        /\ Cardinality(Unsettled) \in Nat
    BY <2>2, UnsettledFinite, FS_Subset, FS_CardinalityType
  <2>4. Failures \in Nat
    BY LossTypes DEF Failures
  <2> QED
    BY <2>1, <2>3, <2>4 DEF Failures
<1> QED
  BY <1>1, <1>2, <1>3, TypeCorrect, EngineInvariant, PTL DEF Spec

(***************************************************************************)
(* The counters a subscriber sees and what was sent to it. They are taken  *)
(* modulo Word at every step and the count itself once: both agree. The    *)
(* samples are summed up over the messages, so that two sums over the same *)
(* messages must be shown to agree; the prover has no induction, and the   *)
(* least message at which they differ takes its place.                     *)
(***************************************************************************)

LEMMA OneIsInt == 1 \in Int
  OBVIOUS

LEMMA Division ==
  \A x \in Int, w \in Nat \ {0} :
      /\ x \div w \in Int /\ x % w \in 0..(w - 1)
      /\ x = (w * (x \div w)) + (x % w)
  BY SMT

LEMMA Multiples ==
  ASSUME NEW w \in Nat \ {0}, NEW q \in Int
  PROVE  /\ q >= 1 => w * q >= w
         /\ q <= -1 => w * q <= -w
  BY SMT

LEMMA Distributes ==
  ASSUME NEW w \in Int, NEW a \in Int, NEW b \in Int
  PROVE  w * (a - b) = w * a - w * b /\ w * (a + b) = w * a + w * b
  BY SMT

LEMMA RemainderIs ==
  ASSUME NEW w \in Nat \ {0}, NEW q \in Int, NEW r \in 0..(w - 1)
  PROVE  (w * q + r) % w = r
<1>1. PICK z \in Int : z = w * q + r
  OBVIOUS
<1>2. PICK p \in Int, s \in 0..(w - 1) : z = w * p + s /\ s = z % w
  BY Division
<1>3. PICK a \in Int, b \in Int : a = w * q /\ b = w * p
  OBVIOUS
<1>4. PICK d \in Int : d = q - p
  OBVIOUS
<1>5. w * d = a - b
  BY <1>3, <1>4, Distributes
<1>6. a - b = s - r
  <2>1. z = a + r /\ z = b + s
    BY <1>1, <1>2, <1>3
  <2>2. r \in Int /\ s \in Int
    OBVIOUS
  <2> QED
    BY <2>1, <2>2
<1>7. d >= 1 => w * d >= w
  BY Multiples
<1>8. d <= -1 => w * d <= -w
  BY Multiples
<1>9. PICK c \in Int : c = w * d /\ c = s - r
  BY <1>5, <1>6
<1>10. d = 0
  BY <1>7, <1>8, <1>9
<1>11. c = 0
  BY <1>9, <1>10
<1>12. s = r
  BY <1>9, <1>11
<1> QED
  BY <1>1, <1>2, <1>12

\* A remainder may be taken before an addition as well as after it.
LEMMA AddsUp ==
  ASSUME NEW x \in Int, NEW n \in Int
  PROVE  Add(x % Word, n) = (x + n) % Word
<1>0. Word \in Nat \ {0}
  BY BoundsAssumption DEF BoundsAssumption
<1>1. PICK q \in Int, r \in 0..(Word - 1) : x = Word * q + r /\ r = x % Word
  BY <1>0, Division
<1>2. PICK z \in Int : z = r + n
  BY <1>0
<1>3. PICK p \in Int, s \in 0..(Word - 1) : z = Word * p + s /\ s = z % Word
  BY <1>0, Division
<1>4. PICK a \in Int, b \in Int : a = Word * q /\ b = Word * p
  BY <1>0
<1>5. x + n = Word * (q + p) + s
  <2>1. Word * (q + p) = a + b
    BY <1>0, <1>4, Distributes
  <2>2. x = a + r /\ r + n = b + s
    BY <1>1, <1>2, <1>3, <1>4
  <2>3. x + n = (a + b) + s
    BY <1>4, <2>2
  <2> QED
    BY <2>1, <2>3
<1>6. (Word * (q + p) + s) % Word = s
  BY <1>0, RemainderIs
<1> QED
  BY <1>1, <1>2, <1>3, <1>5, <1>6 DEF Add

Less == {p \in Nat \X Nat : p[1] < p[2]}

\* Every set of naturals has a least element.
LEMMA LeastIn ==
  ASSUME NEW S \in SUBSET Nat, S # {}
  PROVE  \E x \in S : \A y \in S : x <= y
<1>1. IsWellFoundedOn(Less, Nat)
  <2>1. Less = OpToRel(<, Nat)
    BY DEF Less, OpToRel
  <2> QED
    BY <2>1, NatLessThanWellFounded
<1>2. \E x \in S : \A y \in S : <<y, x>> \notin Less
  BY <1>1, WFMin
<1>3. PICK x \in S : \A y \in S : <<y, x>> \notin Less
  BY <1>2
<1>4. \A i, j \in Nat : <<i, j>> \in Less <=> i < j
  BY DEF Less
<1>5. ASSUME NEW y \in S PROVE x <= y
  <2>1. x \in Nat /\ y \in Nat /\ ~(y < x)
    BY <1>3, <1>4
  <2> QED
    BY <2>1
<1> QED
  BY <1>5

\* f sums up the terms d after the first k.
IsSum(f, n, k, d) == \A i \in 0..n : f[i] = IF i <= k THEN 0 ELSE f[i - 1] + d[i]

\* There is such a sum, however long.
LEMMA SumExists ==
  ASSUME NEW n \in Nat, NEW k \in Nat, NEW d \in [1..n -> Int]
  PROVE  \E f \in [0..n -> Int] : IsSum(f, n, k, d)
<1> DEFINE Has(m) == \E f \in [0..m -> Int] : IsSum(f, m, k, d)
           Bad == {m \in 0..n : ~Has(m)}
<1>1. SUFFICES ASSUME Bad # {} PROVE FALSE
  <2>1. n \in 0..n
    OBVIOUS
  <2>2. Has(n) => \E f \in [0..n -> Int] : IsSum(f, n, k, d)
    OBVIOUS
  <2> HIDE DEF Has
  <2>3. Bad = {} => Has(n)
    BY <2>1
  <2> QED
    BY <2>2, <2>3
<1>2. PICK m \in Bad : \A y \in Bad : m <= y
  <2>1. Bad \in SUBSET Nat
    OBVIOUS
  <2> HIDE DEF Bad
  <2> QED
    BY <1>1, <2>1, LeastIn
<1>3. m \in 0..n /\ ~Has(m)
  OBVIOUS
<1>4. m # 0
  <2> SUFFICES ASSUME m = 0 PROVE Has(m)
    BY <1>3
  <2> DEFINE f == [i \in 0..0 |-> 0]
  <2>1. f \in [0..0 -> Int] /\ IsSum(f, 0, k, d)
    BY DEF IsSum
  <2> QED
    BY <2>1
<1>5. Has(m - 1)
  <2> HIDE DEF Has
  <2>1. m - 1 \in 0..n /\ ~(m <= m - 1)
    BY <1>3, <1>4
  <2>2. m - 1 \notin Bad
    <3> HIDE DEF Bad
    <3> QED
      BY <1>2, <2>1
  <2> QED
    BY <2>1, <2>2
<1>6. PICK g \in [0..(m - 1) -> Int] : IsSum(g, m - 1, k, d)
  BY <1>5
<1> DEFINE f == [i \in 0..m |-> IF i < m THEN g[i] ELSE IF m <= k THEN 0 ELSE g[m - 1] + d[m]]
<1>7. f \in [0..m -> Int]
  BY <1>3, <1>4
<1>8. \A i \in 0..m : f[i] = IF i <= k THEN 0 ELSE f[i - 1] + d[i]
  <2> SUFFICES ASSUME NEW i \in 0..m PROVE f[i] = IF i <= k THEN 0 ELSE f[i - 1] + d[i]
    OBVIOUS
  <2>1. CASE i < m
    <3>1. f[i] = g[i] /\ g[i] = IF i <= k THEN 0 ELSE g[i - 1] + d[i]
      BY <1>3, <1>6, <2>1 DEF IsSum
    <3>2. i > k => f[i - 1] = g[i - 1]
      BY <1>3, <2>1
    <3> QED
      BY <3>1, <3>2
  <2>2. CASE i = m
    BY <1>3, <1>4, <2>2
  <2> QED
    BY <1>3, <2>1, <2>2
<1>9. IsSum(f, m, k, d)
  BY <1>8 DEF IsSum
<1>10. Has(m)
  <2> HIDE DEF f
  <2> QED
    BY <1>7, <1>9
<1> QED
  BY <1>3, <1>10

\* Two sums agree as far as their terms do.
LEMMA SumsAgree ==
  ASSUME NEW n \in Nat, NEW k \in Nat, NEW f, NEW g, NEW d, NEW e,
         IsSum(f, n, k, d), IsSum(g, n, k, e), \A i \in 1..n : d[i] = e[i]
  PROVE  \A i \in 0..n : f[i] = g[i]
<1> DEFINE Bad == {i \in 0..n : f[i] # g[i]}
<1>1. SUFFICES ASSUME Bad # {} PROVE FALSE
  OBVIOUS
<1>2. PICK m \in Bad : \A y \in Bad : m <= y
  <2>1. Bad \in SUBSET Nat
    OBVIOUS
  <2> HIDE DEF Bad
  <2> QED
    BY <1>1, <2>1, LeastIn
<1>3. m \in 0..n /\ f[m] # g[m] /\ ~(m <= k)
  <2>1. m \in 0..n /\ f[m] # g[m]
    OBVIOUS
  <2> QED
    BY <2>1 DEF IsSum
<1>4. m - 1 \in 0..n /\ m - 1 \notin Bad /\ m \in 1..n
  BY <1>2, <1>3
<1>5. f[m - 1] = g[m - 1] /\ d[m] = e[m]
  BY <1>4
<1>6. /\ f[m] = IF m <= k THEN 0 ELSE f[m - 1] + d[m]
      /\ g[m] = IF m <= k THEN 0 ELSE g[m - 1] + e[m]
  BY <1>3 DEF IsSum
<1> QED
  BY <1>3, <1>5, <1>6

Terms == [i \in 1..Len(published) |-> SamplesIn(i)]

\* The messages sent are of packets the stream has yielded, and the running process sent
\* the last of them.
SentKnown ==
    /\ \A i \in 1..Len(published) : published[i].hdr \in 1..Len(stream)
    /\ process.sent <= Len(published)

LEMMA TermsTyped ==
  ASSUME TypeOK, SentKnown
  PROVE  Terms \in [1..Len(published) -> Int]
<1> SUFFICES ASSUME NEW i \in 1..Len(published) PROVE SamplesIn(i) \in Int
  BY DEF Terms
<1>1. stream[published[i].hdr] \in Packet
  BY DEF TypeOK, SentKnown
<1> QED
  BY <1>1, PacketAssumption DEF PacketAssumption, SamplesIn

\* What SamplesSent computes.
SumHolds ==
    \E f \in [0..Len(published) -> Int] :
        /\ IsSum(f, Len(published), process.sent, Terms)
        /\ SamplesSent = f[Len(published)]

LEMMA SumIs == TypeOK /\ SentKnown => SumHolds
<1> SUFFICES ASSUME TypeOK, SentKnown PROVE SumHolds
  OBVIOUS
<1>1. Len(published) \in Nat /\ process.sent \in Nat
  BY DEF TypeOK, Process
<1> DEFINE n == Len(published)
           k == process.sent
           Sums(f) == f = [i \in 0..n |-> IF i <= k THEN 0 ELSE f[i - 1] + SamplesIn(i)]
           chosen == CHOOSE f : Sums(f)
<1>2. PICK f \in [0..n -> Int] : IsSum(f, n, k, Terms)
  BY <1>1, TermsTyped, SumExists
<1>3. \A i \in 0..n : i > k => Terms[i] = SamplesIn(i)
  BY <1>1 DEF Terms
<1>4. Sums(f)
  BY <1>1, <1>2, <1>3 DEF IsSum
<1>5. Sums(chosen)
  BY <1>4
<1>6. SamplesSent = chosen[n]
  BY DEF SamplesSent
<1>7. IsSum(chosen, n, k, Terms)
  BY <1>1, <1>3, <1>5 DEF IsSum
<1>8. n \in Nat /\ k \in Nat
  BY <1>1
<1> HIDE DEF n, k, chosen, Sums
<1>9. PICK g : g = chosen
  OBVIOUS
<1>10. PICK d : d = Terms
  OBVIOUS
<1>11. IsSum(f, n, k, d) /\ IsSum(g, n, k, d) /\ \A i \in 1..n : d[i] = d[i]
  BY <1>2, <1>7, <1>9, <1>10
<1>12. \A i \in 0..n : f[i] = g[i]
  BY <1>8, <1>11, SumsAgree
<1>13. SamplesSent = f[n]
  BY <1>6, <1>8, <1>9, <1>12
<1> QED
  BY <1>2, <1>13 DEF SumHolds, n, k

\* What is sent is of a published kind.
HeaderSent == pc = "send" => stream[header].id \in Published
TallyInv == SentKnown /\ HeaderSent /\ TallyMatches

\* The counters of the tally.
Tallied == {"adc", "avg", "samples"}

LEMMA OneField ==
  ASSUME NEW c \in [DOMAIN Zeroes -> Int], NEW field \in DOMAIN Zeroes, NEW n \in Int
  PROVE  /\ [c EXCEPT ![field] = Add(@, n)] \in [DOMAIN Zeroes -> Int]
         /\ [c EXCEPT ![field] = Add(@, n)][field] = Add(c[field], n)
         /\ \A other \in DOMAIN Zeroes \ {field} :
               [c EXCEPT ![field] = Add(@, n)][other] = c[other]
<1>1. c[field] \in Int /\ Add(c[field], n) \in Int
  BY AddIsInt
<1> QED
  BY <1>1

LEMMA OneBump ==
  ASSUME NEW c \in [DOMAIN Zeroes -> Int], NEW field \in DOMAIN Zeroes
  PROVE  /\ Bump(c, field) \in [DOMAIN Zeroes -> Int]
         /\ Bump(c, field)[field] = Add(c[field], 1)
         /\ \A other \in DOMAIN Zeroes \ {field} : Bump(c, field)[other] = c[other]
<1>1. 1 \in Int
  OBVIOUS
<1> QED
  BY <1>1, OneField DEF Bump

LEMMA TalliedFields ==
  ASSUME TypeOK
  PROVE  /\ count \in [DOMAIN Zeroes -> Int]
         /\ {"pkts", "errors", "timeouts", "valid", "bytes", "status"}
                \subseteq DOMAIN Zeroes \ Tallied
         /\ Tallied \subseteq DOMAIN Zeroes
         /\ \A k \in Packet : k.len \in Int
<1>1. count \in [DOMAIN Zeroes -> Int]
  BY DEF TypeOK, Counters
<1> QED
  BY <1>1, Fields, PacketAssumption DEF Tallied, PacketAssumption

\* Receiving counts other things than sending.
LEMMA ReceivingCounts ==
  ASSUME TypeOK, EngineInv, EmptyHeader \/ ReadHeader \/ CountFailure \/ LoopTop
  PROVE  \A field \in Tallied : count'[field] = count[field]
<1> SUFFICES ASSUME NEW field \in Tallied PROVE count'[field] = count[field]
  OBVIOUS
<1>1. \A other \in {"pkts", "errors", "timeouts", "valid", "bytes", "status"} :
          other \in DOMAIN Zeroes /\ field \in DOMAIN Zeroes \ {other}
  BY TalliedFields DEF Tallied
<1>2. CASE EmptyHeader \/ CountFailure \/ LoopTop
  <2>1. count' = count \/ \E other \in {"pkts", "errors", "timeouts", "status"} :
                              count' = Bump(count, other)
    BY <1>2 DEF EmptyHeader, CountFailure, LoopTop
  <2> QED
    BY <1>1, <2>1, TalliedFields, OneBump
<1>3. CASE ReadHeader
  <2> DEFINE b == Bump(count, "pkts")
             c == Bump(b, "valid")
             n == 8 + 8 * stream[buffer.hdr].len
  <2>1. stream[buffer.hdr] \in Packet
    BY <1>3 DEF ReadHeader, TypeOK, EngineInv, NeverAhead, WritesOne, BufferIsLast
  <2>2. n \in Int
    BY <2>1, TalliedFields
  <2>3. count' = [c EXCEPT !["bytes"] = Add(@, n)]
    BY <1>3 DEF ReadHeader
  <2>4. b \in [DOMAIN Zeroes -> Int] /\ b[field] = count[field]
    BY <1>1, TalliedFields, OneBump
  <2> HIDE DEF b, n
  <2>5. c \in [DOMAIN Zeroes -> Int] /\ c[field] = b[field]
    BY <1>1, <2>4, OneBump
  <2> HIDE DEF c
  <2>6. [c EXCEPT !["bytes"] = Add(@, n)][field] = c[field]
    BY <1>1, <2>2, <2>5, OneField
  <2> QED
    BY <2>3, <2>4, <2>5, <2>6
<1> QED
  BY <1>2, <1>3

LEMMA TallyLeft ==
  ASSUME TypeOK, EngineInv, [Next]_vars, ~Send, ~Restart
  PROVE  /\ \A field \in Tallied : count'[field] = count[field]
         /\ published' = published /\ process'.sent = process.sent
         /\ stream' = stream \/ \E k \in Packet : stream' = Append(stream, k)
         /\ pc' = "send" => (pc = "send" /\ header' = header) \/ ReadHeader
<1>1. CASE EmptyHeader \/ ReadHeader \/ CountFailure \/ LoopTop
  <2>1. \A field \in Tallied : count'[field] = count[field]
    BY <1>1, ReceivingCounts
  <2>2. /\ UNCHANGED <<published, process, stream>>
        /\ pc' = "send" => ReadHeader
    BY <1>1 DEF EmptyHeader, ReadHeader, CountFailure, LoopTop, engineVars
  <2> QED
    BY <2>1, <2>2
<1>2. CASE StartTransfer
  <2>1. process'.sent = process.sent
    BY <1>2 DEF StartTransfer, TypeOK, Process
  <2> QED
    BY <1>2, <2>1 DEF StartTransfer
<1>3. CASE Engine \/ Woken \/ TimesOut \/ CheckCookie \/ UNCHANGED vars
  BY <1>3 DEF Engine, Arrive, DmaBegin, DmaEnd, SyncCallback, Woken, TimesOut, CheckCookie,
              engineVars, vars
<1> QED
  BY <1>1, <1>2, <1>3 DEF Next, Ioctl, Thread

\* The stream keeps what it yielded.
LEMMA StreamStays ==
  ASSUME TypeOK, stream' = stream \/ \E k \in Packet : stream' = Append(stream, k)
  PROVE  /\ Len(stream) \in Nat /\ Len(stream') \in Nat /\ Len(stream) <= Len(stream')
         /\ \A h \in 1..Len(stream) : stream'[h] = stream[h]
  BY DEF TypeOK

\* How many messages of a kind there are, as long as their packets stay what they are.
LEMMA SentTyped ==
  ASSUME TypeOK, NEW id
  PROVE  /\ IsFiniteSet(SentWith(id)) /\ Cardinality(SentWith(id)) \in Nat
         /\ Len(published) \in Nat /\ process.sent \in Nat
<1>1. Len(published) \in Nat /\ process.sent \in Nat
  BY DEF TypeOK, Process
<1>2. process.sent + 1 \in Int /\ Len(published) \in Int
  BY <1>1
<1>3. IsFiniteSet(Mine)
  BY <1>2, FS_Interval DEF Mine
<1>4. SentWith(id) \subseteq Mine
  BY DEF SentWith
<1> QED
  BY <1>1, <1>3, <1>4, FS_Subset, FS_CardinalityType

LEMMA TallyStays ==
  ASSUME TypeOK, TypeOK', EngineInv, TallyInv, [Next]_vars, ~Send, ~Restart
  PROVE  TallyInv'
<1>1. /\ \A field \in Tallied : count'[field] = count[field]
      /\ published' = published /\ process'.sent = process.sent
      /\ stream' = stream \/ \E k \in Packet : stream' = Append(stream, k)
      /\ pc' = "send" => (pc = "send" /\ header' = header) \/ ReadHeader
  BY TallyLeft
<1>2. /\ Len(stream) \in Nat /\ Len(stream') \in Nat /\ Len(stream) <= Len(stream')
      /\ \A h \in 1..Len(stream) : stream'[h] = stream[h]
  BY <1>1, StreamStays
<1>3. \A i \in 1..Len(published) : published[i].hdr \in 1..Len(stream)
  BY DEF TallyInv, SentKnown
<1>4. SentKnown'
  BY <1>1, <1>2, <1>3 DEF TallyInv, SentKnown
<1>5. HeaderSent'
  <2>1. CASE ReadHeader
    BY <2>1 DEF ReadHeader, HeaderSent, engineVars
  <2>2. CASE pc = "send" /\ header' = header
    BY <1>2, <2>2 DEF TallyInv, HeaderSent, EngineInv, HeaderKnown
  <2> QED
    BY <1>1, <2>1, <2>2 DEF HeaderSent
<1>6. Len(published) \in Nat /\ process.sent \in Nat
  BY SentTyped
<1>7. \A id : SentWith(id)' = SentWith(id)
  <2> SUFFICES ASSUME NEW id PROVE SentWith(id)' = SentWith(id)
    OBVIOUS
  <2>1. Mine' = Mine
    BY <1>1 DEF Mine
  <2>2. \A i \in Mine : stream'[published[i].hdr] = stream[published[i].hdr]
    BY <1>2, <1>3, <1>6 DEF Mine
  <2> QED
    BY <1>1, <2>1, <2>2 DEF SentWith
<1>8. SamplesSent' = SamplesSent
  <2>1. \A i \in 1..Len(published) : Terms'[i] = Terms[i]
    <3>1. \A i \in 1..Len(published) : SamplesIn(i)' = SamplesIn(i)
      BY <1>1, <1>2, <1>3 DEF SamplesIn
    <3> QED
      BY <1>1, <3>1 DEF Terms
  <2>2. SumHolds /\ SumHolds'
    <3>1. TypeOK' /\ SentKnown' => SumHolds'
      BY SumIs, PTL
    <3> QED
      BY <1>4, <3>1, SumIs DEF TallyInv
  <2>3. PICK n \in Nat, k \in Nat : n = Len(published) /\ k = process.sent
    BY <1>6
  <2>4. PICK f \in [0..n -> Int] : IsSum(f, n, k, Terms) /\ SamplesSent = f[n]
    BY <2>2, <2>3 DEF SumHolds
  <2>5. PICK g \in [0..n -> Int] : IsSum(g, n, k, Terms') /\ SamplesSent' = g[n]
    BY <1>1, <2>2, <2>3 DEF SumHolds
  <2>6. PICK d, e : d = Terms /\ e = Terms'
    OBVIOUS
  <2>7. IsSum(f, n, k, d) /\ IsSum(g, n, k, e) /\ \A i \in 1..n : d[i] = e[i]
    BY <2>1, <2>3, <2>4, <2>5, <2>6
  <2>8. \A i \in 0..n : f[i] = g[i]
    BY <2>7, SumsAgree
  <2> QED
    BY <2>4, <2>5, <2>8
<1>9. TallyMatches'
  <2>1. count'.adc = count.adc /\ count'.avg = count.avg /\ count'.samples = count.samples
    BY <1>1 DEF Tallied
  <2> QED
    BY <1>7, <1>8, <2>1 DEF TallyInv, TallyMatches
<1> QED
  BY <1>4, <1>5, <1>9 DEF TallyInv

\* With one message more, one of the counts goes up.
LEMMA TallySent ==
  ASSUME TypeOK, TypeOK', EngineInv, TallyInv, Send
  PROVE  TallyInv'
<1>1. PICK n \in Nat, k \in Nat : n = Len(published) /\ k = process.sent
  BY SentTyped
<1>2. PICK m \in Message : m.hdr = header /\ published' = Append(published, m)
  <2> DEFINE new == [hdr |-> header, body |-> buffer.body]
  <2>1. new \in Message /\ new.hdr = header
    BY DEF TypeOK, Message
  <2>2. published' = Append(published, new)
    BY DEF Send
  <2> HIDE DEF new
  <2> QED
    BY <2>1, <2>2
<1>3. /\ Len(published') = n + 1 /\ published'[n + 1] = m
      /\ \A i \in 1..n : published'[i] = published[i]
      /\ UNCHANGED <<stream, process>> /\ pc = "send" /\ pc' = "loop"
  BY <1>1, <1>2 DEF Send, TypeOK, engineVars
<1>4. PICK pkt \in Packet : pkt = stream[header] /\ pkt.id \in Published
  BY <1>3 DEF TallyInv, HeaderSent, EngineInv, HeaderKnown, TypeOK
<1>5. SentKnown'
  <2>1. \A i \in 1..(n + 1) : published'[i].hdr \in 1..Len(stream)
    <3> SUFFICES ASSUME NEW i \in 1..(n + 1) PROVE published'[i].hdr \in 1..Len(stream)
      OBVIOUS
    <3>1. CASE i \in 1..n
      BY <1>1, <1>3, <3>1 DEF TallyInv, SentKnown
    <3>2. CASE i = n + 1
      BY <1>2, <1>3, <3>2 DEF EngineInv, HeaderKnown
    <3> QED
      BY <3>1, <3>2
  <2>2. k <= n
    BY <1>1 DEF TallyInv, SentKnown
  <2> QED
    BY <1>1, <1>3, <2>1, <2>2 DEF SentKnown
<1>6. k <= n
  BY <1>1 DEF TallyInv, SentKnown
<1>7. \A id : SentWith(id)' = IF pkt.id = id THEN SentWith(id) \cup {n + 1} ELSE SentWith(id)
  <2> SUFFICES ASSUME NEW id
               PROVE  SentWith(id)' = IF pkt.id = id THEN SentWith(id) \cup {n + 1}
                                                     ELSE SentWith(id)
    OBVIOUS
  <2>1. Mine = (k + 1)..n /\ Mine' = (k + 1)..(n + 1)
    BY <1>1, <1>3 DEF Mine
  <2>2. SentWith(id)' = {i \in (k + 1)..(n + 1) : stream[published'[i].hdr].id = id}
    BY <1>3, <2>1 DEF SentWith
  <2>3. SentWith(id) = {i \in (k + 1)..n : stream[published[i].hdr].id = id}
    BY <2>1 DEF SentWith
  <2>4. \A i \in (k + 1)..n : published'[i] = published[i]
    BY <1>3
  <2>5. stream[published'[n + 1].hdr] = pkt
    BY <1>2, <1>3, <1>4
  <2> QED
    BY <1>6, <2>2, <2>3, <2>4, <2>5
<1>8. \A id : pkt.id = id => Cardinality(SentWith(id)') = Cardinality(SentWith(id)) + 1
  <2> SUFFICES ASSUME NEW id, pkt.id = id
               PROVE  Cardinality(SentWith(id)') = Cardinality(SentWith(id)) + 1
    OBVIOUS
  <2>1. n + 1 \notin SentWith(id)
    BY <1>1 DEF SentWith, Mine
  <2>2. IsFiniteSet(SentWith(id))
    BY SentTyped
  <2>3. SentWith(id)' = SentWith(id) \cup {n + 1}
    BY <1>7
  <2> QED
    BY <2>1, <2>2, <2>3, FS_AddElement
<1>9. SamplesSent' = SamplesSent + (IF pkt.id = "ADC" THEN pkt.len - 1 ELSE 0)
      /\ SamplesSent \in Int
  <2>1. SumHolds /\ SumHolds'
    <3>1. TypeOK' /\ SentKnown' => SumHolds'
      BY SumIs, PTL
    <3> QED
      BY <1>5, <3>1, SumIs DEF TallyInv
  <2>2. PICK f \in [0..n -> Int] : IsSum(f, n, k, Terms) /\ SamplesSent = f[n]
    BY <1>1, <2>1 DEF SumHolds
  <2>3. PICK g \in [0..(n + 1) -> Int] : IsSum(g, n + 1, k, Terms') /\ SamplesSent' = g[n + 1]
    BY <1>1, <1>3, <2>1 DEF SumHolds
  <2>4. PICK d, e : d = Terms /\ e = Terms'
    OBVIOUS
  <2>5. \A i \in 1..n : d[i] = e[i]
    <3> SUFFICES ASSUME NEW i \in 1..n PROVE Terms[i] = Terms'[i]
      BY <2>4
    <3>1. i \in 1..Len(published) /\ i \in 1..Len(published')
      BY <1>1, <1>3
    <3>2. Terms[i] = SamplesIn(i) /\ Terms'[i] = SamplesIn(i)'
      BY <3>1 DEF Terms
    <3> QED
      BY <1>3, <3>2 DEF SamplesIn
  <2>6. e[n + 1] = IF pkt.id = "ADC" THEN pkt.len - 1 ELSE 0
    <3>1. n + 1 \in 1..Len(published')
      BY <1>3
    <3>2. e[n + 1] = SamplesIn(n + 1)'
      BY <2>4, <3>1 DEF Terms
    <3> QED
      BY <1>2, <1>3, <1>4, <3>2 DEF SamplesIn
  <2>7. IsSum(g, n, k, e) /\ IsSum(f, n, k, d)
    BY <2>2, <2>3, <2>4 DEF IsSum
  <2>8. \A i \in 0..n : f[i] = g[i]
    BY <2>5, <2>7, SumsAgree
  <2>9. g[n + 1] = g[n] + e[n + 1]
    BY <1>6, <2>3, <2>4 DEF IsSum
  <2> QED
    BY <2>2, <2>3, <2>6, <2>8, <2>9
<1>10. count \in [DOMAIN Zeroes -> Int] /\ Tallied \subseteq DOMAIN Zeroes /\ pkt.len - 1 \in Int
  BY TalliedFields
<1>11. CASE pkt.id = "AVG"
  <2>1. count' = Bump(count, "avg")
    BY <1>4, <1>11 DEF Send
  <2>2. /\ count'["avg"] = Add(count["avg"], 1)
        /\ count'["adc"] = count["adc"] /\ count'["samples"] = count["samples"]
    BY <1>10, <2>1, OneBump DEF Tallied
  <2>3. Add(Cardinality(SentWith("AVG")) % Word, 1) = (Cardinality(SentWith("AVG")) + 1) % Word
    <3>1. Cardinality(SentWith("AVG")) \in Int
      BY SentTyped
    <3> QED
      BY Zenon, <3>1, OneIsInt, AddsUp
  <2>4. count'["avg"] = Cardinality(SentWith("AVG")') % Word
    BY <1>8, <1>11, <2>2, <2>3 DEF TallyInv, TallyMatches
  <2>5. SentWith("ADC")' = SentWith("ADC")
    BY <1>7, <1>11
  <2>6. SamplesSent' = SamplesSent
    BY <1>9, <1>11
  <2> QED
    BY <1>3, <1>5, <2>2, <2>4, <2>5, <2>6 DEF TallyInv, TallyMatches, HeaderSent
<1>12. CASE pkt.id = "ADC"
  <2> DEFINE c == Bump(count, "adc")
  <2>1. count' = [c EXCEPT !["samples"] = Add(@, pkt.len - 1)]
    BY <1>4, <1>12 DEF Send
  <2>2. /\ c \in [DOMAIN Zeroes -> Int] /\ c["adc"] = Add(count["adc"], 1)
        /\ c["avg"] = count["avg"] /\ c["samples"] = count["samples"]
    BY <1>10, OneBump DEF Tallied
  <2> HIDE DEF c
  <2>3. /\ count'["samples"] = Add(count["samples"], pkt.len - 1)
        /\ count'["adc"] = Add(count["adc"], 1) /\ count'["avg"] = count["avg"]
    BY <1>10, <2>1, <2>2, OneField DEF Tallied
  <2>4. /\ Add(Cardinality(SentWith("ADC")) % Word, 1)
              = (Cardinality(SentWith("ADC")) + 1) % Word
        /\ Add(SamplesSent % Word, pkt.len - 1) = (SamplesSent + (pkt.len - 1)) % Word
    <3>1. PICK x \in Int, s \in Int, w \in Int :
              x = Cardinality(SentWith("ADC")) /\ s = SamplesSent /\ w = pkt.len - 1
      BY <1>9, <1>10, SentTyped
    <3>2. Add(x % Word, 1) = (x + 1) % Word
      BY Zenon, <3>1, OneIsInt, AddsUp
    <3>3. Add(s % Word, w) = (s + w) % Word
      BY Zenon, <3>1, AddsUp
    <3> QED
      BY <3>1, <3>2, <3>3
  <2>5. count'["adc"] = Cardinality(SentWith("ADC")') % Word
    BY <1>8, <1>12, <2>3, <2>4 DEF TallyInv, TallyMatches
  <2>6. SentWith("AVG")' = SentWith("AVG")
    BY <1>7, <1>12
  <2>7. count'["samples"] = SamplesSent' % Word
    BY <1>9, <1>12, <2>3, <2>4 DEF TallyInv, TallyMatches
  <2> QED
    BY <1>3, <1>5, <2>3, <2>5, <2>6, <2>7 DEF TallyInv, TallyMatches, HeaderSent
<1> QED
  BY <1>4, <1>11, <1>12 DEF Published

\* A process that has sent nothing has counted nothing.
LEMMA NothingSent ==
  ASSUME TypeOK, SentKnown, process.sent = Len(published), count = Zeroes
  PROVE  TallyMatches
<1>1. Len(published) \in Nat /\ process.sent \in Nat
  BY SentTyped
<1>2. Mine = {}
  BY <1>1 DEF Mine
<1>3. \A id : SentWith(id) = {}
  BY <1>2 DEF SentWith
<1>4. SamplesSent = 0
  <2>1. PICK f \in [0..Len(published) -> Int] :
            IsSum(f, Len(published), process.sent, Terms) /\ SamplesSent = f[Len(published)]
    BY SumIs DEF SumHolds
  <2> QED
    BY <1>1, <2>1 DEF IsSum
<1>5. 0 % Word = 0
  BY BoundsAssumption, SMT DEF BoundsAssumption
<1>6. Cardinality({}) = 0
  BY FS_EmptySet
<1> QED
  BY <1>3, <1>4, <1>5, <1>6 DEF TallyMatches, Zeroes

LEMMA TallyRestarts ==
  ASSUME TypeOK, TypeOK', TallyInv, Restart
  PROVE  TallyInv'
<1>1. /\ UNCHANGED <<stream, published>> /\ count' = Zeroes /\ pc' = "loop"
      /\ process'.sent = Len(published)
  BY DEF Restart, engineVars
<1>2. SentKnown'
  <2>1. Len(published) \in Nat
    BY SentTyped
  <2> QED
    BY <1>1, <2>1 DEF TallyInv, SentKnown
<1>3. TallyMatches'
  <2>1. TypeOK' /\ SentKnown' /\ (process.sent = Len(published))' /\ (count = Zeroes)'
            => TallyMatches'
    BY NothingSent, PTL
  <2> QED
    BY <1>1, <1>2, <2>1
<1> QED
  BY <1>1, <1>2, <1>3 DEF TallyInv, HeaderSent

\* Whatever times out, fails or is killed: the messages and samples that STATUS reports are
\* those sent since the process started, modulo the width of the counters. The counters
\* of dma_thread are taken modulo 2^32 at every addition and their sum over any number of
\* packets comes out the same, a time-stamp word taken off each packet of samples.
THEOREM TallyIsRight == Spec => []TallyMatches
<1>1. Init => TallyInv
  <2> SUFFICES ASSUME Init PROVE TallyInv
    OBVIOUS
  <2>1. TypeOK
    BY InitTypeOK
  <2>2. published = << >> /\ process.sent = 0 /\ count = Zeroes /\ pc = "loop"
    BY DEF Init
  <2>3. SentKnown /\ process.sent = Len(published)
    BY <2>2 DEF SentKnown
  <2> QED
    BY <2>1, <2>2, <2>3, NothingSent DEF TallyInv, HeaderSent
<1>2. TypeOK /\ TypeOK' /\ EngineInv /\ TallyInv /\ [Next]_vars => TallyInv'
  BY TallyStays, TallySent, TallyRestarts
<1>3. TallyInv => TallyMatches
  BY DEF TallyInv
<1> QED
  BY <1>1, <1>2, <1>3, TypeCorrect, EngineInvariant, PTL DEF Spec
=============================================================================
