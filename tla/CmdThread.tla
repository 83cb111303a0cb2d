----------------------------- MODULE CmdThread ------------------------------
(***************************************************************************)
(* cmd_thread as a whole (task_cmd.c): the calibration of module AdcInit,  *)
(* and then the loop that serves register accesses on a REP socket. The    *)
(* socket is bound before the calibration begins, so requests queue up     *)
(* meanwhile; a client (external) waits for its reply before it asks again.*)
(* What a request asks for is settled when it is served: nothing looks at  *)
(* it before.                                                              *)
(* Operators whose name begins with Mutant are faulty variants of the      *)
(* definition that follows them; no specification uses them.               *)
(***************************************************************************)
EXTENDS AdcInit

CONSTANTS
    Client,         \* the clients
    MaxWrites       \* bound: writes of the clients

ASSUME CmdAssumption == MaxWrites \in Nat /\ "none" \notin Client

VARIABLES
    queue,          \* clients with a request at the REP socket
    waiting,        \* clients that have asked and have no reply yet
    cmd,            \* the client whose request is in cmd_msg, or "none"
    done,           \* its request has been executed
    changed,        \* history: what clients wrote since the application started
    lost,           \* history: clients whose request died with the application
    writes          \* writes so far

cmdVars == <<queue, waiting, cmd, done, changed, lost, writes>>
allVars == <<vars, cmdVars>>

Register == {"ADC_DELAY_IN", "ADC_CTRL", "STREAM_CTRL"}

CmdTypeOK ==
    /\ TypeOK
    /\ queue \subseteq Client /\ waiting \subseteq Client /\ lost \subseteq Client
    /\ cmd \in Client \cup {"none"}
    /\ done \in BOOLEAN
    /\ changed \subseteq Register
    /\ writes \in 0..MaxWrites

CmdInit ==
    /\ Init
    /\ queue = {} /\ waiting = {} /\ lost = {}
    /\ cmd = "none" /\ done = FALSE
    /\ changed = {}
    /\ writes = 0

----------------------------------------------------------------------------
\* A client of a REP socket (external). One whose request died waits for ever.
Ask(c) ==
    /\ c \notin waiting
    /\ waiting' = waiting \cup {c}
    /\ queue' = queue \cup {c}
    /\ UNCHANGED <<vars, cmd, done, changed, lost, writes>>

\* zmq_recv, once the calibration is over.
Receive(c) ==
    /\ pc = "serve" /\ cmd = "none"
    /\ c \in queue
    /\ queue' = queue \ {c}
    /\ cmd' = c /\ done' = FALSE
    /\ UNCHANGED <<vars, waiting, changed, lost, writes>>

Execute ==
    /\ pc = "serve" /\ cmd # "none" /\ ~done
    /\ done' = TRUE
    /\ UNCHANGED <<queue, waiting, cmd, lost>>

WriteRegister(r) ==
    /\ Execute
    /\ writes < MaxWrites
    /\ writes' = writes + 1
    /\ changed' = changed \cup {r}

\* A write to a register that adc_init and data_init also use: all that is written is
\* stored as it is and read back for the reply.
WriteDelay ==
    /\ WriteRegister("ADC_DELAY_IN")
    /\ \E c \in Channel, t \in Tap : load' = [load EXCEPT ![c] = t]
    /\ UNCHANGED <<fpgaVars, testpat, clear, stream, pc, n, ch, error_counters, restarts>>

WriteAdcCtrl ==
    /\ WriteRegister("ADC_CTRL")
    /\ testpat' \in BOOLEAN /\ clear' \in BOOLEAN
    /\ UNCHANGED <<fpgaVars, load, stream, pc, n, ch, error_counters, restarts>>

WriteStreamCtrl ==
    /\ WriteRegister("STREAM_CTRL")
    /\ stream' \in BOOLEAN
    /\ UNCHANGED <<fpgaVars, load, testpat, clear, pc, n, ch, error_counters, restarts>>

\* A read, a write to any other register, or what is answered with 'e': an address out
\* of range, a letter that is neither r nor w, a length that is not 12.
NothingWritten ==
    /\ Execute
    /\ UNCHANGED <<vars, changed, writes>>

\* Requests with an error are not answered.
MutantSend ==
    /\ pc = "serve" /\ cmd # "none" /\ done
    /\ waiting' \in {waiting, waiting \ {cmd}}
    /\ cmd' = "none" /\ done' = FALSE
    /\ UNCHANGED <<vars, queue, changed, lost, writes>>

\* zmq_send, whatever was asked.
Send ==
    /\ pc = "serve" /\ cmd # "none" /\ done
    /\ waiting' = waiting \ {cmd}
    /\ cmd' = "none" /\ done' = FALSE
    /\ UNCHANGED <<vars, queue, changed, lost, writes>>

Serve ==
    \/ \E c \in Client : Receive(c)
    \/ WriteDelay \/ WriteAdcCtrl \/ WriteStreamCtrl \/ NothingWritten
    \/ Send

\* The application is killed and started again: the socket goes with its requests.
RestartThread ==
    /\ Restart
    /\ queue' = {} /\ cmd' = "none" /\ done' = FALSE
    /\ changed' = {}
    /\ lost' = waiting
    /\ UNCHANGED <<waiting, writes>>

Calibrate == Thread /\ UNCHANGED cmdVars
Fpga == (Convert \/ \E c \in Channel : LoadDelay(c)) /\ UNCHANGED cmdVars

CmdNext ==
    \/ Fpga \/ Calibrate
    \/ \E c \in Client : Ask(c)
    \/ Serve
    \/ RestartThread

\* The FPGA keeps converting and loads every delay; the thread is scheduled, and the
\* socket takes requests from its clients in turn.
CmdSpec ==
    /\ CmdInit /\ [][CmdNext]_allVars
    /\ \A c \in Channel : WF_allVars(LoadDelay(c) /\ UNCHANGED cmdVars)
    /\ WF_allVars(Convert /\ UNCHANGED cmdVars)
    /\ WF_allVars(Calibrate) /\ WF_allVars(Serve)
    /\ \A c \in Client : SF_allVars(Receive(c))

----------------------------------------------------------------------------
\* What adc_init achieves stays so while commands are served, until a client moves a
\* delay line itself; requests that were waiting do not disturb the calibration.
StaysAtGoodTap == "ADC_DELAY_IN" \notin changed => ServedAtGoodTap

\* Before the application is first killed, test data is streamed only after a client
\* has written ADC_CTRL.
NoUnaskedTestData == "ADC_CTRL" \notin changed => NoTestDataStreamed

\* The application gets to serving commands again, however often it is restarted.
GetsToServe == []<>(pc = "serve")

\* A request is answered, also one that was sent during the calibration and whatever it
\* asks for, unless the application is killed before.
RequestsAnswered ==
    \A c \in Client : c \in waiting ~> (c \notin waiting \/ c \in lost)
=============================================================================
