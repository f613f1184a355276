----------------------------- MODULE RunnerCalls -----------------------------
(***************************************************************************)
(* Calls and terminal streams over one connection to a remote runner:      *)
(* conn.roundTrip, its read loop, the bounded outbox and the streams of    *)
(* internal/runnerserver on one side, the session of internal/runnerclient *)
(* on the other.  Every call here opens a terminal, the one method whose   *)
(* result leaves something open at both ends; a call of another method     *)
(* behaves like one whose result carries no stream.                        *)
(*                                                                         *)
(* Messages in each direction arrive in order.  A stream is named after    *)
(* the call that opened it.  Left out: the bytes, resizes and input of a   *)
(* terminal (input that does not drain closes the stream as its end does), *)
(* progress messages and pings.  The context of the connection ends with   *)
(* teardown; a shutdown that ends it a little earlier is a Break.          *)
(***************************************************************************)
EXTENDS Naturals, Sequences, FiniteSets

CONSTANTS
    Calls,        \* ids of roundTrip calls, which nextID numbers
    OutboxLimit,  \* maxOutboxFrames
    MaxFrames     \* bound: frames of output each terminal sends

ASSUME CallsAssumption ==
    Calls \subseteq Nat /\ OutboxLimit \in Nat \ {0} /\ MaxFrames \in Nat

VARIABLES
    \* The server: where roundTrip is, conn.pending, the one-place channel of
    \* each call, the result handleResult took and has yet to pass on, streams,
    \* closedStreams, streams that a caller has and did not close.
    caller, pending, results, delivering, streams, closedStreams, held,
    \* The outbox (which feeds the socket), whether it is closed, conn.done.
    toRunner, outClosed, torn,
    \* The socket.
    broken, toServer,
    \* The runner: where start is for each call, session.streams, and whether
    \* the session is over.
    work, rstreams, rgone,
    \* Bound used up, and history: CloseTerminal notifications per stream.
    frames, notified

serverVars == <<caller, pending, results, delivering, streams, closedStreams, held>>
outVars == <<toRunner, outClosed, torn>>
runnerVars == <<work, rstreams, rgone, frames>>
vars == <<serverVars, outVars, broken, toServer, runnerVars, notified>>

Message(type, i) == [type |-> type, id |-> i]
Messages(types) == [type : types, id : Calls]
ToRunner == {"call", "cancel", "close"}
ToServer == {"opened", "failed", "frame", "closed"}

Init ==
    /\ caller = [i \in Calls |-> "idle"]
    /\ pending = {}
    /\ results = [i \in Calls |-> "empty"]
    /\ delivering = {}
    /\ streams = {}
    /\ closedStreams = {}
    /\ held = {}
    /\ toRunner = <<>>
    /\ outClosed = FALSE
    /\ torn = FALSE
    /\ broken = FALSE
    /\ toServer = <<>>
    /\ work = [i \in Calls |-> "none"]
    /\ rstreams = {}
    /\ rgone = FALSE
    /\ frames = [i \in Calls |-> 0]
    /\ notified = [i \in Calls |-> 0]

-----------------------------------------------------------------------------
(* The outbox.                                                             *)

Fits == ~outClosed /\ Len(toRunner) < OutboxLimit

\* send: a full outbox closes itself and the socket, a closed one refuses.
Send(m) ==
    /\ toRunner' = IF Fits THEN Append(toRunner, m) ELSE toRunner
    /\ outClosed' = ~Fits
    /\ broken' = (broken \/ (~Fits /\ ~outClosed))
    /\ UNCHANGED torn

SendNothing == UNCHANGED <<outVars, broken>>

\* Whether closeStream tells the runner: the stream was known and the
\* connection lives.
TellsAlways(i) == ~torn                                          \* mutant
Tells(i) == i \in streams /\ ~torn

\* conn.closeStream.
CloseStream(i) ==
    /\ streams' = streams \ {i}
    /\ closedStreams' = closedStreams \cup {i}
    /\ IF Tells(i)
       THEN Send(Message("close", i)) /\ notified' = [notified EXCEPT ![i] = @ + 1]
       ELSE SendNothing /\ UNCHANGED notified

-----------------------------------------------------------------------------
(* roundTrip.                                                              *)

CallerFrame == UNCHANGED <<delivering, toServer, runnerVars>>

\* The call is registered as pending, unless the connection is done ...
Begin(i) ==
    /\ caller[i] = "idle" /\ \A j \in Calls : j < i => caller[j] # "idle"
    /\ caller' = [caller EXCEPT ![i] = IF torn THEN "returned" ELSE "sending"]
    /\ pending' = IF torn THEN pending ELSE pending \cup {i}
    /\ SendNothing
    /\ CallerFrame
    /\ UNCHANGED <<results, streams, closedStreams, held, notified>>

\* ... and sent; a refusal forgets it.
SendCall(i) ==
    /\ caller[i] = "sending"
    /\ Send(Message("call", i))
    /\ caller' = [caller EXCEPT ![i] = IF Fits THEN "waiting" ELSE "returned"]
    /\ pending' = IF Fits THEN pending ELSE pending \ {i}
    /\ CallerFrame
    /\ UNCHANGED <<results, streams, closedStreams, held, notified>>

\* The result is there.
Return(i) ==
    /\ caller[i] = "waiting"
    /\ results[i] # "empty"
    /\ caller' = [caller EXCEPT ![i] = "returned"]
    /\ results' = [results EXCEPT ![i] = "empty"]
    /\ held' = IF results[i] = "opened" THEN held \cup {i} ELSE held
    /\ SendNothing
    /\ CallerFrame
    /\ UNCHANGED <<pending, streams, closedStreams, notified>>

\* The context of the connection ends before a result is there.
CancelledNever == FALSE                                          \* mutant
Cancelled == torn

ReturnDisconnected(i) ==
    /\ caller[i] = "waiting"
    /\ Cancelled
    /\ results[i] = "empty"
    /\ caller' = [caller EXCEPT ![i] = "returned"]
    /\ SendNothing
    /\ CallerFrame
    /\ UNCHANGED <<pending, results, streams, closedStreams, held, notified>>

\* The caller's own context ends: forget ...
GiveUp(i) ==
    /\ caller[i] = "waiting"
    /\ caller' = [caller EXCEPT ![i] = "forgotten"]
    /\ pending' = pending \ {i}
    /\ SendNothing
    /\ CallerFrame
    /\ UNCHANGED <<results, streams, closedStreams, held, notified>>

\* ... abandon looks once whether a result came all the same and closes its
\* stream ...
Abandon(i) ==
    /\ caller[i] = "forgotten"
    /\ caller' = [caller EXCEPT ![i] = "cancelling"]
    /\ results' = [results EXCEPT ![i] = "empty"]
    /\ IF results[i] = "opened"
       THEN CloseStream(i)
       ELSE SendNothing /\ UNCHANGED <<streams, closedStreams, notified>>
    /\ CallerFrame
    /\ UNCHANGED <<pending, held>>

\* ... and the runner is told to cancel.
SendCancel(i) ==
    /\ caller[i] = "cancelling"
    /\ caller' = [caller EXCEPT ![i] = "returned"]
    /\ Send(Message("cancel", i))
    /\ CallerFrame
    /\ UNCHANGED <<pending, results, streams, closedStreams, held, notified>>

\* The caller closes the terminal it got.
Close(i) ==
    /\ i \in held
    /\ held' = held \ {i}
    /\ CloseStream(i)
    /\ CallerFrame
    /\ UNCHANGED <<caller, pending, results>>

-----------------------------------------------------------------------------
(* The read loop of the connection.                                        *)

Incoming(type, i) ==
    /\ ~torn
    /\ delivering = {}
    /\ toServer # <<>>
    /\ Head(toServer) = Message(type, i)
    /\ toServer' = Tail(toServer)

LoopFrame == UNCHANGED <<caller, runnerVars>>

\* handleResult under the lock: a pending call is taken and its stream
\* registered, a call nobody waits for is ignored ...
HandleResult(i) ==
    /\ \E type \in {"opened", "failed"} :
          /\ Incoming(type, i)
          /\ delivering' = IF i \in pending THEN {Message(type, i)} ELSE {}
          /\ streams' = IF i \in pending /\ type = "opened" THEN streams \cup {i} ELSE streams
    /\ pending' = pending \ {i}
    /\ SendNothing
    /\ LoopFrame
    /\ UNCHANGED <<results, closedStreams, held, notified>>

\* ... and passed on after the lock is released.
Deliver(m) ==
    /\ results' = [results EXCEPT ![m.id] = m.type]
    /\ delivering' = {}
    /\ SendNothing
    /\ LoopFrame
    /\ UNCHANGED <<pending, streams, closedStreams, held, toServer, notified>>

\* handleFrame: output of a known stream is buffered, or closes it when its
\* reader cannot keep up; a stream that is not known is closed, once.
HandleFrame(i) ==
    /\ Incoming("frame", i)
    /\ \/ /\ i \in streams
          /\ SendNothing
          /\ UNCHANGED <<streams, closedStreams, held, notified>>
       \/ /\ i \in streams
          /\ held' = held \ {i}
          /\ CloseStream(i)
       \/ /\ i \notin streams \cup closedStreams
          /\ closedStreams' = closedStreams \cup {i}
          /\ Send(Message("close", i))
          /\ notified' = [notified EXCEPT ![i] = @ + 1]
          /\ UNCHANGED <<streams, held>>
       \/ /\ i \in closedStreams \ streams
          /\ SendNothing
          /\ UNCHANGED <<streams, closedStreams, held, notified>>
    /\ LoopFrame
    /\ UNCHANGED <<pending, results, delivering>>

\* handleStreamClosed: the reader drains what is buffered and gets EOF.
HandleStreamClosed(i) ==
    /\ Incoming("closed", i)
    /\ streams' = streams \ {i}
    /\ closedStreams' = closedStreams \cup {i}
    /\ SendNothing
    /\ LoopFrame
    /\ UNCHANGED <<pending, results, delivering, held, notified>>

\* The socket's end is read: teardown.
Teardown ==
    /\ broken
    /\ ~torn
    /\ delivering = {}
    /\ torn' = TRUE
    /\ outClosed' = TRUE
    /\ streams' = {}
    /\ pending' = {}
    /\ LoopFrame
    /\ UNCHANGED <<results, delivering, closedStreams, held, toRunner, broken, toServer, notified>>

\* The network, a missed ping, or shutdown.
Break ==
    /\ ~broken
    /\ broken' = TRUE
    /\ UNCHANGED <<serverVars, outVars, toServer, runnerVars, notified>>

-----------------------------------------------------------------------------
(* The session of the runner.                                              *)

RunnerFrame == UNCHANGED <<serverVars, outClosed, torn, broken, notified>>
Answer(m) == toServer' = IF broken THEN toServer ELSE Append(toServer, m)

\* serve reads the next message: a call starts its goroutine, and so does
\* CloseTerminal; a cancel reaches a call that still works.
Read ==
    /\ ~rgone
    /\ toRunner # <<>>
    /\ toRunner' = Tail(toRunner)
    /\ LET m == Head(toRunner) IN
       /\ work' = [work EXCEPT ![m.id] =
                      CASE m.type = "call" -> "opening"
                        [] m.type = "cancel" /\ @ = "opening" -> "cancelled"
                        [] m.type = "close" /\ @ = "pumping" -> "closing"
                        [] OTHER -> @]
    /\ RunnerFrame
    /\ UNCHANGED <<toServer, rstreams, rgone, frames>>

\* CloseTerminal, in a goroutine of its own: the pumps may still run before it.
CloseTerminal(i) ==
    /\ work[i] = "closing"
    /\ work' = [work EXCEPT ![i] = "done"]
    /\ rstreams' = rstreams \ {i}
    /\ RunnerFrame
    /\ UNCHANGED <<toRunner, toServer, rgone, frames>>

\* openTerminal: the terminal opens and is registered, or does not; one that
\* opens for a cancelled call or a closed session is closed again.
Open(i) ==
    /\ work[i] \in {"opening", "cancelled"}
    /\ \/ /\ work[i] = "opening" /\ ~rgone
          /\ work' = [work EXCEPT ![i] = "opened"]
          /\ rstreams' = rstreams \cup {i}
       \/ /\ work' = [work EXCEPT ![i] = "failed"]
          /\ UNCHANGED rstreams
    /\ RunnerFrame
    /\ UNCHANGED <<toRunner, toServer, rgone, frames>>

\* The result is written, and only then the pumps start.
SendResult(i) ==
    /\ work[i] \in {"opened", "failed"}
    /\ Answer(Message(work[i], i))
    /\ work' = [work EXCEPT ![i] = IF @ = "opened" THEN "pumping" ELSE "done"]
    /\ RunnerFrame
    /\ UNCHANGED <<toRunner, rstreams, rgone, frames>>

\* Where start is when pumpOutput runs.
PumpingEarly == {"opened", "pumping", "closing"}                 \* mutant
Pumping == {"pumping", "closing"}

\* pumpOutput sends output ...
Output(i) ==
    /\ work[i] \in Pumping
    /\ i \in rstreams
    /\ frames[i] < MaxFrames
    /\ frames' = [frames EXCEPT ![i] = @ + 1]
    /\ Answer(Message("frame", i))
    /\ RunnerFrame
    /\ UNCHANGED <<toRunner, work, rstreams, rgone>>

\* ... and the end of the terminal, unless the stream was closed by CloseTerminal.
EndOfOutput(i) ==
    /\ work[i] \in Pumping
    /\ i \in rstreams
    /\ rstreams' = rstreams \ {i}
    /\ Answer(Message("closed", i))
    /\ RunnerFrame
    /\ UNCHANGED <<toRunner, work, rgone, frames>>

\* serve returns and closes every stream.
SessionEnds ==
    /\ broken
    /\ ~rgone
    /\ rgone' = TRUE
    /\ rstreams' = {}
    /\ RunnerFrame
    /\ UNCHANGED <<toRunner, toServer, work, frames>>

-----------------------------------------------------------------------------
CallerSteps(i) ==
    \/ Begin(i) \/ SendCall(i) \/ Return(i) \/ ReturnDisconnected(i) \/ GiveUp(i)
    \/ Abandon(i) \/ SendCancel(i) \/ Close(i)

LoopSteps ==
    \/ \E i \in Calls : HandleResult(i) \/ HandleFrame(i) \/ HandleStreamClosed(i)
    \/ \E m \in delivering : Deliver(m)
    \/ Teardown

RunnerSteps ==
    \/ \E i \in Calls : Open(i) \/ SendResult(i) \/ CloseTerminal(i)
    \/ \E i \in Calls : Output(i) \/ EndOfOutput(i)
    \/ Read \/ SessionEnds

Next == (\E i \in Calls : CallerSteps(i)) \/ LoopSteps \/ RunnerSteps \/ Break

Spec == Init /\ [][Next]_vars

\* Both read loops and the goroutines of the calls run, and OpenTerminal
\* returns.  No caller has to give up, and no connection has to break.
Fairness ==
    /\ WF_vars(LoopSteps)
    /\ WF_vars(Read)
    /\ WF_vars(SessionEnds)
    /\ \A i \in Calls :
          /\ WF_vars(SendCall(i) \/ Return(i) \/ ReturnDisconnected(i)
                        \/ Abandon(i) \/ SendCancel(i))
          /\ WF_vars(Open(i))
          /\ WF_vars(SendResult(i))

FairSpec == Spec /\ Fairness

-----------------------------------------------------------------------------
(* Properties                                                              *)

\* Every variable has its type, the outbox within its limit.
TypeOK ==
    /\ caller \in [Calls -> {"idle", "sending", "waiting", "forgotten", "cancelling", "returned"}]
    /\ pending \subseteq Calls
    /\ results \in [Calls -> {"empty", "opened", "failed"}]
    /\ delivering \subseteq Messages({"opened", "failed"})
    /\ streams \subseteq Calls
    /\ closedStreams \subseteq Calls
    /\ held \subseteq Calls
    /\ toRunner \in Seq(Messages(ToRunner)) /\ Len(toRunner) <= OutboxLimit
    /\ toServer \in Seq(Messages(ToServer))
    /\ {outClosed, torn, broken, rgone} \subseteq BOOLEAN
    /\ work \in [Calls -> {"none", "opening", "cancelled", "opened", "failed", "pumping", "closing", "done"}]
    /\ rstreams \subseteq Calls
    /\ frames \in [Calls -> Nat]
    /\ notified \in [Calls -> Nat]

InFlight(q, m) == \E k \in DOMAIN q : q[k] = m

\* Nobody holds a dead terminal without being told: when the runner's end of a
\* stream that a caller holds is closed, the server knows, or will when it reads
\* on, or the connection is down.  The runner starts its pumps only after the
\* result, and the server registers a stream before it reads on, for this.
HeldStreamLearns ==
    \A i \in held :
       i \in streams => i \in rstreams \/ InFlight(toServer, Message("closed", i)) \/ broken

\* The runner is told to close a stream once at most.
ToldOnce == \A i \in Calls : notified[i] <= 1

\* roundTrip returns, whether or not its caller ever gives up.
CallReturns == \A i \in Calls : caller[i] = "sending" ~> caller[i] = "returned"

\* abandon releases the terminal of a caller that gave up: once roundTrip
\* returned and its result was passed on, the server has no stream that no
\* caller holds.
AbandonedIsReleased ==
    \A i \in streams :
       caller[i] = "returned" /\ delivering = {} => i \in held
=============================================================================
