-------------------------- MODULE RunnerCallsProofs --------------------------
(***************************************************************************)
(* RunnerCalls for any number of calls, any outbox and any output: the     *)
(* runner is told to close a stream once at most, and a stream whose       *)
(* runner's end is closed is closed at the server, or will be once it      *)
(* reads on.  Both rest on the order of messages: the result of a call     *)
(* comes before the output of its terminal, and that before its end.       *)
(***************************************************************************)
EXTENDS RunnerCalls, TLAPS

-----------------------------------------------------------------------------
(* Queues.                                                                 *)

\* Message m is in queue q once at most.
Once(q, m) == \A j, k \in DOMAIN q : q[j] = m /\ q[k] = m => j = k

\* No m comes after an n.
NoneAfter(q, m, n) == \A j, k \in DOMAIN q : q[j] = n /\ q[k] = m => k <= j

\* Every n comes after an m.
Precedes(q, m, n) == \A k \in DOMAIN q : q[k] = n => \E j \in DOMAIN q : j < k /\ q[j] = m

\* What is in a queue after a message was put into it ...
LEMMA AppendIn ==
    ASSUME NEW S, NEW q \in Seq(S), NEW e \in S, NEW m
    PROVE  InFlight(Append(q, e), m) <=> InFlight(q, m) \/ m = e
<1>1. /\ DOMAIN Append(q, e) = 1..(Len(q) + 1) /\ DOMAIN q = 1..Len(q) /\ Len(q) \in Nat
      /\ Append(q, e)[Len(q) + 1] = e
      /\ \A k \in DOMAIN q : Append(q, e)[k] = q[k]
  OBVIOUS
<1>2. Len(q) + 1 \in DOMAIN Append(q, e) /\ \A k \in DOMAIN Append(q, e) : k \in DOMAIN q \/ k = Len(q) + 1
  BY <1>1
<1>3. \A k \in DOMAIN q : k \in DOMAIN Append(q, e)
  BY <1>1
<1> QED BY <1>1, <1>2, <1>3 DEF InFlight

\* ... and after the first was taken from it.
LEMMA TailIn ==
    ASSUME NEW S, NEW q \in Seq(S), q # <<>>, NEW m
    PROVE  InFlight(q, m) <=> Head(q) = m \/ InFlight(Tail(q), m)
<1>1. \A k \in DOMAIN Tail(q) : k + 1 \in DOMAIN q /\ Tail(q)[k] = q[k + 1]
  OBVIOUS
<1>2. 1 \in DOMAIN q /\ Head(q) = q[1]
  OBVIOUS
<1>3. \A k \in DOMAIN q : k # 1 => k - 1 \in DOMAIN Tail(q) /\ Tail(q)[k - 1] = q[k]
  OBVIOUS
<1> QED BY ZenonT(40), <1>1, <1>2, <1>3 DEF InFlight

\* A message that is not there yet, or another one, can be put in.
LEMMA AppendOnce ==
    ASSUME NEW S, NEW q \in Seq(S), NEW e \in S, NEW m, Once(q, m), e # m \/ ~InFlight(q, m)
    PROVE  Once(Append(q, e), m)
BY DEF Once, InFlight

\* A message that is in a queue once is gone when it is taken.
LEMMA TailOnce ==
    ASSUME NEW S, NEW q \in Seq(S), q # <<>>, NEW m, Once(q, m)
    PROVE  Once(Tail(q), m) /\ (Head(q) = m => ~InFlight(Tail(q), m))
<1>1. \A k \in DOMAIN Tail(q) : k \in Nat \ {0} /\ k + 1 \in DOMAIN q /\ Tail(q)[k] = q[k + 1]
  OBVIOUS
<1>2. 1 \in DOMAIN q /\ Head(q) = q[1]
  OBVIOUS
<1>3. Once(Tail(q), m)
  BY <1>1 DEF Once
<1>4. Head(q) = m => ~InFlight(Tail(q), m)
  BY <1>1, <1>2 DEF Once, InFlight
<1> QED BY <1>3, <1>4

\* A message that must not come after another can be put in before that one is.
LEMMA AppendAfter ==
    ASSUME NEW S, NEW q \in Seq(S), NEW e \in S, NEW m, NEW n, m # n, NoneAfter(q, m, n),
           e # m \/ ~InFlight(q, n)
    PROVE  NoneAfter(Append(q, e), m, n)
BY DEF NoneAfter, InFlight

\* Once the later message is at the head, the earlier one is gone.
LEMMA TailAfter ==
    ASSUME NEW S, NEW q \in Seq(S), q # <<>>, NEW m, NEW n, NoneAfter(q, m, n)
    PROVE  NoneAfter(Tail(q), m, n) /\ (Head(q) = n => ~InFlight(Tail(q), m))
<1>1. \A k \in DOMAIN Tail(q) : k \in Nat \ {0} /\ k + 1 \in DOMAIN q /\ Tail(q)[k] = q[k + 1]
  OBVIOUS
<1>2. 1 \in DOMAIN q /\ Head(q) = q[1]
  OBVIOUS
<1>3. NoneAfter(Tail(q), m, n)
  BY <1>1 DEF NoneAfter
<1>4. Head(q) = n => ~InFlight(Tail(q), m)
  BY <1>1, <1>2 DEF NoneAfter, InFlight
<1> QED BY <1>3, <1>4

\* A message that needs another before it can be put in after that one.
LEMMA AppendPrecedes ==
    ASSUME NEW S, NEW q \in Seq(S), NEW e \in S, NEW m, NEW n, Precedes(q, m, n),
           e # n \/ InFlight(q, m)
    PROVE  Precedes(Append(q, e), m, n)
<1>1. /\ DOMAIN Append(q, e) = 1..(Len(q) + 1) /\ DOMAIN q = 1..Len(q) /\ Len(q) \in Nat
      /\ Append(q, e)[Len(q) + 1] = e
      /\ \A k \in DOMAIN q : Append(q, e)[k] = q[k]
  OBVIOUS
<1> QED BY <1>1 DEF Precedes, InFlight

\* The message that needs another before it is not at the head, and as long as
\* the other is not there either, nothing changes for the rest.
LEMMA TailPrecedes ==
    ASSUME NEW S, NEW q \in Seq(S), q # <<>>, NEW m, NEW n, Precedes(q, m, n)
    PROVE  Head(q) # n /\ (Head(q) # m => Precedes(Tail(q), m, n))
<1>1. \A k \in DOMAIN Tail(q) : k \in Nat \ {0} /\ k + 1 \in DOMAIN q /\ Tail(q)[k] = q[k + 1]
  OBVIOUS
<1>2. 1 \in DOMAIN q /\ Head(q) = q[1]
  OBVIOUS
<1>3. \A k \in DOMAIN q : k \in Nat \ {0} /\ (k # 1 => k - 1 \in DOMAIN Tail(q) /\ Tail(q)[k - 1] = q[k])
  OBVIOUS
<1>4. Head(q) # n
  BY <1>2, <1>3 DEF Precedes
<1>5. ASSUME Head(q) # m, NEW k \in DOMAIN Tail(q), Tail(q)[k] = n
      PROVE  \E j \in DOMAIN Tail(q) : j < k /\ Tail(q)[j] = m
  <2>1. PICK j \in DOMAIN q : j < k + 1 /\ q[j] = m
    BY <1>1, <1>5 DEF Precedes
  <2>2. j # 1 /\ j - 1 \in DOMAIN Tail(q) /\ Tail(q)[j - 1] = m /\ j - 1 < k
    BY <1>1, <1>2, <1>3, <1>5, <2>1
  <2> QED BY <2>2
<1> QED BY <1>4, <1>5 DEF Precedes

-----------------------------------------------------------------------------
(* The inductive invariant.                                                *)

\* Before roundTrip sends its call, nothing of it is anywhere.
Untouched ==
    \A i \in Calls :
       caller[i] \in {"idle", "sending"} =>
          /\ work[i] = "none" /\ i \notin streams /\ notified[i] = 0
          /\ caller[i] = "idle" => i \notin pending
          /\ \A t \in ToRunner : ~InFlight(toRunner, Message(t, i))

\* A call is sent once: it is on its way, or the runner has read it.
SentOnce ==
    \A i \in Calls :
       /\ Once(toRunner, Message("call", i))
       /\ InFlight(toRunner, Message("call", i)) => work[i] = "none"

\* The runner answers once, before its pumps start: nothing of a call arrives
\* before its result was written, and the result before the end of the stream.
Answered ==
    \A i \in Calls :
       /\ work[i] \in {"none", "opening", "cancelled", "opened", "failed"} =>
             \A t \in ToServer : ~InFlight(toServer, Message(t, i))
       /\ NoneAfter(toServer, Message("opened", i), Message("closed", i))

\* As long as the call is pending, its result is still to be read before any
\* output of its terminal.
ResultFirst ==
    \A i \in pending :
       /\ work[i] \in Pumping /\ ~broken => InFlight(toServer, Message("opened", i))
       /\ Precedes(toServer, Message("opened", i), Message("frame", i))

\* A stream the runner was told to close is none of the server's any more, and
\* its call is over.
Told ==
    \A i \in Calls :
       /\ notified[i] <= 1
       /\ notified[i] # 0 => i \in closedStreams /\ i \notin streams /\ i \notin pending
       /\ i \in streams => i \notin pending
       /\ work[i] = "closing" \/ InFlight(toRunner, Message("close", i)) => notified[i] # 0

\* A stream that is open at the server, or will be, is open at the runner, or
\* its end is on the way.
Learns ==
    /\ rgone => broken
    /\ \A i \in Calls :
          /\ i \in streams \/ work[i] = "opened" \/ InFlight(toServer, Message("opened", i))
          /\ notified[i] = 0 /\ ~broken
          => i \in rstreams \/ InFlight(toServer, Message("closed", i))

CallsInv == TypeOK /\ Untouched /\ SentOnce /\ Answered /\ ResultFirst /\ Told /\ Learns

-----------------------------------------------------------------------------
(* What the steps do to the two queues.                                    *)

\* Messages differ in their type or their call.
LEMMA MessageEq ==
    \A t, u, i, j : Message(t, i) = Message(u, j) <=> t = u /\ i = j
BY DEF Message

\* send puts its message in, or leaves the outbox as it is.
LEMMA SendQueue ==
    ASSUME TypeOK, NEW t \in ToRunner, NEW i \in Calls, Send(Message(t, i))
    PROVE  /\ toRunner' \in Seq(Messages(ToRunner)) /\ Len(toRunner') <= OutboxLimit
           /\ outClosed' \in BOOLEAN /\ broken' \in BOOLEAN /\ torn' \in BOOLEAN
           /\ broken => broken'
           /\ \A u \in ToRunner, j \in Calls :
                 /\ InFlight(toRunner', Message(u, j)) =>
                       InFlight(toRunner, Message(u, j)) \/ (u = t /\ j = i)
                 /\ /\ Once(toRunner, Message(u, j))
                    /\ (u = t /\ j = i) => ~InFlight(toRunner, Message(u, j))
                    => Once(toRunner', Message(u, j))
<1>1. Message(t, i) \in Messages(ToRunner)
  BY DEF Message, Messages
<1>2. CASE Fits
  <2>1. toRunner' = Append(toRunner, Message(t, i)) /\ toRunner \in Seq(Messages(ToRunner))
    BY <1>2 DEF Send, TypeOK
  <2>2. toRunner' \in Seq(Messages(ToRunner)) /\ Len(toRunner') <= OutboxLimit
    BY <1>1, <1>2, <2>1, CallsAssumption DEF Fits, TypeOK
  <2>3. outClosed' \in BOOLEAN /\ broken' \in BOOLEAN /\ torn' \in BOOLEAN /\ (broken => broken')
    BY DEF Send, TypeOK
  <2>4. ASSUME NEW u \in ToRunner, NEW j \in Calls
        PROVE  /\ InFlight(toRunner', Message(u, j)) =>
                     InFlight(toRunner, Message(u, j)) \/ (u = t /\ j = i)
               /\ /\ Once(toRunner, Message(u, j))
                  /\ (u = t /\ j = i) => ~InFlight(toRunner, Message(u, j))
                  => Once(toRunner', Message(u, j))
    BY <1>1, <2>1, AppendIn, AppendOnce, MessageEq
  <2> QED BY <2>2, <2>3, <2>4
<1>3. CASE ~Fits
  BY <1>3 DEF Send, TypeOK
<1> QED BY <1>2, <1>3

\* The runner reads the first message of the outbox.
LEMMA ReadQueue ==
    ASSUME TypeOK, toRunner # <<>>, toRunner' = Tail(toRunner)
    PROVE  /\ toRunner' \in Seq(Messages(ToRunner)) /\ Len(toRunner') <= OutboxLimit
           /\ \E t \in ToRunner, i \in Calls :
                 /\ Head(toRunner) = Message(t, i) /\ InFlight(toRunner, Message(t, i))
                 /\ Once(toRunner, Message(t, i)) => ~InFlight(toRunner', Message(t, i))
           /\ \A u \in ToRunner, j \in Calls :
                 /\ InFlight(toRunner', Message(u, j)) => InFlight(toRunner, Message(u, j))
                 /\ Once(toRunner, Message(u, j)) => Once(toRunner', Message(u, j))
<1>1. toRunner \in Seq(Messages(ToRunner)) /\ Len(toRunner) <= OutboxLimit
  BY DEF TypeOK
<1>2. toRunner' \in Seq(Messages(ToRunner)) /\ Len(toRunner') <= OutboxLimit
  BY <1>1, CallsAssumption
<1>3. Head(toRunner) \in Messages(ToRunner)
  BY <1>1
<1>4. PICK t \in ToRunner, i \in Calls : Head(toRunner) = Message(t, i)
  BY <1>3 DEF Message, Messages
<1>5. InFlight(toRunner, Message(t, i)) /\ (Once(toRunner, Message(t, i)) => ~InFlight(toRunner', Message(t, i)))
  BY <1>1, <1>4, TailIn, TailOnce
<1>6. ASSUME NEW m
      PROVE  /\ InFlight(toRunner', m) => InFlight(toRunner, m)
             /\ Once(toRunner, m) => Once(toRunner', m)
  BY <1>1, TailIn, TailOnce
<1> QED BY <1>2, <1>4, <1>5, <1>6

\* The runner writes a message, which a broken socket does not take.
LEMMA AnswerQueue ==
    ASSUME TypeOK, NEW t \in ToServer, NEW i \in Calls, Answer(Message(t, i))
    PROVE  /\ toServer' \in Seq(Messages(ToServer))
           /\ broken => toServer' = toServer
           /\ \A u \in ToServer, j \in Calls :
                 ~broken => (InFlight(toServer', Message(u, j)) <=>
                                InFlight(toServer, Message(u, j)) \/ (u = t /\ j = i))
           /\ \A j \in Calls :
                 /\ /\ NoneAfter(toServer, Message("opened", j), Message("closed", j))
                    /\ t = "opened" /\ j = i => ~InFlight(toServer, Message("closed", j))
                    => NoneAfter(toServer', Message("opened", j), Message("closed", j))
                 /\ /\ Precedes(toServer, Message("opened", j), Message("frame", j))
                    /\ t = "frame" /\ j = i /\ ~broken => InFlight(toServer, Message("opened", j))
                    => Precedes(toServer', Message("opened", j), Message("frame", j))
<1>1. Message(t, i) \in Messages(ToServer) /\ toServer \in Seq(Messages(ToServer))
  BY DEF Message, Messages, TypeOK
<1>2. CASE broken
  BY <1>1, <1>2 DEF Answer
<1>3. CASE ~broken
  <2>1. toServer' = Append(toServer, Message(t, i))
    BY <1>3 DEF Answer
  <2>2. toServer' \in Seq(Messages(ToServer))
    BY <1>1, <2>1
  <2>3. \A u \in ToServer, j \in Calls :
           InFlight(toServer', Message(u, j)) <=> InFlight(toServer, Message(u, j)) \/ (u = t /\ j = i)
    BY <1>1, <2>1, AppendIn, MessageEq
  <2>4. \A j \in Calls :
           /\ NoneAfter(toServer, Message("opened", j), Message("closed", j))
           /\ t = "opened" /\ j = i => ~InFlight(toServer, Message("closed", j))
           => NoneAfter(toServer', Message("opened", j), Message("closed", j))
    BY <1>1, <2>1, AppendAfter, MessageEq
  <2>5. \A j \in Calls :
           /\ Precedes(toServer, Message("opened", j), Message("frame", j))
           /\ t = "frame" /\ j = i /\ ~broken => InFlight(toServer, Message("opened", j))
           => Precedes(toServer', Message("opened", j), Message("frame", j))
    BY <1>1, <1>3, <2>1, AppendPrecedes, MessageEq
  <2> QED BY <1>3, <2>2, <2>3, <2>4, <2>5
<1> QED BY <1>2, <1>3

\* The server reads the first message that arrived.
LEMMA IncomingQueue ==
    ASSUME TypeOK, NEW t \in ToServer, NEW i \in Calls, Incoming(t, i)
    PROVE  /\ toServer' \in Seq(Messages(ToServer))
           /\ InFlight(toServer, Message(t, i))
           /\ \A u \in ToServer, j \in Calls :
                 /\ InFlight(toServer', Message(u, j)) => InFlight(toServer, Message(u, j))
                 /\ InFlight(toServer, Message(u, j)) /\ ~(u = t /\ j = i) => InFlight(toServer', Message(u, j))
           /\ \A j \in Calls :
                 /\ NoneAfter(toServer, Message("opened", j), Message("closed", j)) =>
                       /\ NoneAfter(toServer', Message("opened", j), Message("closed", j))
                       /\ t = "closed" /\ j = i => ~InFlight(toServer', Message("opened", j))
                 /\ Precedes(toServer, Message("opened", j), Message("frame", j)) =>
                       /\ ~(t = "frame" /\ j = i)
                       /\ ~(t = "opened" /\ j = i) => Precedes(toServer', Message("opened", j), Message("frame", j))
<1>1. /\ toServer \in Seq(Messages(ToServer)) /\ toServer # <<>>
      /\ Head(toServer) = Message(t, i) /\ toServer' = Tail(toServer)
  BY DEF Incoming, TypeOK
<1>2. toServer' \in Seq(Messages(ToServer))
  BY <1>1
<1>3. \A m : InFlight(toServer, m) <=> Message(t, i) = m \/ InFlight(toServer', m)
  BY <1>1, TailIn
<1>4. \A j \in Calls :
         NoneAfter(toServer, Message("opened", j), Message("closed", j)) =>
            /\ NoneAfter(toServer', Message("opened", j), Message("closed", j))
            /\ t = "closed" /\ j = i => ~InFlight(toServer', Message("opened", j))
  BY <1>1, TailAfter
<1>5. \A j \in Calls :
         Precedes(toServer, Message("opened", j), Message("frame", j)) =>
            /\ ~(t = "frame" /\ j = i)
            /\ ~(t = "opened" /\ j = i) => Precedes(toServer', Message("opened", j), Message("frame", j))
  BY <1>1, TailPrecedes, MessageEq
<1> QED BY <1>2, <1>3, <1>4, <1>5, MessageEq

\* A message that the runner reads concerns one call: a call starts to work, a
\* cancel reaches one that opens its terminal, a close one that pumps.
LEMMA ReadWork ==
    ASSUME TypeOK, Read, NEW t \in ToRunner, NEW i \in Calls, Head(toRunner) = Message(t, i)
    PROVE  /\ \A j \in Calls \ {i} : work'[j] = work[j]
           /\ \/ t = "call" /\ work'[i] = "opening"
              \/ t = "cancel" /\ work[i] = "opening" /\ work'[i] = "cancelled"
              \/ t = "close" /\ work[i] = "pumping" /\ work'[i] = "closing"
              \/ t # "call" /\ work'[i] = work[i]
<1>1. Message(t, i).type = t /\ Message(t, i).id = i
  BY DEF Message
<1>2. work' = [work EXCEPT ![i] = CASE t = "call" -> "opening"
                                    [] t = "cancel" /\ @ = "opening" -> "cancelled"
                                    [] t = "close" /\ @ = "pumping" -> "closing"
                                    [] OTHER -> @]
  BY <1>1 DEF Read
<1>3. CASE t = "call"
  BY <1>2, <1>3 DEF TypeOK
<1>4. CASE t = "cancel"
  BY <1>2, <1>4 DEF TypeOK
<1>5. CASE t = "close"
  BY <1>2, <1>5 DEF TypeOK
<1> QED BY <1>3, <1>4, <1>5 DEF ToRunner

\* closeStream keeps the types of what it changes.
LEMMA CloseType ==
    ASSUME TypeOK, NEW i \in Calls, CloseStream(i)
    PROVE  /\ streams' \subseteq Calls /\ closedStreams' \subseteq Calls /\ notified' \in [Calls -> Nat]
           /\ toRunner' \in Seq(Messages(ToRunner)) /\ Len(toRunner') <= OutboxLimit
           /\ {outClosed', torn', broken'} \subseteq BOOLEAN
<1>1. streams' \subseteq Calls /\ closedStreams' \subseteq Calls
  BY DEF CloseStream, TypeOK
<1>2. CASE Tells(i)
  <2>1. Send(Message("close", i)) /\ notified' = [notified EXCEPT ![i] = @ + 1]
    BY <1>2 DEF CloseStream
  <2>2. notified' \in [Calls -> Nat]
    BY <2>1 DEF TypeOK
  <2>3. /\ toRunner' \in Seq(Messages(ToRunner)) /\ Len(toRunner') <= OutboxLimit
        /\ {outClosed', torn', broken'} \subseteq BOOLEAN
    BY <2>1, SendQueue DEF ToRunner
  <2> QED BY <1>1, <2>2, <2>3
<1>3. CASE ~Tells(i)
  BY <1>1, <1>3 DEF CloseStream, SendNothing, outVars, TypeOK
<1> QED BY <1>2, <1>3

-----------------------------------------------------------------------------
(* Every step keeps it.                                                    *)

\* Every step keeps the types.
LEMMA TypeStep ==
    ASSUME TypeOK, Next
    PROVE  TypeOK'
<1> USE MessageEq DEF serverVars, outVars, runnerVars, TypeOK, ToRunner, ToServer, SendNothing, Message, Messages
<1>1. ASSUME NEW i \in Calls, Begin(i) PROVE TypeOK'
  BY <1>1 DEF Begin, CallerFrame
<1>2. ASSUME NEW i \in Calls, SendCall(i) PROVE TypeOK'
  BY <1>2, SendQueue DEF SendCall, CallerFrame, Fits
<1>3. ASSUME NEW i \in Calls, Return(i) PROVE TypeOK'
  BY <1>3 DEF Return, CallerFrame
<1>4. ASSUME NEW i \in Calls, ReturnDisconnected(i) PROVE TypeOK'
  BY <1>4 DEF ReturnDisconnected, CallerFrame
<1>5. ASSUME NEW i \in Calls, GiveUp(i) PROVE TypeOK'
  BY <1>5 DEF GiveUp, CallerFrame
<1>6. ASSUME NEW i \in Calls, Abandon(i) PROVE TypeOK'
  <2>1. UNCHANGED <<pending, held, delivering, toServer, runnerVars>> /\ caller' \in [Calls -> {"idle", "sending", "waiting", "forgotten", "cancelling", "returned"}]
        /\ results' \in [Calls -> {"empty", "opened", "failed"}]
    BY <1>6 DEF Abandon, CallerFrame
  <2>2. CASE CloseStream(i)
    BY <2>1, <2>2, CloseType
  <2>3. CASE ~CloseStream(i)
    BY <1>6, <2>1, <2>3 DEF Abandon
  <2> QED BY <2>2, <2>3
<1>7. ASSUME NEW i \in Calls, SendCancel(i) PROVE TypeOK'
  BY <1>7, SendQueue DEF SendCancel, CallerFrame
<1>8. ASSUME NEW i \in Calls, Close(i) PROVE TypeOK'
  <2>1. UNCHANGED <<caller, pending, results, delivering, toServer, runnerVars>> /\ held' \subseteq Calls
    BY <1>8 DEF Close, CallerFrame
  <2>2. CASE CloseStream(i)
    BY <2>1, <2>2, CloseType
  <2>3. CASE ~CloseStream(i)
    BY <1>8, <2>1, <2>3 DEF Close
  <2> QED BY <2>2, <2>3
<1>9. ASSUME NEW i \in Calls, HandleResult(i) PROVE TypeOK'
  <2>1. PICK t \in {"opened", "failed"} :
           /\ Incoming(t, i)
           /\ delivering' = IF i \in pending THEN {Message(t, i)} ELSE {}
           /\ streams' = IF i \in pending /\ t = "opened" THEN streams \cup {i} ELSE streams
    BY <1>9 DEF HandleResult
  <2>2. toServer' \in Seq(Messages(ToServer))
    BY <2>1, IncomingQueue
  <2>3. delivering' \subseteq Messages({"opened", "failed"}) /\ streams' \subseteq Calls
    BY <2>1
  <2> QED BY <1>9, <2>2, <2>3 DEF HandleResult, LoopFrame
<1>10. ASSUME NEW i \in Calls, HandleFrame(i) PROVE TypeOK'
  <2>1. UNCHANGED <<caller, pending, results, delivering, runnerVars>> /\ held' \subseteq Calls
    BY <1>10 DEF HandleFrame, LoopFrame
  <2>2. streams' \subseteq Calls /\ closedStreams' \subseteq Calls /\ notified' \in [Calls -> Nat]
    BY <1>10 DEF HandleFrame, CloseStream
  <2>3. /\ toRunner' \in Seq(Messages(ToRunner)) /\ Len(toRunner') <= OutboxLimit
        /\ {outClosed', torn', broken'} \subseteq BOOLEAN
    BY <1>10, SendQueue DEF HandleFrame, CloseStream
  <2>4. toServer' \in Seq(Messages(ToServer))
    BY <1>10, IncomingQueue DEF HandleFrame
  <2> QED BY <2>1, <2>2, <2>3, <2>4
<1>11. ASSUME NEW i \in Calls, HandleStreamClosed(i) PROVE TypeOK'
  BY <1>11, IncomingQueue DEF HandleStreamClosed, LoopFrame
<1>12. ASSUME NEW i \in Calls, Open(i) PROVE TypeOK'
  BY <1>12 DEF Open, RunnerFrame
<1>13. ASSUME NEW i \in Calls, SendResult(i) PROVE TypeOK'
  BY <1>13, AnswerQueue DEF SendResult, RunnerFrame
<1>14. ASSUME NEW i \in Calls, CloseTerminal(i) PROVE TypeOK'
  BY <1>14 DEF CloseTerminal, RunnerFrame
<1>15. ASSUME NEW i \in Calls, Output(i) PROVE TypeOK'
  <2>1. toServer' \in Seq(Messages(ToServer))
    BY <1>15, AnswerQueue DEF Output
  <2> QED BY <1>15, <2>1 DEF Output, RunnerFrame
<1>16. ASSUME NEW i \in Calls, EndOfOutput(i) PROVE TypeOK'
  BY <1>16, AnswerQueue DEF EndOfOutput, RunnerFrame
<1>17. ASSUME NEW m \in delivering, Deliver(m) PROVE TypeOK'
  BY <1>17 DEF Deliver, LoopFrame
<1>18. CASE Teardown
  BY <1>18 DEF Teardown, LoopFrame
<1>19. CASE Break
  BY <1>19 DEF Break
<1>20. CASE Read
  BY <1>20, ReadQueue DEF Read, RunnerFrame
<1>21. CASE SessionEnds
  BY <1>21 DEF SessionEnds, RunnerFrame
<1> QED BY <1>1, <1>2, <1>3, <1>4, <1>5, <1>6, <1>7, <1>8, <1>9, <1>10, <1>11, <1>12,
           <1>13, <1>14, <1>15, <1>16, <1>17, <1>18, <1>19, <1>20, <1>21
        DEF Next, CallerSteps, LoopSteps, RunnerSteps

\* Every step keeps Untouched.
LEMMA UntouchedStep ==
    ASSUME TypeOK, Untouched, Answered, Next
    PROVE  Untouched'
<1> USE MessageEq DEF serverVars, outVars, runnerVars, TypeOK, ToRunner, ToServer, SendNothing, Untouched, Answered
<1>1. ASSUME NEW i \in Calls, Begin(i) PROVE Untouched'
  BY <1>1 DEF Begin, CallerFrame
<1>2. ASSUME NEW i \in Calls, SendCall(i) PROVE Untouched'
  BY <1>2, SendQueue DEF SendCall, CallerFrame, Fits
<1>3. ASSUME NEW i \in Calls, Return(i) PROVE Untouched'
  BY <1>3 DEF Return, CallerFrame
<1>4. ASSUME NEW i \in Calls, ReturnDisconnected(i) PROVE Untouched'
  BY <1>4 DEF ReturnDisconnected, CallerFrame
<1>5. ASSUME NEW i \in Calls, GiveUp(i) PROVE Untouched'
  BY <1>5 DEF GiveUp, CallerFrame
<1>6. ASSUME NEW i \in Calls, Abandon(i) PROVE Untouched'
  BY <1>6, SendQueue DEF Abandon, CallerFrame, CloseStream, Tells
<1>7. ASSUME NEW i \in Calls, SendCancel(i) PROVE Untouched'
  BY <1>7, SendQueue DEF SendCancel, CallerFrame
<1>8. ASSUME NEW i \in Calls, Close(i) PROVE Untouched'
  BY <1>8, SendQueue DEF Close, CallerFrame, CloseStream, Tells
<1>9. ASSUME NEW i \in Calls, HandleResult(i) PROVE Untouched'
  BY <1>9, IncomingQueue DEF HandleResult, LoopFrame
<1>10. ASSUME NEW i \in Calls, HandleFrame(i) PROVE Untouched'
  BY <1>10, SendQueue, IncomingQueue DEF HandleFrame, LoopFrame, CloseStream, Tells
<1>11. ASSUME NEW i \in Calls, HandleStreamClosed(i) PROVE Untouched'
  BY <1>11, IncomingQueue DEF HandleStreamClosed, LoopFrame
<1>12. ASSUME NEW i \in Calls, Open(i) PROVE Untouched'
  BY <1>12 DEF Open, RunnerFrame
<1>13. ASSUME NEW i \in Calls, SendResult(i) PROVE Untouched'
  BY <1>13, AnswerQueue DEF SendResult, RunnerFrame
<1>14. ASSUME NEW i \in Calls, CloseTerminal(i) PROVE Untouched'
  BY <1>14 DEF CloseTerminal, RunnerFrame
<1>15. ASSUME NEW i \in Calls, Output(i) PROVE Untouched'
  BY <1>15, AnswerQueue DEF Output, RunnerFrame
<1>16. ASSUME NEW i \in Calls, EndOfOutput(i) PROVE Untouched'
  BY <1>16, AnswerQueue DEF EndOfOutput, RunnerFrame
<1>17. ASSUME NEW m \in delivering, Deliver(m) PROVE Untouched'
  BY <1>17 DEF Deliver, LoopFrame
<1>18. CASE Teardown
  BY <1>18 DEF Teardown, LoopFrame
<1>19. CASE Break
  BY <1>19 DEF Break
<1>20. CASE Read
  <2>1. PICK t \in ToRunner, i \in Calls :
           /\ Head(toRunner) = Message(t, i) /\ InFlight(toRunner, Message(t, i))
           /\ Once(toRunner, Message(t, i)) => ~InFlight(toRunner', Message(t, i))
    BY <1>20, ReadQueue DEF Read
  <2>2. \A u \in ToRunner, j \in Calls :
           /\ InFlight(toRunner', Message(u, j)) => InFlight(toRunner, Message(u, j))
           /\ Once(toRunner, Message(u, j)) => Once(toRunner', Message(u, j))
    BY <1>20, ReadQueue DEF Read
  <2>3. /\ \A j \in Calls \ {i} : work'[j] = work[j]
        /\ \/ t = "call" /\ work'[i] = "opening"
           \/ t = "cancel" /\ work[i] = "opening" /\ work'[i] = "cancelled"
           \/ t = "close" /\ work[i] = "pumping" /\ work'[i] = "closing"
           \/ t # "call" /\ work'[i] = work[i]
    BY <1>20, <2>1, ReadWork
  <2>4. UNCHANGED <<serverVars, outClosed, torn, broken, notified, toServer, rstreams, rgone, frames>>
    BY <1>20 DEF Read, RunnerFrame
  <2> QED BY <2>1, <2>2, <2>3, <2>4
<1>21. CASE SessionEnds
  BY <1>21 DEF SessionEnds, RunnerFrame
<1> QED BY <1>1, <1>2, <1>3, <1>4, <1>5, <1>6, <1>7, <1>8, <1>9, <1>10, <1>11, <1>12,
           <1>13, <1>14, <1>15, <1>16, <1>17, <1>18, <1>19, <1>20, <1>21
        DEF Next, CallerSteps, LoopSteps, RunnerSteps

\* Every step keeps SentOnce.
LEMMA SentOnceStep ==
    ASSUME TypeOK, Untouched, SentOnce, Next
    PROVE  SentOnce'
<1> USE MessageEq DEF serverVars, outVars, runnerVars, TypeOK, ToRunner, ToServer, SendNothing, Untouched, SentOnce
<1>1. ASSUME NEW i \in Calls, Begin(i) PROVE SentOnce'
  BY <1>1 DEF Begin, CallerFrame
<1>2. ASSUME NEW i \in Calls, SendCall(i) PROVE SentOnce'
  BY <1>2, SendQueue DEF SendCall, CallerFrame, Fits
<1>3. ASSUME NEW i \in Calls, Return(i) PROVE SentOnce'
  BY <1>3 DEF Return, CallerFrame
<1>4. ASSUME NEW i \in Calls, ReturnDisconnected(i) PROVE SentOnce'
  BY <1>4 DEF ReturnDisconnected, CallerFrame
<1>5. ASSUME NEW i \in Calls, GiveUp(i) PROVE SentOnce'
  BY <1>5 DEF GiveUp, CallerFrame
<1>6. ASSUME NEW i \in Calls, Abandon(i) PROVE SentOnce'
  BY <1>6, SendQueue DEF Abandon, CallerFrame, CloseStream, Tells
<1>7. ASSUME NEW i \in Calls, SendCancel(i) PROVE SentOnce'
  BY <1>7, SendQueue DEF SendCancel, CallerFrame
<1>8. ASSUME NEW i \in Calls, Close(i) PROVE SentOnce'
  BY <1>8, SendQueue DEF Close, CallerFrame, CloseStream, Tells
<1>9. ASSUME NEW i \in Calls, HandleResult(i) PROVE SentOnce'
  BY <1>9, IncomingQueue DEF HandleResult, LoopFrame
<1>10. ASSUME NEW i \in Calls, HandleFrame(i) PROVE SentOnce'
  BY <1>10, SendQueue, IncomingQueue DEF HandleFrame, LoopFrame, CloseStream, Tells
<1>11. ASSUME NEW i \in Calls, HandleStreamClosed(i) PROVE SentOnce'
  BY <1>11, IncomingQueue DEF HandleStreamClosed, LoopFrame
<1>12. ASSUME NEW i \in Calls, Open(i) PROVE SentOnce'
  BY <1>12 DEF Open, RunnerFrame
<1>13. ASSUME NEW i \in Calls, SendResult(i) PROVE SentOnce'
  BY <1>13, AnswerQueue DEF SendResult, RunnerFrame
<1>14. ASSUME NEW i \in Calls, CloseTerminal(i) PROVE SentOnce'
  BY <1>14 DEF CloseTerminal, RunnerFrame
<1>15. ASSUME NEW i \in Calls, Output(i) PROVE SentOnce'
  BY <1>15, AnswerQueue DEF Output, RunnerFrame
<1>16. ASSUME NEW i \in Calls, EndOfOutput(i) PROVE SentOnce'
  BY <1>16, AnswerQueue DEF EndOfOutput, RunnerFrame
<1>17. ASSUME NEW m \in delivering, Deliver(m) PROVE SentOnce'
  BY <1>17 DEF Deliver, LoopFrame
<1>18. CASE Teardown
  BY <1>18 DEF Teardown, LoopFrame
<1>19. CASE Break
  BY <1>19 DEF Break
<1>20. CASE Read
  <2>1. PICK t \in ToRunner, i \in Calls :
           /\ Head(toRunner) = Message(t, i) /\ InFlight(toRunner, Message(t, i))
           /\ Once(toRunner, Message(t, i)) => ~InFlight(toRunner', Message(t, i))
    BY <1>20, ReadQueue DEF Read
  <2>2. \A u \in ToRunner, j \in Calls :
           /\ InFlight(toRunner', Message(u, j)) => InFlight(toRunner, Message(u, j))
           /\ Once(toRunner, Message(u, j)) => Once(toRunner', Message(u, j))
    BY <1>20, ReadQueue DEF Read
  <2>3. /\ \A j \in Calls \ {i} : work'[j] = work[j]
        /\ \/ t = "call" /\ work'[i] = "opening"
           \/ t = "cancel" /\ work[i] = "opening" /\ work'[i] = "cancelled"
           \/ t = "close" /\ work[i] = "pumping" /\ work'[i] = "closing"
           \/ t # "call" /\ work'[i] = work[i]
    BY <1>20, <2>1, ReadWork
  <2>4. UNCHANGED <<serverVars, outClosed, torn, broken, notified, toServer, rstreams, rgone, frames>>
    BY <1>20 DEF Read, RunnerFrame
  <2> QED BY <2>1, <2>2, <2>3, <2>4
<1>21. CASE SessionEnds
  BY <1>21 DEF SessionEnds, RunnerFrame
<1> QED BY <1>1, <1>2, <1>3, <1>4, <1>5, <1>6, <1>7, <1>8, <1>9, <1>10, <1>11, <1>12,
           <1>13, <1>14, <1>15, <1>16, <1>17, <1>18, <1>19, <1>20, <1>21
        DEF Next, CallerSteps, LoopSteps, RunnerSteps

\* Every step keeps Answered.
LEMMA AnsweredStep ==
    ASSUME TypeOK, SentOnce, Answered, Next
    PROVE  Answered'
<1> USE MessageEq DEF serverVars, outVars, runnerVars, TypeOK, ToRunner, ToServer, SendNothing, SentOnce, Answered, Pumping
<1>1. ASSUME NEW i \in Calls, Begin(i) PROVE Answered'
  BY <1>1 DEF Begin, CallerFrame
<1>2. ASSUME NEW i \in Calls, SendCall(i) PROVE Answered'
  BY <1>2, SendQueue DEF SendCall, CallerFrame, Fits
<1>3. ASSUME NEW i \in Calls, Return(i) PROVE Answered'
  BY <1>3 DEF Return, CallerFrame
<1>4. ASSUME NEW i \in Calls, ReturnDisconnected(i) PROVE Answered'
  BY <1>4 DEF ReturnDisconnected, CallerFrame
<1>5. ASSUME NEW i \in Calls, GiveUp(i) PROVE Answered'
  BY <1>5 DEF GiveUp, CallerFrame
<1>6. ASSUME NEW i \in Calls, Abandon(i) PROVE Answered'
  BY <1>6, SendQueue DEF Abandon, CallerFrame, CloseStream, Tells
<1>7. ASSUME NEW i \in Calls, SendCancel(i) PROVE Answered'
  BY <1>7, SendQueue DEF SendCancel, CallerFrame
<1>8. ASSUME NEW i \in Calls, Close(i) PROVE Answered'
  BY <1>8, SendQueue DEF Close, CallerFrame, CloseStream, Tells
<1>9. ASSUME NEW i \in Calls, HandleResult(i) PROVE Answered'
  BY <1>9, IncomingQueue DEF HandleResult, LoopFrame
<1>10. ASSUME NEW i \in Calls, HandleFrame(i) PROVE Answered'
  BY <1>10, SendQueue, IncomingQueue DEF HandleFrame, LoopFrame, CloseStream, Tells
<1>11. ASSUME NEW i \in Calls, HandleStreamClosed(i) PROVE Answered'
  BY <1>11, IncomingQueue DEF HandleStreamClosed, LoopFrame
<1>12. ASSUME NEW i \in Calls, Open(i) PROVE Answered'
  BY <1>12 DEF Open, RunnerFrame
<1>13. ASSUME NEW i \in Calls, SendResult(i) PROVE Answered'
  BY <1>13, AnswerQueue DEF SendResult, RunnerFrame
<1>14. ASSUME NEW i \in Calls, CloseTerminal(i) PROVE Answered'
  BY <1>14 DEF CloseTerminal, RunnerFrame
<1>15. ASSUME NEW i \in Calls, Output(i) PROVE Answered'
  BY <1>15, AnswerQueue DEF Output, RunnerFrame
<1>16. ASSUME NEW i \in Calls, EndOfOutput(i) PROVE Answered'
  BY <1>16, AnswerQueue DEF EndOfOutput, RunnerFrame
<1>17. ASSUME NEW m \in delivering, Deliver(m) PROVE Answered'
  BY <1>17 DEF Deliver, LoopFrame
<1>18. CASE Teardown
  BY <1>18 DEF Teardown, LoopFrame
<1>19. CASE Break
  BY <1>19 DEF Break
<1>20. CASE Read
  <2>1. PICK t \in ToRunner, i \in Calls :
           /\ Head(toRunner) = Message(t, i) /\ InFlight(toRunner, Message(t, i))
           /\ Once(toRunner, Message(t, i)) => ~InFlight(toRunner', Message(t, i))
    BY <1>20, ReadQueue DEF Read
  <2>2. \A u \in ToRunner, j \in Calls :
           /\ InFlight(toRunner', Message(u, j)) => InFlight(toRunner, Message(u, j))
           /\ Once(toRunner, Message(u, j)) => Once(toRunner', Message(u, j))
    BY <1>20, ReadQueue DEF Read
  <2>3. /\ \A j \in Calls \ {i} : work'[j] = work[j]
        /\ \/ t = "call" /\ work'[i] = "opening"
           \/ t = "cancel" /\ work[i] = "opening" /\ work'[i] = "cancelled"
           \/ t = "close" /\ work[i] = "pumping" /\ work'[i] = "closing"
           \/ t # "call" /\ work'[i] = work[i]
    BY <1>20, <2>1, ReadWork
  <2>4. UNCHANGED <<serverVars, outClosed, torn, broken, notified, toServer, rstreams, rgone, frames>>
    BY <1>20 DEF Read, RunnerFrame
  <2> QED BY <2>1, <2>2, <2>3, <2>4
<1>21. CASE SessionEnds
  BY <1>21 DEF SessionEnds, RunnerFrame
<1> QED BY <1>1, <1>2, <1>3, <1>4, <1>5, <1>6, <1>7, <1>8, <1>9, <1>10, <1>11, <1>12,
           <1>13, <1>14, <1>15, <1>16, <1>17, <1>18, <1>19, <1>20, <1>21
        DEF Next, CallerSteps, LoopSteps, RunnerSteps

\* Every step keeps ResultFirst.
LEMMA ResultFirstStep ==
    ASSUME TypeOK, Untouched, Answered, ResultFirst, Next
    PROVE  ResultFirst'
<1> USE MessageEq DEF serverVars, outVars, runnerVars, TypeOK, ToRunner, ToServer, SendNothing, Untouched, Answered, ResultFirst, Pumping
<1>1. ASSUME NEW i \in Calls, Begin(i) PROVE ResultFirst'
  <2>1. work[i] = "none" /\ Precedes(toServer, Message("opened", i), Message("frame", i))
    BY <1>1 DEF Begin, Precedes, InFlight
  <2>2. pending' \subseteq pending \cup {i} /\ UNCHANGED <<work, broken, toServer>>
    BY <1>1 DEF Begin, CallerFrame
  <2> QED BY <2>1, <2>2
<1>2. ASSUME NEW i \in Calls, SendCall(i) PROVE ResultFirst'
  BY <1>2, SendQueue DEF SendCall, CallerFrame, Fits
<1>3. ASSUME NEW i \in Calls, Return(i) PROVE ResultFirst'
  BY <1>3 DEF Return, CallerFrame
<1>4. ASSUME NEW i \in Calls, ReturnDisconnected(i) PROVE ResultFirst'
  BY <1>4 DEF ReturnDisconnected, CallerFrame
<1>5. ASSUME NEW i \in Calls, GiveUp(i) PROVE ResultFirst'
  BY <1>5 DEF GiveUp, CallerFrame
<1>6. ASSUME NEW i \in Calls, Abandon(i) PROVE ResultFirst'
  BY <1>6, SendQueue DEF Abandon, CallerFrame, CloseStream, Tells
<1>7. ASSUME NEW i \in Calls, SendCancel(i) PROVE ResultFirst'
  BY <1>7, SendQueue DEF SendCancel, CallerFrame
<1>8. ASSUME NEW i \in Calls, Close(i) PROVE ResultFirst'
  BY <1>8, SendQueue DEF Close, CallerFrame, CloseStream, Tells
<1>9. ASSUME NEW i \in Calls, HandleResult(i) PROVE ResultFirst'
  BY <1>9, IncomingQueue DEF HandleResult, LoopFrame
<1>10. ASSUME NEW i \in Calls, HandleFrame(i) PROVE ResultFirst'
  BY <1>10, SendQueue, IncomingQueue DEF HandleFrame, LoopFrame, CloseStream, Tells
<1>11. ASSUME NEW i \in Calls, HandleStreamClosed(i) PROVE ResultFirst'
  BY <1>11, IncomingQueue DEF HandleStreamClosed, LoopFrame
<1>12. ASSUME NEW i \in Calls, Open(i) PROVE ResultFirst'
  BY <1>12 DEF Open, RunnerFrame
<1>13. ASSUME NEW i \in Calls, SendResult(i) PROVE ResultFirst'
  BY <1>13, AnswerQueue DEF SendResult, RunnerFrame
<1>14. ASSUME NEW i \in Calls, CloseTerminal(i) PROVE ResultFirst'
  BY <1>14 DEF CloseTerminal, RunnerFrame
<1>15. ASSUME NEW i \in Calls, Output(i) PROVE ResultFirst'
  BY <1>15, AnswerQueue DEF Output, RunnerFrame
<1>16. ASSUME NEW i \in Calls, EndOfOutput(i) PROVE ResultFirst'
  BY <1>16, AnswerQueue DEF EndOfOutput, RunnerFrame
<1>17. ASSUME NEW m \in delivering, Deliver(m) PROVE ResultFirst'
  BY <1>17 DEF Deliver, LoopFrame
<1>18. CASE Teardown
  BY <1>18 DEF Teardown, LoopFrame
<1>19. CASE Break
  BY <1>19 DEF Break
<1>20. CASE Read
  BY <1>20, ReadQueue DEF Read, RunnerFrame
<1>21. CASE SessionEnds
  BY <1>21 DEF SessionEnds, RunnerFrame
<1> QED BY <1>1, <1>2, <1>3, <1>4, <1>5, <1>6, <1>7, <1>8, <1>9, <1>10, <1>11, <1>12,
           <1>13, <1>14, <1>15, <1>16, <1>17, <1>18, <1>19, <1>20, <1>21
        DEF Next, CallerSteps, LoopSteps, RunnerSteps

\* Every step keeps Told.
LEMMA ToldStep ==
    ASSUME TypeOK, Untouched, ResultFirst, Told, Next
    PROVE  Told'
<1> USE MessageEq DEF serverVars, outVars, runnerVars, TypeOK, ToRunner, ToServer, SendNothing, Untouched, ResultFirst, Told
<1>1. ASSUME NEW i \in Calls, Begin(i) PROVE Told'
  BY <1>1 DEF Begin, CallerFrame
<1>2. ASSUME NEW i \in Calls, SendCall(i) PROVE Told'
  BY <1>2, SendQueue DEF SendCall, CallerFrame, Fits
<1>3. ASSUME NEW i \in Calls, Return(i) PROVE Told'
  BY <1>3 DEF Return, CallerFrame
<1>4. ASSUME NEW i \in Calls, ReturnDisconnected(i) PROVE Told'
  BY <1>4 DEF ReturnDisconnected, CallerFrame
<1>5. ASSUME NEW i \in Calls, GiveUp(i) PROVE Told'
  BY <1>5 DEF GiveUp, CallerFrame
<1>6. ASSUME NEW i \in Calls, Abandon(i) PROVE Told'
  BY <1>6, SendQueue DEF Abandon, CallerFrame, CloseStream, Tells
<1>7. ASSUME NEW i \in Calls, SendCancel(i) PROVE Told'
  BY <1>7, SendQueue DEF SendCancel, CallerFrame
<1>8. ASSUME NEW i \in Calls, Close(i) PROVE Told'
  BY <1>8, SendQueue DEF Close, CallerFrame, CloseStream, Tells
<1>9. ASSUME NEW i \in Calls, HandleResult(i) PROVE Told'
  BY <1>9, IncomingQueue DEF HandleResult, LoopFrame
<1>10. ASSUME NEW i \in Calls, HandleFrame(i) PROVE Told'
  BY <1>10, SendQueue, IncomingQueue DEF HandleFrame, LoopFrame, CloseStream, Tells
<1>11. ASSUME NEW i \in Calls, HandleStreamClosed(i) PROVE Told'
  BY <1>11, IncomingQueue DEF HandleStreamClosed, LoopFrame
<1>12. ASSUME NEW i \in Calls, Open(i) PROVE Told'
  BY <1>12 DEF Open, RunnerFrame
<1>13. ASSUME NEW i \in Calls, SendResult(i) PROVE Told'
  BY <1>13, AnswerQueue DEF SendResult, RunnerFrame
<1>14. ASSUME NEW i \in Calls, CloseTerminal(i) PROVE Told'
  BY <1>14 DEF CloseTerminal, RunnerFrame
<1>15. ASSUME NEW i \in Calls, Output(i) PROVE Told'
  BY <1>15, AnswerQueue DEF Output, RunnerFrame
<1>16. ASSUME NEW i \in Calls, EndOfOutput(i) PROVE Told'
  BY <1>16, AnswerQueue DEF EndOfOutput, RunnerFrame
<1>17. ASSUME NEW m \in delivering, Deliver(m) PROVE Told'
  BY <1>17 DEF Deliver, LoopFrame
<1>18. CASE Teardown
  BY <1>18 DEF Teardown, LoopFrame
<1>19. CASE Break
  BY <1>19 DEF Break
<1>20. CASE Read
  <2>1. PICK t \in ToRunner, i \in Calls :
           /\ Head(toRunner) = Message(t, i) /\ InFlight(toRunner, Message(t, i))
           /\ Once(toRunner, Message(t, i)) => ~InFlight(toRunner', Message(t, i))
    BY <1>20, ReadQueue DEF Read
  <2>2. \A u \in ToRunner, j \in Calls :
           /\ InFlight(toRunner', Message(u, j)) => InFlight(toRunner, Message(u, j))
           /\ Once(toRunner, Message(u, j)) => Once(toRunner', Message(u, j))
    BY <1>20, ReadQueue DEF Read
  <2>3. /\ \A j \in Calls \ {i} : work'[j] = work[j]
        /\ \/ t = "call" /\ work'[i] = "opening"
           \/ t = "cancel" /\ work[i] = "opening" /\ work'[i] = "cancelled"
           \/ t = "close" /\ work[i] = "pumping" /\ work'[i] = "closing"
           \/ t # "call" /\ work'[i] = work[i]
    BY <1>20, <2>1, ReadWork
  <2>4. UNCHANGED <<serverVars, outClosed, torn, broken, notified, toServer, rstreams, rgone, frames>>
    BY <1>20 DEF Read, RunnerFrame
  <2> QED BY <2>1, <2>2, <2>3, <2>4
<1>21. CASE SessionEnds
  BY <1>21 DEF SessionEnds, RunnerFrame
<1> QED BY <1>1, <1>2, <1>3, <1>4, <1>5, <1>6, <1>7, <1>8, <1>9, <1>10, <1>11, <1>12,
           <1>13, <1>14, <1>15, <1>16, <1>17, <1>18, <1>19, <1>20, <1>21
        DEF Next, CallerSteps, LoopSteps, RunnerSteps

\* Every step keeps Learns.
LEMMA LearnsStep ==
    ASSUME TypeOK, Answered, Told, Learns, Next
    PROVE  Learns'
<1> USE MessageEq DEF serverVars, outVars, runnerVars, TypeOK, ToRunner, ToServer, SendNothing, Answered, Told, Learns, Pumping
<1>1. ASSUME NEW i \in Calls, Begin(i) PROVE Learns'
  BY <1>1 DEF Begin, CallerFrame
<1>2. ASSUME NEW i \in Calls, SendCall(i) PROVE Learns'
  BY <1>2, SendQueue DEF SendCall, CallerFrame, Fits
<1>3. ASSUME NEW i \in Calls, Return(i) PROVE Learns'
  BY <1>3 DEF Return, CallerFrame
<1>4. ASSUME NEW i \in Calls, ReturnDisconnected(i) PROVE Learns'
  BY <1>4 DEF ReturnDisconnected, CallerFrame
<1>5. ASSUME NEW i \in Calls, GiveUp(i) PROVE Learns'
  BY <1>5 DEF GiveUp, CallerFrame
<1>6. ASSUME NEW i \in Calls, Abandon(i) PROVE Learns'
  BY <1>6, SendQueue DEF Abandon, CallerFrame, CloseStream, Tells
<1>7. ASSUME NEW i \in Calls, SendCancel(i) PROVE Learns'
  BY <1>7, SendQueue DEF SendCancel, CallerFrame
<1>8. ASSUME NEW i \in Calls, Close(i) PROVE Learns'
  BY <1>8, SendQueue DEF Close, CallerFrame, CloseStream, Tells
<1>9. ASSUME NEW i \in Calls, HandleResult(i) PROVE Learns'
  BY <1>9, IncomingQueue DEF HandleResult, LoopFrame
<1>10. ASSUME NEW i \in Calls, HandleFrame(i) PROVE Learns'
  BY <1>10, SendQueue, IncomingQueue DEF HandleFrame, LoopFrame, CloseStream, Tells
<1>11. ASSUME NEW i \in Calls, HandleStreamClosed(i) PROVE Learns'
  BY <1>11, IncomingQueue DEF HandleStreamClosed, LoopFrame
<1>12. ASSUME NEW i \in Calls, Open(i) PROVE Learns'
  BY <1>12 DEF Open, RunnerFrame
<1>13. ASSUME NEW i \in Calls, SendResult(i) PROVE Learns'
  BY <1>13, AnswerQueue DEF SendResult, RunnerFrame
<1>14. ASSUME NEW i \in Calls, CloseTerminal(i) PROVE Learns'
  BY <1>14 DEF CloseTerminal, RunnerFrame
<1>15. ASSUME NEW i \in Calls, Output(i) PROVE Learns'
  BY <1>15, AnswerQueue DEF Output, RunnerFrame
<1>16. ASSUME NEW i \in Calls, EndOfOutput(i) PROVE Learns'
  BY <1>16, AnswerQueue DEF EndOfOutput, RunnerFrame
<1>17. ASSUME NEW m \in delivering, Deliver(m) PROVE Learns'
  BY <1>17 DEF Deliver, LoopFrame
<1>18. CASE Teardown
  BY <1>18 DEF Teardown, LoopFrame
<1>19. CASE Break
  BY <1>19 DEF Break
<1>20. CASE Read
  BY <1>20, ReadQueue DEF Read, RunnerFrame
<1>21. CASE SessionEnds
  BY <1>21 DEF SessionEnds, RunnerFrame
<1> QED BY <1>1, <1>2, <1>3, <1>4, <1>5, <1>6, <1>7, <1>8, <1>9, <1>10, <1>11, <1>12,
           <1>13, <1>14, <1>15, <1>16, <1>17, <1>18, <1>19, <1>20, <1>21
        DEF Next, CallerSteps, LoopSteps, RunnerSteps


-----------------------------------------------------------------------------
(* The invariant holds, and with it the two properties.                    *)

\* The invariant holds before the first call.
LEMMA InitCalls == Init => CallsInv
<1> SUFFICES ASSUME Init PROVE CallsInv
  OBVIOUS
<1>1. TypeOK
  <2>1. /\ toRunner \in Seq(Messages(ToRunner)) /\ toServer \in Seq(Messages(ToServer))
        /\ Len(toRunner) <= OutboxLimit
    BY CallsAssumption DEF Init
  <2> QED BY <2>1 DEF Init, TypeOK
<1>2. toRunner = <<>> /\ toServer = <<>>
  BY DEF Init
<1>3. \A m, n : /\ ~InFlight(toRunner, m) /\ ~InFlight(toServer, m) /\ Once(toRunner, m)
                /\ NoneAfter(toServer, m, n)
  BY <1>2 DEF InFlight, Once, NoneAfter
<1>4. Untouched /\ SentOnce
  BY <1>3 DEF Init, Untouched, SentOnce
<1>5. Answered /\ ResultFirst
  BY <1>3 DEF Init, Answered, ResultFirst
<1>6. \A i \in Calls : /\ notified[i] = 0 /\ work[i] = "none" /\ i \notin streams
                         /\ ~InFlight(toRunner, Message("close", i))
                         /\ ~InFlight(toServer, Message("opened", i))
  BY <1>3 DEF Init
<1>7. Told /\ Learns
  BY <1>6 DEF Init, Told, Learns
<1> QED BY <1>1, <1>4, <1>5, <1>7 DEF CallsInv

\* Every step keeps the invariant.
LEMMA NextCalls == CallsInv /\ [Next]_vars => CallsInv'
<1> SUFFICES ASSUME CallsInv, [Next]_vars PROVE CallsInv'
  OBVIOUS
<1>1. CASE Next
  BY <1>1, TypeStep, UntouchedStep, SentOnceStep, AnsweredStep, ResultFirstStep, ToldStep, LearnsStep
     DEF CallsInv
<1>2. CASE UNCHANGED vars
  BY <1>2 DEF CallsInv, TypeOK, Untouched, SentOnce, Answered, ResultFirst, Told, Learns, vars,
     serverVars, outVars, runnerVars
<1> QED BY <1>1, <1>2

\* The inductive invariant.
THEOREM CallsSafe == Spec => []CallsInv
BY InitCalls, NextCalls, PTL DEF Spec

\* However results, frames, ends of streams, cancellations and a breaking
\* connection interleave, closeStream and handleFrame tell the runner once at
\* most to close a stream.
THEOREM ToldOnceHolds == Spec => []ToldOnce
<1>1. CallsInv => ToldOnce
  BY DEF CallsInv, Told, ToldOnce
<1> QED BY <1>1, CallsSafe, PTL

\* Nobody holds a terminal whose runner's end is closed without being told: the
\* server has closed its end, or the message is on its way, or the connection is
\* broken.
THEOREM HeldStreamLearnsHolds == Spec => []HeldStreamLearns
<1>1. CallsInv => HeldStreamLearns
  <2> SUFFICES ASSUME CallsInv, NEW i \in held, i \in streams, ~broken
               PROVE  i \in rstreams \/ InFlight(toServer, Message("closed", i))
    BY DEF HeldStreamLearns
  <2>1. i \in Calls /\ notified[i] = 0
    BY DEF CallsInv, TypeOK, Told
  <2> QED BY <2>1 DEF CallsInv, Learns
<1> QED BY <1>1, CallsSafe, PTL
=============================================================================
