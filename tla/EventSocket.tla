----------------------------- MODULE EventSocket -----------------------------
(***************************************************************************)
(* The events socket of internal/api/events.go on the bus of               *)
(* internal/attempt/bus.go: how a browser follows one attempt.             *)
(*                                                                         *)
(* The service stores a status and then publishes it; the handler          *)
(* subscribes, reads the attempt and then shows what the bus brings.  What *)
(* the browser was shown last is all it knows.  The events are statuses    *)
(* and "progress", which stands for provisioning steps, submits, ticks and *)
(* errors, and "checkpoint", which a real-mode attempt does not show.      *)
(***************************************************************************)
EXTENDS EventBus

CONSTANTS
    Room,         \* subscriberBuffer
    MaxProgress   \* bound on the events other than statuses

ASSUME EventSocketAssumption == Room \in Nat

VARIABLES
    stored,      \* status in the store
    pending,     \* statuses stored and not yet published
    progress,    \* events published besides
    busClosed,
    channel,     \* the events the subscription holds, and
    subscribed,  \* whether the bus still has it
    socketAt,    \* where the handler is
    realMode,
    shown,       \* the last status the browser was sent
    lost         \* History: the channel was full when a status was published

eventVars == <<stored, pending, progress, busClosed, channel, subscribed,
               socketAt, realMode, shown, lost>>

TerminalStatuses == {"passed", "abandoned", "expired", "error"}
NotShown == "nothing"

\* Which statuses follow which in AttemptService, one final status standing for
\* those that end an attempt alike.  promote may write running over an end.
Follow == [provisioning |-> {"running", "abandoned"}, running |-> {"passed"},
           abandoned |-> {"running"}]

InitEventSocket ==
    /\ stored = "provisioning"
    /\ pending = {}
    /\ progress = 0
    /\ busClosed = FALSE
    /\ channel = <<>>
    /\ subscribed = FALSE
    /\ socketAt = "new"
    /\ realMode \in BOOLEAN
    /\ shown = NotShown
    /\ lost = FALSE

-----------------------------------------------------------------------------
(* The service *)

StoreStatus(status) ==
    /\ stored \in DOMAIN Follow /\ status \in Follow[stored]
    /\ status \notin pending
    /\ stored' = status
    /\ pending' = pending \cup {status}
    /\ UNCHANGED <<progress, busClosed, channel, subscribed,
                   socketAt, realMode, shown, lost>>

Publish(event) ==
    channel' = IF subscribed THEN Published(channel, event, Room) ELSE channel

\* Whoever stored a status publishes it afterwards, so two that were stored one
\* after the other may be published the other way round.
PublishStatus(status) ==
    /\ status \in pending
    /\ pending' = pending \ {status}
    /\ Publish(status)
    /\ lost' = (lost \/ (subscribed /\ Len(channel) >= Room))
    /\ UNCHANGED <<stored, progress, busClosed, subscribed, socketAt, realMode, shown>>

PublishProgress(event) ==
    /\ progress < MaxProgress
    /\ progress' = progress + 1
    /\ Publish(event)
    /\ UNCHANGED <<stored, pending, busClosed, subscribed, socketAt, realMode, shown, lost>>

CloseBus ==
    /\ ~ busClosed
    /\ busClosed' = TRUE
    /\ subscribed' = FALSE
    /\ UNCHANGED <<stored, pending, progress, channel, socketAt, realMode, shown, lost>>

-----------------------------------------------------------------------------
(* The handler *)

Subscribe ==
    /\ socketAt = "new"
    /\ socketAt' = "view"
    /\ subscribed' = ~ busClosed
    /\ UNCHANGED <<stored, pending, progress, busClosed, channel, realMode, shown, lost>>

\* ownedAttempt reads the row.  It is shown after the socket is accepted, so the
\* status it shows may be an old one by then.
View ==
    /\ socketAt = "view"
    /\ socketAt' = "accept"
    /\ shown' = stored
    /\ UNCHANGED <<stored, pending, progress, busClosed, channel, subscribed, realMode, lost>>

\* Mutant: what happened before the socket was accepted is skipped.
AcceptDrains ==
    /\ socketAt = "accept"
    /\ socketAt' = IF shown \in TerminalStatuses THEN "gone" ELSE "follow"
    /\ channel' = <<>>
    /\ UNCHANGED <<stored, pending, progress, busClosed, subscribed, realMode, shown, lost>>

\* A terminal status is the first and the last thing that is sent.
AcceptSocket ==
    /\ socketAt = "accept"
    /\ socketAt' = IF shown \in TerminalStatuses THEN "gone" ELSE "follow"
    /\ UNCHANGED <<stored, pending, progress, busClosed, channel, subscribed,
                   realMode, shown, lost>>

\* The next event; one that eventMessage does not show is skipped.
Follows ==
    LET event == Head(channel)
        hidden == event = "checkpoint" /\ realMode
        status == event \notin {"progress", "checkpoint"}
    IN
    /\ socketAt = "follow" /\ channel # <<>>
    /\ channel' = Tail(channel)
    /\ shown' = IF status /\ ~ hidden THEN event ELSE shown
    /\ socketAt' = IF event \in TerminalStatuses THEN "gone" ELSE "follow"
    /\ UNCHANGED <<stored, pending, progress, busClosed, subscribed, realMode, lost>>

\* The channel is closed: the server shuts down.
BusEnds ==
    /\ socketAt = "follow" /\ channel = <<>> /\ ~ subscribed
    /\ socketAt' = "gone"
    /\ UNCHANGED <<stored, pending, progress, busClosed, channel, subscribed,
                   realMode, shown, lost>>

\* The attempt is not the user's, the browser leaves or does not keep up.
SocketEnds ==
    /\ socketAt \in {"view", "accept", "follow"}
    /\ socketAt' = "gone"
    /\ UNCHANGED <<stored, pending, progress, busClosed, channel, subscribed,
                   realMode, shown, lost>>

\* The deferred unsubscribe.
Unsubscribe ==
    /\ socketAt = "gone" /\ subscribed
    /\ subscribed' = FALSE
    /\ UNCHANGED <<stored, pending, progress, busClosed, channel, socketAt,
                   realMode, shown, lost>>

NextEventSocket ==
    \/ \E status \in {"running", "abandoned", "passed"} :
         StoreStatus(status) \/ PublishStatus(status)
    \/ \E event \in {"progress", "checkpoint"} : PublishProgress(event)
    \/ CloseBus
    \/ Subscribe \/ View \/ AcceptSocket \/ Follows \/ BusEnds \/ SocketEnds \/ Unsubscribe

-----------------------------------------------------------------------------
\* A browser that has been sent everything the bus has for it knows the attempt's
\* status, and does not go on following an attempt that is over, whatever happened
\* between subscribing, reading the attempt and accepting the socket, and in which
\* order statuses were published: unless the bus dropped one because the channel was
\* full (events subscribes first and ends at a terminal status).
BrowserIsCurrent ==
    (socketAt = "follow" /\ subscribed /\ channel = <<>> /\ pending = {} /\ ~ lost) =>
        shown = stored /\ stored \notin TerminalStatuses

=============================================================================
