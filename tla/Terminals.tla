------------------------------ MODULE Terminals ------------------------------
(***************************************************************************)
(* The terminal sockets of one node and tab: the handler of                *)
(* internal/api/terminal.go, the outbox of internal/api/socket.go and the  *)
(* recording of internal/recorder/cast.go.                                 *)
(*                                                                         *)
(* For each handler there are three goroutines, the handler itself, which  *)
(* ends up reading the client, the pump, which reads the pty, and the      *)
(* writer of the outbox.  The handler, its pump and the handler that takes *)
(* its place may all close the session; the first one does, the others     *)
(* wait for it (sync.Once).                                                *)
(*                                                                         *)
(* Sessions of other tabs have other keys and share nothing with these.    *)
(* Left out: what is typed and shown, the size of the window, and the      *)
(* bytes of the outbox, whose limit is one more reason for it to be full.  *)
(***************************************************************************)
EXTENDS Naturals

CONSTANTS
    Handlers,   \* connections to the same terminal
    MaxOutbox   \* maxOutboxMessages

Nobody == "nobody"

ASSUME OutboxAssumption == MaxOutbox \in Nat \ {0} /\ Nobody \notin Handlers

VARIABLES
    open,       \* terminals.open of the key: the registered handler or Nobody
    handler,    \* where each handler is, and the session it replaces
    closing,    \* how far terminalSession.close is, and closed while it is not "no"
    attached,   \* the session has its pty and cast
    pty, cast,  \* what OpenTerminal and OpenRecording returned
    pump,
    outbox,     \* frames in the channel, count, closed, done; writing: one is out
    conn,       \* the websocket is open
    cancelled   \* the context of the handler

terminalVars ==
    <<open, handler, closing, attached, pty, cast, pump, outbox, conn, cancelled>>

InitTerminals ==
    /\ open = Nobody
    /\ handler = [h \in Handlers |-> [pc |-> "new", previous |-> Nobody]]
    /\ closing = [h \in Handlers |-> "no"]
    /\ attached = [h \in Handlers |-> FALSE]
    /\ pty = [h \in Handlers |-> "none"]
    /\ cast = [h \in Handlers |-> "none"]
    /\ pump = [h \in Handlers |-> "none"]
    /\ outbox = [h \in Handlers |->
          [frames |-> 0, count |-> 0, writing |-> FALSE, closed |-> FALSE, done |-> FALSE]]
    /\ conn = [h \in Handlers |-> TRUE]
    /\ cancelled = [h \in Handlers |-> FALSE]

-----------------------------------------------------------------------------
(* The outbox *)

Finished(box) == [box EXCEPT !.closed = TRUE]

\* What send makes of an outbox: a full one is closed.
Sent(box) ==
    CASE box.closed -> box
      [] ~ box.closed /\ box.count + 1 > MaxOutbox -> Finished(box)
      [] OTHER -> [box EXCEPT !.count = @ + 1, !.frames = @ + 1]

\* The connection after a send: it is closed when the outbox has just become full.
ConnAfterSend(h) == conn[h] /\ (outbox[h].closed \/ ~ Sent(outbox[h]).closed)

WriterTakes(h) ==
    /\ ~ outbox[h].done /\ ~ outbox[h].writing
    /\ outbox[h].frames > 0
    /\ outbox' = [outbox EXCEPT ![h].frames = @ - 1, ![h].writing = TRUE]
    /\ UNCHANGED <<open, handler, closing, attached, pty, cast, pump, conn, cancelled>>

\* A write fails when the connection is closed, the context cancelled, or after
\* writeTimeout; it can only succeed on an open connection.
WriterWrites(h, ok) ==
    /\ outbox[h].writing
    /\ ok => conn[h]
    /\ outbox' = [outbox EXCEPT ![h].writing = FALSE, ![h].count = @ - 1, ![h].done = ~ ok]
    /\ UNCHANGED <<open, handler, closing, attached, pty, cast, pump, conn, cancelled>>

WriterStops(h) ==
    /\ handler[h].pc # "new"
    /\ ~ outbox[h].done /\ ~ outbox[h].writing
    /\ cancelled[h] \/ (outbox[h].closed /\ outbox[h].frames = 0)
    /\ outbox' = [outbox EXCEPT ![h].done = TRUE]
    /\ UNCHANGED <<open, handler, closing, attached, pty, cast, pump, conn, cancelled>>

-----------------------------------------------------------------------------
(* terminalSession.close *)

WantsClosed(h) ==
    \/ handler[h].pc = "close"
    \/ pump[h] = "close"
    \/ \E g \in Handlers : handler[g].pc = "replace" /\ handler[g].previous = h

\* The steps of close, in the order of the code.  attach looks at the first.
CloseStep(h, from, to) ==
    /\ closing[h] = from
    /\ closing' = [closing EXCEPT ![h] = to]

CloseMarks(h) ==
    /\ WantsClosed(h)
    /\ CloseStep(h, "no", "finish")
    /\ UNCHANGED <<open, handler, attached, pty, cast, pump, outbox, conn, cancelled>>

CloseFinishes(h) ==
    /\ CloseStep(h, "finish", "pty")
    /\ outbox' = [outbox EXCEPT ![h] = Finished(@)]
    /\ UNCHANGED <<open, handler, attached, pty, cast, pump, conn, cancelled>>

ClosePty(h) ==
    /\ CloseStep(h, "pty", "cast")
    /\ pty' = [pty EXCEPT ![h] = IF attached[h] THEN "closed" ELSE @]
    /\ UNCHANGED <<open, handler, attached, cast, pump, outbox, conn, cancelled>>

\* Cast.Close: the second one finds it closed.
CloseCast(h) ==
    /\ CloseStep(h, "cast", "cancel")
    /\ cast' = [cast EXCEPT ![h] = IF attached[h] THEN "closed" ELSE @]
    /\ UNCHANGED <<open, handler, attached, pty, pump, outbox, conn, cancelled>>

\* CloseNow runs in a goroutine of its own.
CloseCancels(h) ==
    /\ CloseStep(h, "cancel", "done")
    /\ cancelled' = [cancelled EXCEPT ![h] = TRUE]
    /\ UNCHANGED <<open, handler, attached, pty, cast, pump, outbox, conn>>

ConnCloses(h) ==
    /\ closing[h] = "done" /\ conn[h]
    /\ conn' = [conn EXCEPT ![h] = FALSE]
    /\ UNCHANGED <<open, handler, closing, attached, pty, cast, pump, outbox, cancelled>>

-----------------------------------------------------------------------------
(* The handler *)

Goes(h, from, to) ==
    /\ handler[h].pc = from
    /\ handler' = [handler EXCEPT ![h].pc = to]

Accept(h) ==
    /\ Goes(h, "new", "put")
    /\ UNCHANGED <<open, closing, attached, pty, cast, pump, outbox, conn, cancelled>>

Put(h) ==
    /\ handler[h].pc = "put"
    /\ open' = h
    /\ handler' = [handler EXCEPT ![h] =
          [pc |-> IF open = Nobody THEN "terminal" ELSE "replace", previous |-> open]]
    /\ UNCHANGED <<closing, attached, pty, cast, pump, outbox, conn, cancelled>>

Replaced(h) ==
    /\ handler[h].pc = "replace"
    /\ closing[handler[h].previous] = "done"
    /\ Goes(h, "replace", "terminal")
    /\ UNCHANGED <<open, closing, attached, pty, cast, pump, outbox, conn, cancelled>>

OpenTerminal(h) ==
    /\ Goes(h, "terminal", "recording")
    /\ pty' = [pty EXCEPT ![h] = "open"]
    /\ UNCHANGED <<open, closing, attached, cast, pump, outbox, conn, cancelled>>

OpenTerminalFails(h) ==
    /\ Goes(h, "terminal", "shutdown")
    /\ outbox' = [outbox EXCEPT ![h] = Finished(Sent(@))]
    /\ UNCHANGED <<open, closing, attached, pty, cast, pump, conn, cancelled>>

OpenRecording(h) ==
    /\ Goes(h, "recording", "attach")
    /\ cast' = [cast EXCEPT ![h] = "open"]
    /\ UNCHANGED <<open, closing, attached, pty, pump, outbox, conn, cancelled>>

\* The file is closed again and there is no row; the handler closes the pty.
OpenRecordingFails(h) ==
    /\ Goes(h, "recording", "shutdown")
    /\ pty' = [pty EXCEPT ![h] = "closed"]
    /\ outbox' = [outbox EXCEPT ![h] = Finished(Sent(@))]
    /\ UNCHANGED <<open, closing, attached, cast, pump, conn, cancelled>>

\* shutdown waits for the writer, but not longer than writeTimeout, and closes.
Shutdown(h) ==
    /\ Goes(h, "shutdown", "remove")
    /\ conn' = [conn EXCEPT ![h] = FALSE]
    /\ UNCHANGED <<open, closing, attached, pty, cast, pump, outbox, cancelled>>

\* Mutant: the session takes the terminal whether or not it was closed.
AttachAnyway(h) ==
    /\ Goes(h, "attach", "read")
    /\ attached' = [attached EXCEPT ![h] = TRUE]
    /\ pump' = [pump EXCEPT ![h] = "read"]
    /\ UNCHANGED <<open, closing, pty, cast, outbox, conn, cancelled>>

\* attach, and after it the first Resize and the start of the pump.
Attach(h) ==
    /\ IF closing[h] = "no"
       THEN /\ Goes(h, "attach", "read")
            /\ attached' = [attached EXCEPT ![h] = TRUE]
            /\ pump' = [pump EXCEPT ![h] = "read"]
            /\ UNCHANGED <<pty, cast>>
       ELSE /\ Goes(h, "attach", "remove")
            /\ pty' = [pty EXCEPT ![h] = "closed"]
            /\ cast' = [cast EXCEPT ![h] = "closed"]
            /\ UNCHANGED <<attached, pump>>
    /\ UNCHANGED <<open, closing, outbox, conn, cancelled>>

\* readClient returns: the client is gone, the context cancelled, or, at any time,
\* the pty does not take what was typed.
ReadClientEnds(h) ==
    /\ Goes(h, "read", "remove")
    /\ UNCHANGED <<open, closing, attached, pty, cast, pump, outbox, conn, cancelled>>

Unregister(h) ==
    /\ Goes(h, "remove", "close")
    /\ open' = IF open = h THEN Nobody ELSE open
    /\ UNCHANGED <<closing, attached, pty, cast, pump, outbox, conn, cancelled>>

HandlerReturns(h) ==
    /\ closing[h] = "done"
    /\ Goes(h, "close", "gone")
    /\ UNCHANGED <<open, closing, attached, pty, cast, pump, outbox, conn, cancelled>>

\* The browser closes the socket or its connection breaks.
ClientLeaves(h) ==
    /\ handler[h].pc # "new" /\ conn[h]
    /\ conn' = [conn EXCEPT ![h] = FALSE]
    /\ UNCHANGED <<open, handler, closing, attached, pty, cast, pump, outbox, cancelled>>

-----------------------------------------------------------------------------
(* The pump *)

\* Output of the shell: recorded, and sent to a client that keeps up.  A full
\* outbox closes the connection.
PumpSends(h) ==
    /\ pump[h] = "read" /\ pty[h] = "open"
    /\ outbox' = [outbox EXCEPT ![h] = Sent(@)]
    /\ pump' = [pump EXCEPT ![h] = IF outbox'[h].closed THEN "close" ELSE "read"]
    /\ conn' = [conn EXCEPT ![h] = ConnAfterSend(h)]
    /\ UNCHANGED <<open, handler, closing, attached, pty, cast, cancelled>>

\* The shell exits, or the read fails, as it does on a closed pty.
PumpReadEnds(h) ==
    /\ pump[h] = "read"
    /\ pump' = [pump EXCEPT ![h] = "shutdown"]
    /\ outbox' = [outbox EXCEPT ![h] = Finished(Sent(@))]
    /\ conn' = [conn EXCEPT ![h] = ConnAfterSend(h)]
    /\ UNCHANGED <<open, handler, closing, attached, pty, cast, cancelled>>

PumpShutdown(h) ==
    /\ pump[h] = "shutdown"
    /\ pump' = [pump EXCEPT ![h] = "close"]
    /\ conn' = [conn EXCEPT ![h] = FALSE]
    /\ UNCHANGED <<open, handler, closing, attached, pty, cast, outbox, cancelled>>

PumpReturns(h) ==
    /\ pump[h] = "close" /\ closing[h] = "done"
    /\ pump' = [pump EXCEPT ![h] = "gone"]
    /\ UNCHANGED <<open, handler, closing, attached, pty, cast, outbox, conn, cancelled>>

-----------------------------------------------------------------------------
NextTerminals ==
    \E h \in Handlers :
        \/ Accept(h) \/ Put(h) \/ Replaced(h)
        \/ OpenTerminal(h) \/ OpenTerminalFails(h)
        \/ OpenRecording(h) \/ OpenRecordingFails(h) \/ Shutdown(h)
        \/ Attach(h) \/ ReadClientEnds(h) \/ Unregister(h) \/ HandlerReturns(h)
        \/ ClientLeaves(h) \/ ConnCloses(h)
        \/ CloseMarks(h) \/ CloseFinishes(h) \/ ClosePty(h) \/ CloseCast(h)
        \/ CloseCancels(h)
        \/ PumpSends(h) \/ PumpReadEnds(h) \/ PumpShutdown(h) \/ PumpReturns(h)
        \/ WriterTakes(h) \/ WriterStops(h)
        \/ \E ok \in BOOLEAN : WriterWrites(h, ok)

-----------------------------------------------------------------------------
\* An attached session that nobody is closing is the registered one, or is about to
\* be closed by the handler that replaced it or by its own.
HasOwner(h) ==
    \/ open = h
    \/ handler[h].pc = "close"
    \/ \E g \in Handlers : handler[g].pc = "replace" /\ handler[g].previous = h

\* Whoever closes the session, and however the closing meets the opening: a handler
\* that returned left no shell running in the sandbox, no recording file open,
\* no outbox that waits for frames, and is not registered.  A browser that opens the
\* terminal again takes it over: two never both keep it, and a late remove of the
\* old one does not forget the new one (terminal, attach, close, put, remove).
NothingLeaks ==
    \A h \in Handlers :
        /\ handler[h].pc = "gone" =>
              /\ pty[h] # "open" /\ cast[h] # "open"
              /\ outbox[h].closed /\ cancelled[h]
              /\ open # h
        /\ (attached[h] /\ closing[h] = "no") => HasOwner(h)

=============================================================================
