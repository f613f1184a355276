------------------------------- MODULE EventBus -------------------------------
(***************************************************************************)
(* The bus of internal/attempt/bus.go, as far as one subscriber sees it: a *)
(* channel with room for limit events.  publish never waits, so a channel  *)
(* that is full loses the event; close ends the channel for good.          *)
(***************************************************************************)
EXTENDS Naturals, Sequences

\* What a subscriber's channel holds after publish.
Published(channel, event, limit) ==
    IF Len(channel) < limit THEN Append(channel, event) ELSE channel
=============================================================================
