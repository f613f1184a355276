--------------------------- MODULE RunnerLinkProofs ---------------------------
(***************************************************************************)
(* RunnerLink for any number of connections and attempts: a running        *)
(* attempt keeps its sandbox, the Hub has one live connection, and the     *)
(* sandbox of an ended attempt always has somebody who removes it.         *)
(*                                                                         *)
(* No order of the Hub's steps is excluded, and any number of calls may    *)
(* fail.  What the three statements except are the histories the           *)
(* specification records: a connection that took the entry from a newer    *)
(* one (the run LinkOrphan), a timer that fired before the welcome, and a  *)
(* sandbox that a Destroy failed for.                                      *)
(***************************************************************************)
EXTENDS RunnerLink, TLAPS

-----------------------------------------------------------------------------
(* The inductive invariant.                                                *)

Handshake == {"hello", "welcomed", "waiting"}

\* The client's session and its connection: what the client left is closed, and
\* what ServeHTTP is done with, too; the entry is past its handshake.
Sessions ==
    /\ client \in {"hello", "serving"} <=> dialled # NoConn
    /\ \A c \in Conns :
          /\ hub[c] # "none" => c = dialled \/ c \in closed
          /\ hub[c] \in {"finished", "gone"} => c \in closed
          /\ c = dialled => hub[c] # "none"
          /\ c = entry => hub[c] \in {"serving", "finished"}

\* Connections are dialled in their order, and the client's is the latest.
Ordered ==
    \A c, d \in Conns :
       /\ c < d /\ hub[d] # "none" => hub[c] # "none"
       /\ hub[c] # "none" /\ d = dialled => c <= d

\* An attempt goes out on a connection that was registered, its sandbox is built
\* and listed after that, and a hello lists the sandboxes of earlier connections.
Placed ==
    /\ \A a \in Attempts :
          /\ status[a] # "none" => via[a] \in Conns
          /\ \A c \in Conns : status[a] # "none" /\ c = via[a] =>
                hub[c] \in {"serving", "finished", "gone"}
          /\ a \in kept \cup building \cup calls \cup leftover => status[a] # "none"
          /\ a \in destroying => status[a] = "ended"
          /\ a \in leftover => via[a] # dialled
    /\ \A a \in Attempts, c \in Conns : a \in hello[c] => status[a] # "none" /\ via[a] < c

\* What the client holds: nothing once it stopped, what its retention will end
\* while it is away, and what its hello listed until the Hub registers it.  A timer
\* whose goroutine still waits for the lock fired before the welcome.
Holding ==
    /\ client = "stopped" => kept = {}
    /\ client = "away" => kept = {} \/ expiry # "none"
    /\ client = "serving" => expiry = "none"
    /\ client = "serving" /\ firing => haunted
    /\ \A a \in Attempts :
          /\ a \in building => dialled # NoConn /\ via[a] = dialled
          /\ a \in building => a \in calls \/ dialled \in closed
          /\ client = "hello" /\ via[a] = dialled => a \notin kept /\ status[a] # "running"
          /\ \A c \in Conns : c = dialled /\ hub[c] \in Handshake /\ a \in kept => a \in hello[c]

LinkInv ==
    /\ TypeOK
    /\ Sessions
    /\ Ordered
    /\ Placed
    /\ Holding
    /\ RunningKeepsSandbox
    /\ LatestIsLive
    /\ EndedSandboxHasOwner

-----------------------------------------------------------------------------
(* Every step keeps it.                                                    *)

\* A call that fails, or does not, is counted.
LEMMA FaultStep ==
    ASSUME faults \in Nat, Fault \/ NoFault
    PROVE  faults' \in Nat
BY DEF Fault, NoFault

\* Calls of Destroy fail for sandboxes only.
LEMMA DestroyStep ==
    ASSUME faults \in Nat, failed \subseteq Attempts, NEW S \in SUBSET Attempts, DestroyEach(S)
    PROVE  faults' \in Nat /\ failed' \subseteq Attempts
BY FaultStep DEF DestroyEach, Fault, NoFault

\* Every step keeps the types.
LEMMA TypeStep ==
    ASSUME TypeOK, Sessions, Next
    PROVE  TypeOK'
<1> USE LinkAssumption DEF hubVars, clientVars, attemptVars, NoConn, TypeOK, HubStep, Sessions
<1>0. faults \in Nat /\ failed \subseteq Attempts
  OBVIOUS
<1>1. ASSUME NEW c \in Conns, Dial(c) PROVE TypeOK'
  BY <1>1 DEF Dial
<1>2. ASSUME NEW c \in Conns, Authenticate(c) PROVE TypeOK'
  <2>1. Fault \/ NoFault
    BY <1>2, Zenon DEF Authenticate
  <2>2. faults' \in Nat
    BY <1>0, <2>1, FaultStep, Zenon
  <2>3. hub' \in [Conns -> HubStep] /\ closed' \subseteq Conns /\ refused' \subseteq closed'
    BY <1>2 DEF Authenticate, Fault, NoFault
  <2> QED BY <1>2, <2>2, <2>3 DEF Authenticate, HubFrame
<1>3. ASSUME NEW c \in Conns, RegisterRead(c) PROVE TypeOK'
  BY <1>3 DEF RegisterRead, HubFrame, Replaced
<1>4. ASSUME NEW c \in Conns, RegisterWrite(c) PROVE TypeOK'
  BY <1>4 DEF RegisterWrite, HubFrame, Reported
<1>5. ASSUME NEW c \in Conns, Finish(c) PROVE TypeOK'
  BY <1>5 DEF Finish, HubFrame
<1>6. ASSUME NEW c \in Conns, Unregister(c) PROVE TypeOK'
  BY <1>6 DEF Unregister, HubFrame, EntryAfter, Reports
<1>7. CASE Welcomed
  BY <1>7 DEF Welcomed, ExpiryAfterWelcome
<1>8. CASE Lose
  BY <1>8 DEF Lose, ExpiryAfterLoss
<1>9. CASE Stop
  <2>1. DestroyEach(kept)
    BY <1>9, Zenon DEF Stop
  <2>2. faults' \in Nat /\ failed' \subseteq Attempts
    BY <1>0, <2>1, DestroyStep
  <2> QED BY <1>9, <2>2 DEF Stop
<1>10. CASE Fire
  BY <1>10 DEF Fire
<1>11. CASE Retention
  <2>1. DestroyEach(kept)
    BY <1>11, Zenon DEF Retention
  <2>2. faults' \in Nat /\ failed' \subseteq Attempts
    BY <1>0, <2>1, DestroyStep
  <2> QED BY <1>11, <2>2 DEF Retention
<1>12. CASE Restart
  <2>1. DestroyEach(kept \cup building)
    BY <1>12, Zenon DEF Restart
  <2>2. faults' \in Nat /\ failed' \subseteq Attempts
    BY <1>0, <2>1, DestroyStep
  <2> QED BY <1>12, <2>2 DEF Restart
<1>13. CASE Break
  BY <1>13 DEF Break
<1>14. ASSUME NEW a \in Attempts, Start(a) PROVE TypeOK'
  BY <1>14 DEF Start, LinkFrame, Reachable
<1>15. ASSUME NEW a \in Attempts, Build(a) PROVE TypeOK'
  BY <1>15 DEF Build, LinkFrame
<1>16. ASSUME NEW a \in Attempts, Result(a) PROVE TypeOK'
  BY <1>16 DEF Result, LinkFrame, AfterResult
<1>17. ASSUME NEW a \in Attempts, End(a) PROVE TypeOK'
  BY <1>17 DEF End, LinkFrame, Active
<1>18. ASSUME NEW a \in Attempts, DestroySandbox(a) PROVE TypeOK'
  <2>1. faults' \in Nat /\ failed' \subseteq Attempts /\ kept' \subseteq Attempts
    BY <1>18, FaultStep DEF DestroySandbox
  <2> QED BY ZenonT(40), <1>18, <2>1 DEF DestroySandbox, LinkFrame
<1>19. CASE Revoke
  BY <1>19 DEF Revoke, HubFrame
<1>20. CASE Disconnect
  BY <1>20 DEF Disconnect, HubFrame
<1>21. CASE RunnerDisconnected
  BY <1>21 DEF RunnerDisconnected, LinkFrame, Active
<1> QED BY <1>1, <1>2, <1>3, <1>4, <1>5, <1>6, <1>7, <1>8, <1>9, <1>10, <1>11, <1>12,
           <1>13, <1>14, <1>15, <1>16, <1>17, <1>18, <1>19, <1>20, <1>21
        DEF Next, HubSteps, ClientSteps, AttemptSteps

\* Every step keeps Sessions.
LEMMA SessionsStep ==
    ASSUME TypeOK, Sessions, Next
    PROVE  Sessions'
<1> USE LinkAssumption DEF hubVars, clientVars, attemptVars, NoConn, TypeOK, HubStep, Sessions
<1>1. ASSUME NEW c \in Conns, Dial(c) PROVE Sessions'
  BY <1>1 DEF Dial
<1>2. ASSUME NEW c \in Conns, Authenticate(c) PROVE Sessions'
  BY <1>2 DEF Authenticate, HubFrame
<1>3. ASSUME NEW c \in Conns, RegisterRead(c) PROVE Sessions'
  BY <1>3 DEF RegisterRead, HubFrame, Replaced
<1>4. ASSUME NEW c \in Conns, RegisterWrite(c) PROVE Sessions'
  BY <1>4 DEF RegisterWrite, HubFrame, Reported
<1>5. ASSUME NEW c \in Conns, Finish(c) PROVE Sessions'
  BY <1>5 DEF Finish, HubFrame
<1>6. ASSUME NEW c \in Conns, Unregister(c) PROVE Sessions'
  BY <1>6 DEF Unregister, HubFrame, EntryAfter, Reports
<1>7. CASE Welcomed
  BY <1>7 DEF Welcomed, ExpiryAfterWelcome
<1>8. CASE Lose
  BY <1>8 DEF Lose, ExpiryAfterLoss
<1>9. CASE Stop
  BY <1>9 DEF Stop, DestroyEach
<1>10. CASE Fire
  BY <1>10 DEF Fire
<1>11. CASE Retention
  BY <1>11 DEF Retention, DestroyEach
<1>12. CASE Restart
  BY <1>12 DEF Restart, DestroyEach
<1>13. CASE Break
  BY <1>13 DEF Break
<1>14. ASSUME NEW a \in Attempts, Start(a) PROVE Sessions'
  BY <1>14 DEF Start, LinkFrame, Reachable
<1>15. ASSUME NEW a \in Attempts, Build(a) PROVE Sessions'
  BY <1>15 DEF Build, LinkFrame
<1>16. ASSUME NEW a \in Attempts, Result(a) PROVE Sessions'
  BY <1>16 DEF Result, LinkFrame, AfterResult
<1>17. ASSUME NEW a \in Attempts, End(a) PROVE Sessions'
  BY <1>17 DEF End, LinkFrame, Active
<1>18. ASSUME NEW a \in Attempts, DestroySandbox(a) PROVE Sessions'
  BY <1>18 DEF DestroySandbox, LinkFrame, Reachable
<1>19. CASE Revoke
  BY <1>19 DEF Revoke, HubFrame
<1>20. CASE Disconnect
  BY <1>20 DEF Disconnect, HubFrame
<1>21. CASE RunnerDisconnected
  BY <1>21 DEF RunnerDisconnected, LinkFrame, Active
<1> QED BY <1>1, <1>2, <1>3, <1>4, <1>5, <1>6, <1>7, <1>8, <1>9, <1>10, <1>11, <1>12,
           <1>13, <1>14, <1>15, <1>16, <1>17, <1>18, <1>19, <1>20, <1>21
        DEF Next, HubSteps, ClientSteps, AttemptSteps

\* Every step keeps Ordered.
LEMMA OrderedStep ==
    ASSUME TypeOK, Sessions, Ordered, Next
    PROVE  Ordered'
<1> USE LinkAssumption DEF hubVars, clientVars, attemptVars, NoConn, TypeOK, HubStep, Sessions, Ordered
<1>1. ASSUME NEW c \in Conns, Dial(c) PROVE Ordered'
  BY <1>1 DEF Dial
<1>2. ASSUME NEW c \in Conns, Authenticate(c) PROVE Ordered'
  BY <1>2 DEF Authenticate, HubFrame
<1>3. ASSUME NEW c \in Conns, RegisterRead(c) PROVE Ordered'
  BY <1>3 DEF RegisterRead, HubFrame, Replaced
<1>4. ASSUME NEW c \in Conns, RegisterWrite(c) PROVE Ordered'
  BY <1>4 DEF RegisterWrite, HubFrame, Reported
<1>5. ASSUME NEW c \in Conns, Finish(c) PROVE Ordered'
  BY <1>5 DEF Finish, HubFrame
<1>6. ASSUME NEW c \in Conns, Unregister(c) PROVE Ordered'
  BY <1>6 DEF Unregister, HubFrame, EntryAfter, Reports
<1>7. CASE Welcomed
  BY <1>7 DEF Welcomed, ExpiryAfterWelcome
<1>8. CASE Lose
  BY <1>8 DEF Lose, ExpiryAfterLoss
<1>9. CASE Stop
  BY <1>9 DEF Stop, DestroyEach
<1>10. CASE Fire
  BY <1>10 DEF Fire
<1>11. CASE Retention
  BY <1>11 DEF Retention, DestroyEach
<1>12. CASE Restart
  BY <1>12 DEF Restart, DestroyEach
<1>13. CASE Break
  BY <1>13 DEF Break
<1>14. ASSUME NEW a \in Attempts, Start(a) PROVE Ordered'
  BY <1>14 DEF Start, LinkFrame, Reachable
<1>15. ASSUME NEW a \in Attempts, Build(a) PROVE Ordered'
  BY <1>15 DEF Build, LinkFrame
<1>16. ASSUME NEW a \in Attempts, Result(a) PROVE Ordered'
  BY <1>16 DEF Result, LinkFrame, AfterResult
<1>17. ASSUME NEW a \in Attempts, End(a) PROVE Ordered'
  BY <1>17 DEF End, LinkFrame, Active
<1>18. ASSUME NEW a \in Attempts, DestroySandbox(a) PROVE Ordered'
  BY <1>18 DEF DestroySandbox, LinkFrame, Reachable
<1>19. CASE Revoke
  BY <1>19 DEF Revoke, HubFrame
<1>20. CASE Disconnect
  BY <1>20 DEF Disconnect, HubFrame
<1>21. CASE RunnerDisconnected
  BY <1>21 DEF RunnerDisconnected, LinkFrame, Active
<1> QED BY <1>1, <1>2, <1>3, <1>4, <1>5, <1>6, <1>7, <1>8, <1>9, <1>10, <1>11, <1>12,
           <1>13, <1>14, <1>15, <1>16, <1>17, <1>18, <1>19, <1>20, <1>21
        DEF Next, HubSteps, ClientSteps, AttemptSteps

\* Every step keeps Placed.
LEMMA PlacedStep ==
    ASSUME TypeOK, Sessions, Ordered, Placed, Next
    PROVE  Placed'
<1> USE LinkAssumption DEF hubVars, clientVars, attemptVars, NoConn, TypeOK, HubStep, Sessions, Ordered, Placed
<1>1. ASSUME NEW c \in Conns, Dial(c) PROVE Placed'
  <2>1. \A d \in Conns : hub[d] # "none" => d < c
    BY <1>1 DEF Dial
  <2>2. UNCHANGED <<status, via, kept, building, calls, leftover, destroying>>
    BY <1>1 DEF Dial
  <2>3. /\ dialled' = c /\ hub[c] = "none"
        /\ \A d \in Conns : hub'[d] = IF d = c THEN "hello" ELSE hub[d]
        /\ \A d \in Conns : hello'[d] = IF d = c THEN kept ELSE hello[d]
    BY <1>1 DEF Dial
  <2>4. \A a \in Attempts : status[a] # "none" => via[a] < c /\ via[a] # c
    <3> SUFFICES ASSUME NEW a \in Attempts, status[a] # "none" PROVE via[a] < c /\ via[a] # c
      OBVIOUS
    <3>1. via[a] \in Conns /\ hub[via[a]] # "none"
      BY ZenonT(40)
    <3>2. via[a] < c
      BY <2>1, <3>1
    <3>3. via[a] # c
      BY <2>3, <3>1
    <3> QED BY <3>2, <3>3
  <2>5. \A a \in Attempts, d \in Conns : a \in hello'[d] => status'[a] # "none" /\ via'[a] < d
    BY <2>2, <2>3, <2>4
  <2>6. \A a \in Attempts : a \in leftover' => via'[a] # dialled'
    BY <2>2, <2>3, <2>4
  <2>7. \A a \in Attempts, d \in Conns : status'[a] # "none" /\ d = via'[a] =>
           hub'[d] \in {"serving", "finished", "gone"}
    BY <2>2, <2>3, <2>4
  <2> QED BY <2>2, <2>5, <2>6, <2>7
<1>2. ASSUME NEW c \in Conns, Authenticate(c) PROVE Placed'
  BY <1>2 DEF Authenticate, HubFrame
<1>3. ASSUME NEW c \in Conns, RegisterRead(c) PROVE Placed'
  BY <1>3 DEF RegisterRead, HubFrame, Replaced
<1>4. ASSUME NEW c \in Conns, RegisterWrite(c) PROVE Placed'
  BY <1>4 DEF RegisterWrite, HubFrame, Reported
<1>5. ASSUME NEW c \in Conns, Finish(c) PROVE Placed'
  BY <1>5 DEF Finish, HubFrame
<1>6. ASSUME NEW c \in Conns, Unregister(c) PROVE Placed'
  BY <1>6 DEF Unregister, HubFrame, EntryAfter, Reports
<1>7. CASE Welcomed
  BY <1>7 DEF Welcomed, ExpiryAfterWelcome
<1>8. CASE Lose
  BY <1>8 DEF Lose, ExpiryAfterLoss
<1>9. CASE Stop
  BY <1>9 DEF Stop, DestroyEach
<1>10. CASE Fire
  BY <1>10 DEF Fire
<1>11. CASE Retention
  BY <1>11 DEF Retention, DestroyEach
<1>12. CASE Restart
  BY <1>12 DEF Restart, DestroyEach
<1>13. CASE Break
  BY <1>13 DEF Break
<1>14. ASSUME NEW a \in Attempts, Start(a) PROVE Placed'
  BY <1>14 DEF Start, LinkFrame, Reachable
<1>15. ASSUME NEW a \in Attempts, Build(a) PROVE Placed'
  BY <1>15 DEF Build, LinkFrame
<1>16. ASSUME NEW a \in Attempts, Result(a) PROVE Placed'
  BY <1>16 DEF Result, LinkFrame, AfterResult
<1>17. ASSUME NEW a \in Attempts, End(a) PROVE Placed'
  BY <1>17 DEF End, LinkFrame, Active
<1>18. ASSUME NEW a \in Attempts, DestroySandbox(a) PROVE Placed'
  BY <1>18 DEF DestroySandbox, LinkFrame, Reachable
<1>19. CASE Revoke
  BY <1>19 DEF Revoke, HubFrame
<1>20. CASE Disconnect
  BY <1>20 DEF Disconnect, HubFrame
<1>21. CASE RunnerDisconnected
  BY <1>21 DEF RunnerDisconnected, LinkFrame, Active
<1> QED BY <1>1, <1>2, <1>3, <1>4, <1>5, <1>6, <1>7, <1>8, <1>9, <1>10, <1>11, <1>12,
           <1>13, <1>14, <1>15, <1>16, <1>17, <1>18, <1>19, <1>20, <1>21
        DEF Next, HubSteps, ClientSteps, AttemptSteps

\* Every step keeps Holding.
LEMMA HoldingStep ==
    ASSUME TypeOK, Sessions, Placed, Holding, Next
    PROVE  Holding'
<1> USE LinkAssumption DEF hubVars, clientVars, attemptVars, NoConn, TypeOK, HubStep, Sessions, Handshake, Placed, Holding
<1>1. ASSUME NEW c \in Conns, Dial(c) PROVE Holding'
  BY <1>1 DEF Dial
<1>2. ASSUME NEW c \in Conns, Authenticate(c) PROVE Holding'
  BY <1>2 DEF Authenticate, HubFrame
<1>3. ASSUME NEW c \in Conns, RegisterRead(c) PROVE Holding'
  BY <1>3 DEF RegisterRead, HubFrame, Replaced
<1>4. ASSUME NEW c \in Conns, RegisterWrite(c) PROVE Holding'
  BY <1>4 DEF RegisterWrite, HubFrame, Reported
<1>5. ASSUME NEW c \in Conns, Finish(c) PROVE Holding'
  BY <1>5 DEF Finish, HubFrame
<1>6. ASSUME NEW c \in Conns, Unregister(c) PROVE Holding'
  BY <1>6 DEF Unregister, HubFrame, EntryAfter, Reports
<1>7. CASE Welcomed
  BY <1>7 DEF Welcomed, ExpiryAfterWelcome
<1>8. CASE Lose
  BY <1>8 DEF Lose, ExpiryAfterLoss
<1>9. CASE Stop
  BY <1>9 DEF Stop, DestroyEach
<1>10. CASE Fire
  BY <1>10 DEF Fire
<1>11. CASE Retention
  BY <1>11 DEF Retention, DestroyEach
<1>12. CASE Restart
  BY <1>12 DEF Restart, DestroyEach
<1>13. CASE Break
  BY <1>13 DEF Break
<1>14. ASSUME NEW a \in Attempts, Start(a) PROVE Holding'
  BY <1>14 DEF Start, LinkFrame, Reachable
<1>15. ASSUME NEW a \in Attempts, Build(a) PROVE Holding'
  BY <1>15 DEF Build, LinkFrame
<1>16. ASSUME NEW a \in Attempts, Result(a) PROVE Holding'
  BY <1>16 DEF Result, LinkFrame, AfterResult
<1>17. ASSUME NEW a \in Attempts, End(a) PROVE Holding'
  BY <1>17 DEF End, LinkFrame, Active
<1>18. ASSUME NEW a \in Attempts, DestroySandbox(a) PROVE Holding'
  BY <1>18 DEF DestroySandbox, LinkFrame, Reachable
<1>19. CASE Revoke
  BY <1>19 DEF Revoke, HubFrame
<1>20. CASE Disconnect
  BY <1>20 DEF Disconnect, HubFrame
<1>21. CASE RunnerDisconnected
  BY <1>21 DEF RunnerDisconnected, LinkFrame, Active
<1> QED BY <1>1, <1>2, <1>3, <1>4, <1>5, <1>6, <1>7, <1>8, <1>9, <1>10, <1>11, <1>12,
           <1>13, <1>14, <1>15, <1>16, <1>17, <1>18, <1>19, <1>20, <1>21
        DEF Next, HubSteps, ClientSteps, AttemptSteps

\* Every step leaves a running attempt its sandbox.
LEMMA RunningStep ==
    ASSUME TypeOK, Sessions, Placed, Holding, RunningKeepsSandbox, Next
    PROVE  RunningKeepsSandbox'
<1> USE LinkAssumption DEF hubVars, clientVars, attemptVars, NoConn, TypeOK, HubStep, Sessions, Placed,
            Holding, RunningKeepsSandbox
<1>1. ASSUME NEW c \in Conns, Dial(c) PROVE RunningKeepsSandbox'
  BY <1>1 DEF Dial
<1>2. ASSUME NEW c \in Conns, Authenticate(c) PROVE RunningKeepsSandbox'
  BY <1>2 DEF Authenticate, HubFrame
<1>3. ASSUME NEW c \in Conns, RegisterRead(c) PROVE RunningKeepsSandbox'
  BY <1>3 DEF RegisterRead, HubFrame, Replaced
<1>4. ASSUME NEW c \in Conns, RegisterWrite(c) PROVE RunningKeepsSandbox'
  BY <1>4 DEF RegisterWrite, HubFrame, Reported
<1>5. ASSUME NEW c \in Conns, Finish(c) PROVE RunningKeepsSandbox'
  BY <1>5 DEF Finish, HubFrame
<1>6. ASSUME NEW c \in Conns, Unregister(c) PROVE RunningKeepsSandbox'
  BY <1>6 DEF Unregister, HubFrame, EntryAfter, Reports
<1>7. CASE Welcomed
  BY <1>7 DEF Welcomed, ExpiryAfterWelcome
<1>8. CASE Lose
  BY <1>8 DEF Lose, ExpiryAfterLoss
<1>9. CASE Stop
  BY <1>9 DEF Stop, DestroyEach
<1>10. CASE Fire
  BY <1>10 DEF Fire
<1>11. CASE Retention
  BY <1>11 DEF Retention, DestroyEach
<1>12. CASE Restart
  BY <1>12 DEF Restart, DestroyEach
<1>13. CASE Break
  BY <1>13 DEF Break
<1>14. ASSUME NEW a \in Attempts, Start(a) PROVE RunningKeepsSandbox'
  BY <1>14 DEF Start, LinkFrame, Reachable
<1>15. ASSUME NEW a \in Attempts, Build(a) PROVE RunningKeepsSandbox'
  BY <1>15 DEF Build, LinkFrame
<1>16. ASSUME NEW a \in Attempts, Result(a) PROVE RunningKeepsSandbox'
  BY <1>16 DEF Result, LinkFrame, AfterResult
<1>17. ASSUME NEW a \in Attempts, End(a) PROVE RunningKeepsSandbox'
  BY <1>17 DEF End, LinkFrame, Active
<1>18. ASSUME NEW a \in Attempts, DestroySandbox(a) PROVE RunningKeepsSandbox'
  BY <1>18 DEF DestroySandbox, LinkFrame, Reachable
<1>19. CASE Revoke
  BY <1>19 DEF Revoke, HubFrame
<1>20. CASE Disconnect
  BY <1>20 DEF Disconnect, HubFrame
<1>21. CASE RunnerDisconnected
  BY <1>21 DEF RunnerDisconnected, LinkFrame, Active
<1> QED BY <1>1, <1>2, <1>3, <1>4, <1>5, <1>6, <1>7, <1>8, <1>9, <1>10, <1>11, <1>12,
           <1>13, <1>14, <1>15, <1>16, <1>17, <1>18, <1>19, <1>20, <1>21
        DEF Next, HubSteps, ClientSteps, AttemptSteps

\* Every step keeps one live connection: only the latest one is open, so the one
\* that takes the entry from it was dialled before.
LEMMA LiveStep ==
    ASSUME TypeOK, Sessions, Ordered, LatestIsLive, Next
    PROVE  LatestIsLive'
<1> USE LinkAssumption DEF hubVars, clientVars, attemptVars, NoConn, TypeOK, HubStep, Sessions, Ordered,
            OneLiveConnection, LatestIsLive
<1>1. ASSUME NEW c \in Conns, Dial(c) PROVE LatestIsLive'
  BY <1>1 DEF Dial
<1>2. ASSUME NEW c \in Conns, Authenticate(c) PROVE LatestIsLive'
  BY <1>2 DEF Authenticate, HubFrame
<1>3. ASSUME NEW c \in Conns, RegisterRead(c) PROVE LatestIsLive'
  BY <1>3 DEF RegisterRead, HubFrame, Replaced
<1>4. ASSUME NEW c \in Conns, RegisterWrite(c) PROVE LatestIsLive'
  <2> SUFFICES ASSUME ~overtaken', NEW d \in Conns, hub'[d] = "serving", d \notin closed'
               PROVE  d = entry'
    OBVIOUS
  <2>1. ~overtaken /\ ~(c < entry) /\ entry' = c /\ closed' = closed
    BY <1>4 DEF RegisterWrite
  <2>2. CASE d = c
    BY <2>1, <2>2
  <2>3. CASE d # c
    <3>1. hub[d] = "serving" /\ hub[c] = "waiting"
      BY <1>4, <2>3 DEF RegisterWrite
    <3>2. d = entry /\ d = dialled
      BY <2>1, <3>1
    <3>3. c <= d /\ c \in Nat /\ d \in Nat
      BY <3>1, <3>2
    <3> QED BY <2>1, <2>3, <3>2, <3>3
  <2> QED BY <2>2, <2>3
<1>5. ASSUME NEW c \in Conns, Finish(c) PROVE LatestIsLive'
  BY <1>5 DEF Finish, HubFrame
<1>6. ASSUME NEW c \in Conns, Unregister(c) PROVE LatestIsLive'
  BY <1>6 DEF Unregister, HubFrame, EntryAfter, Reports
<1>7. CASE Welcomed
  BY <1>7 DEF Welcomed, ExpiryAfterWelcome
<1>8. CASE Lose
  BY <1>8 DEF Lose, ExpiryAfterLoss
<1>9. CASE Stop
  BY <1>9 DEF Stop, DestroyEach
<1>10. CASE Fire
  BY <1>10 DEF Fire
<1>11. CASE Retention
  BY <1>11 DEF Retention, DestroyEach
<1>12. CASE Restart
  BY <1>12 DEF Restart, DestroyEach
<1>13. CASE Break
  BY <1>13 DEF Break
<1>14. ASSUME NEW a \in Attempts, Start(a) PROVE LatestIsLive'
  BY <1>14 DEF Start, LinkFrame, Reachable
<1>15. ASSUME NEW a \in Attempts, Build(a) PROVE LatestIsLive'
  BY <1>15 DEF Build, LinkFrame
<1>16. ASSUME NEW a \in Attempts, Result(a) PROVE LatestIsLive'
  BY <1>16 DEF Result, LinkFrame, AfterResult
<1>17. ASSUME NEW a \in Attempts, End(a) PROVE LatestIsLive'
  BY <1>17 DEF End, LinkFrame, Active
<1>18. ASSUME NEW a \in Attempts, DestroySandbox(a) PROVE LatestIsLive'
  BY <1>18 DEF DestroySandbox, LinkFrame, Reachable
<1>19. CASE Revoke
  BY <1>19 DEF Revoke, HubFrame
<1>20. CASE Disconnect
  BY <1>20 DEF Disconnect, HubFrame
<1>21. CASE RunnerDisconnected
  BY <1>21 DEF RunnerDisconnected, LinkFrame, Active
<1> QED BY <1>1, <1>2, <1>3, <1>4, <1>5, <1>6, <1>7, <1>8, <1>9, <1>10, <1>11, <1>12,
           <1>13, <1>14, <1>15, <1>16, <1>17, <1>18, <1>19, <1>20, <1>21
        DEF Next, HubSteps, ClientSteps, AttemptSteps

\* Every step keeps an owner for the sandbox of an ended attempt.
LEMMA OwnerStep ==
    ASSUME TypeOK, Sessions, Placed, Holding, LatestIsLive, EndedSandboxHasOwner, Next
    PROVE  EndedSandboxHasOwner'
<1> USE LinkAssumption DEF hubVars, clientVars, attemptVars, NoConn, TypeOK, HubStep, Sessions, Handshake,
            Placed, Holding, OneLiveConnection, LatestIsLive, EndedSandboxHasOwner
<1>1. ASSUME NEW c \in Conns, Dial(c) PROVE EndedSandboxHasOwner'
  BY <1>1 DEF Dial
<1>2. ASSUME NEW c \in Conns, Authenticate(c) PROVE EndedSandboxHasOwner'
  BY <1>2 DEF Authenticate, HubFrame
<1>3. ASSUME NEW c \in Conns, RegisterRead(c) PROVE EndedSandboxHasOwner'
  BY <1>3 DEF RegisterRead, HubFrame, Replaced
<1>4. ASSUME NEW c \in Conns, RegisterWrite(c) PROVE EndedSandboxHasOwner'
  BY <1>4 DEF RegisterWrite, HubFrame, Reported
<1>5. ASSUME NEW c \in Conns, Finish(c) PROVE EndedSandboxHasOwner'
  BY <1>5 DEF Finish, HubFrame
<1>6. ASSUME NEW c \in Conns, Unregister(c) PROVE EndedSandboxHasOwner'
  BY <1>6 DEF Unregister, HubFrame, EntryAfter, Reports
<1>7. CASE Welcomed
  BY <1>7 DEF Welcomed, ExpiryAfterWelcome
<1>8. CASE Lose
  <2>1. PICK S : kept' = kept \cup S /\ expiry' = ExpiryAfterLoss(kept \cup S)
    BY <1>8 DEF Lose
  <2>2. client' = "away" /\ (kept' # {} => expiry' # "none")
    BY <1>8, <2>1 DEF Lose, ExpiryAfterLoss
  <2> QED BY <2>2
<1>9. CASE Stop
  BY <1>9 DEF Stop, DestroyEach
<1>10. CASE Fire
  BY <1>10 DEF Fire
<1>11. CASE Retention
  BY <1>11 DEF Retention, DestroyEach
<1>12. CASE Restart
  BY <1>12 DEF Restart, DestroyEach
<1>13. CASE Break
  BY <1>13 DEF Break
<1>14. ASSUME NEW a \in Attempts, Start(a) PROVE EndedSandboxHasOwner'
  BY <1>14 DEF Start, LinkFrame, Reachable
<1>15. ASSUME NEW a \in Attempts, Build(a) PROVE EndedSandboxHasOwner'
  BY <1>15 DEF Build, LinkFrame
<1>16. ASSUME NEW a \in Attempts, Result(a) PROVE EndedSandboxHasOwner'
  BY <1>16 DEF Result, LinkFrame, AfterResult
<1>17. ASSUME NEW a \in Attempts, End(a) PROVE EndedSandboxHasOwner'
  BY <1>17 DEF End, LinkFrame, Active
<1>18. ASSUME NEW a \in Attempts, DestroySandbox(a) PROVE EndedSandboxHasOwner'
  <2>1. UNCHANGED <<hub, closed, hello, client, dialled, expiry, status, calls, entry, overtaken>>
    BY <1>18 DEF DestroySandbox, LinkFrame
  <2>2. kept' \ failed' \subseteq kept \ failed
    BY <1>18 DEF DestroySandbox
  <2>3. (destroying \cup leftover) \ {a} \subseteq destroying' \cup leftover'
    BY <1>18 DEF DestroySandbox
  <2>4. a \in kept' \ failed' => ~Reachable
    BY <1>18 DEF DestroySandbox
  <2>5. ASSUME ~Reachable, a \in kept \ failed, ~overtaken
        PROVE  \/ client = "away" /\ expiry # "none"
               \/ client \in {"hello", "serving"} /\ dialled \in closed
               \/ client \in {"hello", "serving"} /\ a \in hello[dialled]
                     /\ hub[dialled] \in {"hello", "welcomed", "waiting"}
    BY <2>5 DEF Reachable
  <2> SUFFICES ASSUME NEW b \in kept' \ failed', status'[b] = "ended", ~overtaken'
               PROVE  \/ b \in destroying' \cup leftover' \cup calls'
                      \/ client' = "away" /\ expiry' # "none"
                      \/ client' \in {"hello", "serving"} /\ dialled' \in closed'
                      \/ client' \in {"hello", "serving"} /\ b \in hello'[dialled']
                            /\ hub'[dialled'] \in {"hello", "welcomed", "waiting"}
    OBVIOUS
  <2>6. CASE b = a
    BY <2>1, <2>2, <2>4, <2>5, <2>6
  <2>7. CASE b # a
    BY <2>1, <2>2, <2>3, <2>7
  <2> QED BY <2>6, <2>7
<1>19. CASE Revoke
  BY <1>19 DEF Revoke, HubFrame
<1>20. CASE Disconnect
  BY <1>20 DEF Disconnect, HubFrame
<1>21. CASE RunnerDisconnected
  BY <1>21 DEF RunnerDisconnected, LinkFrame, Active
<1> QED BY <1>1, <1>2, <1>3, <1>4, <1>5, <1>6, <1>7, <1>8, <1>9, <1>10, <1>11, <1>12,
           <1>13, <1>14, <1>15, <1>16, <1>17, <1>18, <1>19, <1>20, <1>21
        DEF Next, HubSteps, ClientSteps, AttemptSteps

-----------------------------------------------------------------------------
(* The invariant holds, and with it the three properties.                  *)

\* The invariant holds before the first connection.
LEMMA InitLink == Init => LinkInv
<1> SUFFICES ASSUME Init PROVE LinkInv
  OBVIOUS
<1> USE LinkAssumption DEF Init, NoConn
<1>1. TypeOK
  BY DEF TypeOK, HubStep
<1>2. Sessions /\ Ordered /\ Placed /\ Holding
  BY DEF Sessions, Ordered, Placed, Holding, Handshake
<1>3. LatestIsLive /\ EndedSandboxHasOwner /\ RunningKeepsSandbox
  BY DEF LatestIsLive, OneLiveConnection, EndedSandboxHasOwner, RunningKeepsSandbox
<1> QED BY <1>1, <1>2, <1>3 DEF LinkInv

\* Every step keeps the invariant.
LEMMA NextLink == LinkInv /\ [Next]_vars => LinkInv'
<1> SUFFICES ASSUME LinkInv, [Next]_vars PROVE LinkInv'
  OBVIOUS
<1>1. CASE Next
  BY <1>1, TypeStep, SessionsStep, OrderedStep, PlacedStep, HoldingStep, RunningStep, LiveStep,
     OwnerStep DEF LinkInv
<1>2. CASE UNCHANGED vars
  BY <1>2 DEF LinkInv, TypeOK, Sessions, Ordered, Placed, Holding, OneLiveConnection, LatestIsLive,
     EndedSandboxHasOwner, RunningKeepsSandbox, vars, hubVars, clientVars, attemptVars
<1> QED BY <1>1, <1>2

\* The inductive invariant.
THEOREM LinkSafe == Spec => []LinkInv
BY InitLink, NextLink, PTL DEF Spec

\* However connections break, are replaced, time out while they are replaced and
\* are revoked, the Hub has one live connection of the runner at most, and calls
\* go to it, unless register of a connection the client had left came after
\* register of a newer one.
THEOREM LatestIsLiveHolds == Spec => []LatestIsLive
<1>1. LinkInv => LatestIsLive
  BY DEF LinkInv
<1> QED BY <1>1, LinkSafe, PTL

\* The sandbox of an attempt that ended is never out of everybody's sight: a
\* destroy, the return of its Provision, a hello or the retention of the runner
\* has it, unless a Destroy failed for it or the live connection lost the entry.
THEOREM EndedSandboxHasOwnerHolds == Spec => []EndedSandboxHasOwner
<1>1. LinkInv => EndedSandboxHasOwner
  BY DEF LinkInv
<1> QED BY <1>1, LinkSafe, PTL

\* An attempt that runs on the current connection keeps its sandbox: no retention
\* timer that had not fired when the client was welcomed, and no destroy of a
\* sandbox kept through an earlier loss, takes it, however the Hub orders the
\* handshakes of several connections.
THEOREM RunningKeepsSandboxHolds == Spec => []RunningKeepsSandbox
<1>1. LinkInv => RunningKeepsSandbox
  BY DEF LinkInv
<1> QED BY <1>1, LinkSafe, PTL
=============================================================================
