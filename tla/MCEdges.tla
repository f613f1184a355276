------------------------------- MODULE MCEdges -------------------------------
(***************************************************************************)
(* One instance for the components at the edges of the attempt service:    *)
(* accounts, terminals, the events socket, the two providers, the          *)
(* parameters of labs, the migrations of the store and past attempts with  *)
(* their recordings.  They share no variable, so an invariant of one holds *)
(* whatever the others do: part names the one that moves, and the others   *)
(* stand still.                                                            *)
(*                                                                         *)
(* Accounts moves in three ways: all logins over the whole clock, for the  *)
(* limiter; both logins and one request from the beginning; and two        *)
(* requests of two users who are signed in.                                *)
(***************************************************************************)
EXTENDS Accounts, Terminals, EventSocket, DockerProvider, VMProvider, Params,
        Migrations, History

CONSTANTS l1, l2, r1

VARIABLE part

edgeVars == <<accountVars, terminalVars, eventVars, dockerVars, vmVars,
              paramVars, migrationVars, historyVars>>

Edges == {"logins", "accounts", "requests", "terminals", "events", "docker", "vm",
          "params", "store", "history"}

MCBodies ==
    {[role |-> "user", password |-> "a", disabled |-> "disable"],
     [role |-> "admin", password |-> Keep, disabled |-> "enable"]}
MCNodes == <<"n1", "n2">>
MCLinks == <<"lan">>
MCEndpoints == [lan |-> {"n1", "n2"}]

\* Parameters: a network outside of the reserved block with three hosts in it, and a
\* network of two addresses given with host bits, which three hosts do not fit in; a
\* lab with a case that has no weight.
MCReserved == Prefix(16, 2)

Param(name, gen, from) ==
    [name |-> name, gen |-> gen, from |-> from, bits |-> 0, pick |-> "none",
     lo |-> 0, hi |-> 0, of |-> {}]
CIDR(name, base, bits) == [Param(name, "cidr", Literal(base)) EXCEPT !.bits = bits]
Index(name, net, i) ==
    [Param(name, "ip_in", Placeholder(net)) EXCEPT !.pick = "index", !.lo = i]
InRange(name, net, lo, hi) ==
    [Param(name, "ip_in", Placeholder(net)) EXCEPT !.pick = "range", !.lo = lo, !.hi = hi]

MCLabs ==
    {[params |-> <<CIDR("net", Prefix(0, 0), 2), Index("gw", "net", 1),
                   InRange("a", "net", 1, 3), InRange("b", "net", 1, 3)>>,
      cases |-> <<[weight |-> 2, params |-> <<>>],
                  [weight |-> 1,
                   params |-> <<Index("b", "net", 6), InRange("c", "net", 2, 7)>>]>>],
     [params |-> <<Param("small", "const", Literal(Prefix(5, 3))),
                   InRange("a", "small", 1, 2), InRange("b", "small", 1, 2),
                   InRange("c", "small", 1, 2), Index("d", "small", 3),
                   [Param("e", "choice", Literal(Text(0))) EXCEPT
                      !.of = {Placeholder("a"), Placeholder("c"), Literal(Text(7))}],
                   [Param("f", "int", Literal(Text(0))) EXCEPT !.lo = 1, !.hi = 2],
                   Param("g", "other", Literal(Text(0)))>>,
      cases |-> <<>>],
     [params |-> <<>>, cases |-> <<[weight |-> 1, params |-> <<>>], [weight |-> 0, params |-> <<>>]>>]}

\* Every case is picked by as many of the draws as its weight says.
ASSUME PickedAsWeighted ==
    \A weights \in [1 .. 3 -> 1 .. 3], i \in 1 .. 3 :
        LET draws == 0 .. (WeightTo(weights)[3] - 1)
        IN  Cardinality({d \in draws : PickCase(weights, d) = {i}}) = weights[i]

Recent == MaxClock - 1

\* Both users have an account and a session, and no login is under way: the state
\* after "nsl user add" and two logins.
SignedIn(role) ==
    /\ users = [n \in Names |->
          [password |-> "a", role |-> IF n = Root THEN "admin" ELSE role, disabled |-> FALSE]]
    /\ sessions = [l \in Logins |->
          [user |-> IF l = l1 THEN Root ELSE CHOOSE n \in Names : n # Root,
           lastSeen |-> Recent, expires |-> Recent + SessionTTL]]
    /\ limiter = <<>> /\ clock = Recent
    /\ login = [l \in Logins |-> DoneLogin]
    /\ request = [r \in Requests |-> IdleRequest]
    /\ strikes = [k \in Keys |-> [count |-> 0, last |-> 0, blockedAt |-> 0]]

\* A component that stands still does so in one of its initial states.
Init ==
    /\ part \in Edges
    /\ IF part = "requests" THEN \E role \in Roles : SignedIn(role)
       ELSE InitAccounts(IF part = "accounts" THEN Recent ELSE 1)
    /\ InitTerminals /\ InitEventSocket /\ InitDocker /\ InitVM
    /\ InitParams /\ InitMigrations /\ InitHistory
    /\ part \notin {"logins", "accounts", "requests"} =>
          \A n \in Names \ {Root} : users[n] = Absent
    /\ part # "events" => ~ realMode
    /\ part # "vm" => \A d \in Destroyers : ~ destroyer[d].gc
    /\ part # "params" => lab.cases = <<>>
    /\ part # "store" => recorded = {}
    /\ \A c \in Casts : (part # "history" \/ c = "c1") => tape[c].of = "p1"

Next ==
    /\ part' = part
    /\ \/ /\ \/ part = "logins" /\ (Tick \/ \E l \in Logins : NextLogin(l))
             \/ /\ part = "accounts"
                /\ Tick \/ (\E l \in Logins : NextLogin(l)) \/ NextRequest(r1) \/ NextCli
             \/ /\ part = "requests"
                /\ Tick \/ (\E r \in Requests : NextRequest(r)) \/ NextCli
          /\ UNCHANGED <<terminalVars, eventVars, dockerVars, vmVars,
                        paramVars, migrationVars, historyVars>>
       \/ /\ part = "terminals" /\ NextTerminals
          /\ UNCHANGED <<accountVars, eventVars, dockerVars, vmVars,
                        paramVars, migrationVars, historyVars>>
       \/ /\ part = "events" /\ NextEventSocket
          /\ UNCHANGED <<accountVars, terminalVars, dockerVars, vmVars,
                        paramVars, migrationVars, historyVars>>
       \/ /\ part = "docker" /\ NextDocker
          /\ UNCHANGED <<accountVars, terminalVars, eventVars, vmVars,
                        paramVars, migrationVars, historyVars>>
       \/ /\ part = "vm" /\ NextVM
          /\ UNCHANGED <<accountVars, terminalVars, eventVars, dockerVars,
                        paramVars, migrationVars, historyVars>>
       \/ /\ part = "params" /\ NextParams
          /\ UNCHANGED <<accountVars, terminalVars, eventVars, dockerVars, vmVars,
                        migrationVars, historyVars>>
       \/ /\ part = "store" /\ NextMigrations
          /\ UNCHANGED <<accountVars, terminalVars, eventVars, dockerVars, vmVars,
                        paramVars, historyVars>>
       \/ /\ part = "history" /\ NextHistory
          /\ UNCHANGED <<accountVars, terminalVars, eventVars, dockerVars, vmVars,
                        paramVars, migrationVars>>

Spec == Init /\ [][Next]_<<part, edgeVars>>

=============================================================================
