---------------------------- MODULE DockerProvider ----------------------------
(***************************************************************************)
(* The container provider of internal/provider/docker: one Provision of a  *)
(* sandbox, and the removers (Destroy and Collect) that may run while it   *)
(* does and while another one does.                                        *)
(*                                                                         *)
(* The daemon is external: a call may fail with or without having had its  *)
(* effect, a container that is removed stays "dying" for a while, and its  *)
(* endpoints stay attached for a while after that.                         *)
(*                                                                         *)
(* Every object here carries the labels of this attempt and instance; what *)
(* carries other labels is in no list that remove reads.  Left out: the    *)
(* options of networks and containers, and what the scripts print.         *)
(***************************************************************************)
EXTENDS Naturals, SequencesExt

CONSTANTS
    NodeOrder,       \* spec.Nodes
    LinkOrder,       \* spec.Links
    Endpoints,       \* for each link the nodes on it
    K3s,             \* the spec has k3s nodes, and a server among them or not
    HasSetup,        \* the spec has a setup script
    RemoveAttempts,  \* networkRemoveAttempts
    Removers         \* calls of Destroy or Collect from outside

ASSUME DockerAssumption ==
    /\ RemoveAttempts \in Nat \ {0}
    /\ K3s \in {"none", "server", "no-server"}
    /\ HasSetup \in BOOLEAN
    /\ LinkOrder \in Seq(ToSet(LinkOrder))

Mgmt == "mgmt"
Cleanup == "cleanup"   \* the Destroy at the end of a failed Provision
Nodes == ToSet(NodeOrder)
Networks == {Mgmt} \cup ToSet(LinkOrder)
AllRemovers == Removers \cup {Cleanup}

VARIABLES
    container,   \* state of the container of each node
    network,     \* the networks there are
    endpoints,   \* for each network the nodes attached to it
    provision,   \* how far Provision is
    ready,       \* the stages each node went through
    remover

dockerVars == <<container, network, endpoints, provision, ready, remover>>

\* The calls to the daemon that create something, each named after its place: the
\* loop that makes it and where in the loop.  The management network comes before
\* those of the links.
CreateNetworks == [loop : {1}, at : {0} \cup DOMAIN LinkOrder, of : {0}]

\* A container is created on the management network and started before the next.
CreateContainers == [loop : {2}, at : DOMAIN NodeOrder, of : {1, 2}]

\* The endpoints of a link are taken in the order of the nodes.
ConnectLinks ==
    {c \in [loop : {3}, at : DOMAIN LinkOrder, of : DOMAIN NodeOrder] :
        NodeOrder[c.of] \in Endpoints[LinkOrder[c.at]]}

Plan == CreateNetworks \cup CreateContainers \cup ConnectLinks

\* The loops run one after the other, and each goes through its places in order.
Earlier(c, d) ==
    \/ c.loop < d.loop
    \/ c.loop = d.loop /\ c.at < d.at
    \/ c.loop = d.loop /\ c.at = d.at /\ c.of < d.of

Call(does, node, net) == [does |-> does, node |-> node, net |-> net]

\* What is asked at a place of the plan.
CallAt(c) ==
    CASE c.loop = 1 -> Call("network", Mgmt, IF c.at = 0 THEN Mgmt ELSE LinkOrder[c.at])
      [] c.loop = 2 -> Call(IF c.of = 1 THEN "create" ELSE "start", NodeOrder[c.at], Mgmt)
      [] c.loop = 3 -> Call("connect", NodeOrder[c.of], LinkOrder[c.at])

\* The stages after them.  The first two run on all nodes at once (forEachNode),
\* the others on one node after the other.
Stages ==
    <<"systemd", "bootstrap">>
    \o (IF K3s = "none" THEN <<>> ELSE <<"k3s">>)
    \o (IF HasSetup THEN <<"setup">> ELSE <<>>)

InitDocker ==
    /\ container = [n \in Nodes |-> "none"]
    /\ network = {}
    /\ endpoints = [net \in Networks |-> {}]
    /\ provision = [pc |-> "call", made |-> {}, stage |-> 1, busy |-> {}, failed |-> {}]
    /\ ready = [n \in Nodes |-> {}]
    /\ remover = [r \in AllRemovers |->
          [pc |-> "idle", todo |-> {}, removing |-> {}, tries |-> 0,
           failed |-> FALSE, alone |-> FALSE]]

-----------------------------------------------------------------------------
(* The daemon *)

Exists(n) == container[n] \in {"created", "running"}

\* Whether the daemon can do what is asked, and what it does.
Possible(call) ==
    CASE call.does = "network" -> call.net \notin network
      [] call.does = "create" -> container[call.node] = "none" /\ Mgmt \in network
      [] call.does = "start" -> container[call.node] = "created"
      [] call.does = "connect" -> Exists(call.node) /\ call.net \in network

Effect(call) ==
    /\ network' = IF call.does = "network" THEN network \cup {call.net} ELSE network
    /\ container' = CASE call.does = "create" -> [container EXCEPT ![call.node] = "created"]
                      [] call.does = "start" -> [container EXCEPT ![call.node] = "running"]
                      [] OTHER -> container
    /\ endpoints' = IF call.does \in {"start", "connect"}
                    THEN [endpoints EXCEPT ![call.net] = @ \cup {call.node}]
                    ELSE endpoints

ContainerGone(n) ==
    /\ container[n] = "dying"
    /\ container' = [container EXCEPT ![n] = "none"]
    /\ UNCHANGED <<network, endpoints, provision, ready, remover>>

EndpointGone(net, n) ==
    /\ container[n] = "none" /\ n \in endpoints[net]
    /\ endpoints' = [endpoints EXCEPT ![net] = @ \ {n}]
    /\ UNCHANGED <<container, network, provision, ready, remover>>

-----------------------------------------------------------------------------
(* Provision *)

\* provision makes its calls one after the other.
IsNext(c) ==
    /\ provision.pc = "call"
    /\ c \notin provision.made
    /\ \A d \in Plan : Earlier(d, c) => d \in provision.made

\* The next call succeeds.  After the last one the first stage begins on all nodes.
ProvisionCall ==
    \E c \in Plan :
        /\ IsNext(c)
        /\ Possible(CallAt(c))
        /\ Effect(CallAt(c))
        /\ provision' = IF Plan \subseteq provision.made \cup {c}
                        THEN [provision EXCEPT !.made = Plan, !.pc = "stage", !.busy = Nodes]
                        ELSE [provision EXCEPT !.made = @ \cup {c}]
        /\ UNCHANGED <<ready, remover>>

\* The next call fails; the daemon may have done what was asked all the same.
ProvisionCallFails(done) ==
    \E c \in Plan :
        /\ IsNext(c)
        /\ done => Possible(CallAt(c))
        /\ IF done THEN Effect(CallAt(c)) ELSE UNCHANGED <<network, container, endpoints>>
        /\ provision' = [provision EXCEPT !.pc = "cleanup"]
        /\ UNCHANGED <<ready, remover>>

Stage == Stages[provision.stage]

\* runSetup goes through the nodes in order.
Turn(n) ==
    /\ n \in provision.busy
    /\ Stage = "setup" =>
         n = SelectSeq(NodeOrder, LAMBDA m : m \in provision.busy)[1]

\* A node gets through the stage, which needs its container, or does not: systemd
\* is not ready by its deadline, a script fails or times out, the context is
\* cancelled.  The k3s server answers for all nodes at once.
NodePasses(n) ==
    /\ provision.pc = "stage" /\ Turn(n)
    /\ Stage # "k3s"
    /\ container[n] = "running"
    /\ provision' = [provision EXCEPT !.busy = @ \ {n}]
    /\ ready' = [ready EXCEPT ![n] = @ \cup {Stage}]
    /\ UNCHANGED <<container, network, endpoints, remover>>

K3sReady ==
    /\ provision.pc = "stage" /\ provision.busy # {}
    /\ Stage = "k3s" /\ K3s = "server"
    /\ \A n \in Nodes : container[n] = "running"
    /\ provision' = [provision EXCEPT !.busy = {}]
    /\ ready' = [n \in Nodes |-> ready[n] \cup {Stage}]
    /\ UNCHANGED <<container, network, endpoints, remover>>

NodeFails(n) ==
    /\ provision.pc = "stage" /\ Turn(n)
    /\ provision' = [provision EXCEPT
          !.busy = IF Stage \in {"systemd", "bootstrap"} THEN @ \ {n} ELSE {},
          !.failed = @ \cup {n}]
    /\ UNCHANGED <<container, network, endpoints, ready, remover>>

\* Mutant: the error of the first node is taken for all of them.
StageEndsFirst ==
    /\ provision.pc = "stage" /\ provision.busy = {}
    /\ provision' =
          CASE NodeOrder[1] \in provision.failed -> [provision EXCEPT !.pc = "cleanup"]
            [] provision.stage < Len(Stages) ->
                 [provision EXCEPT !.stage = @ + 1, !.busy = Nodes]
            [] OTHER -> [provision EXCEPT !.pc = "ready"]
    /\ UNCHANGED <<container, network, endpoints, ready, remover>>

\* All nodes are through: the errors of all of them are joined.
StageEnds ==
    /\ provision.pc = "stage" /\ provision.busy = {}
    /\ provision' =
          CASE provision.failed # {} -> [provision EXCEPT !.pc = "cleanup"]
            [] provision.failed = {} /\ provision.stage < Len(Stages) ->
                 [provision EXCEPT !.stage = @ + 1, !.busy = Nodes]
            [] OTHER -> [provision EXCEPT !.pc = "ready"]
    /\ UNCHANGED <<container, network, endpoints, ready, remover>>

\* Provision returns its error once Destroy returned, whatever that says.
ProvisionFails ==
    /\ provision.pc = "cleanup" /\ remover[Cleanup].pc = "done"
    /\ provision' = [provision EXCEPT !.pc = "failed"]
    /\ UNCHANGED <<container, network, endpoints, ready, remover>>

-----------------------------------------------------------------------------
(* remove, the body of Destroy and Collect *)

Removing(r, pc) == remover[r].pc = pc

\* It lists the containers.  alone: nothing creates any more.
ListContainers(r) ==
    /\ Removing(r, "idle")
    /\ r = Cleanup => provision.pc = "cleanup"
    /\ remover' = [remover EXCEPT ![r] =
          [@ EXCEPT !.pc = "containers", !.todo = {n \in Nodes : container[n] # "none"},
                    !.alone = provision.pc \notin {"call", "stage"}]]
    /\ UNCHANGED <<container, network, endpoints, provision, ready>>

\* A list cannot be read, or the context is cancelled while it waits.
RemoverFails(r) ==
    /\ \/ Removing(r, "idle") /\ (r = Cleanup => provision.pc = "cleanup")
       \/ /\ r # Cleanup /\ Removing(r, "wait")
          /\ \E n \in remover[r].removing : container[n] # "none"
       \/ Removing(r, "list")
    /\ remover' = [remover EXCEPT ![r].pc = "done", ![r].failed = TRUE]
    /\ UNCHANGED <<container, network, endpoints, provision, ready>>

\* A container that is there begins to die, one that is dying is waited for, one
\* that is gone is skipped.
RemoveContainer(r, n) ==
    /\ Removing(r, "containers") /\ n \in remover[r].todo
    /\ container' = IF container[n] = "none" THEN container
                    ELSE [container EXCEPT ![n] = "dying"]
    /\ remover' = [remover EXCEPT ![r].todo = @ \ {n},
          ![r].removing = IF container[n] = "none" THEN @ ELSE @ \cup {n}]
    /\ UNCHANGED <<network, endpoints, provision, ready>>

\* Mutant: an error is taken for a container that is gone.
RemoveContainerSkips(r, n) ==
    /\ Removing(r, "containers") /\ n \in remover[r].todo
    /\ Exists(n)
    /\ remover' = [remover EXCEPT ![r].todo = @ \ {n}]
    /\ UNCHANGED <<container, network, endpoints, provision, ready>>

\* Any other error is collected, and the next container is tried.
RemoveContainerFails(r, n) ==
    /\ Removing(r, "containers") /\ n \in remover[r].todo
    /\ Exists(n)
    /\ container' \in {container, [container EXCEPT ![n] = "dying"]}
    /\ remover' = [remover EXCEPT ![r].todo = @ \ {n}, ![r].failed = TRUE]
    /\ UNCHANGED <<network, endpoints, provision, ready>>

\* waitGone ends when the daemon knows none of them or after its timeout, which
\* is only logged.
WaitGone(r) ==
    \/ /\ Removing(r, "containers") /\ remover[r].todo = {}
       /\ remover' = [remover EXCEPT ![r].pc = "wait"]
       /\ UNCHANGED <<container, network, endpoints, provision, ready>>
    \/ /\ Removing(r, "wait")
       /\ remover' = [remover EXCEPT ![r].pc = "list", ![r].removing = {}]
       /\ UNCHANGED <<container, network, endpoints, provision, ready>>

ListNetworks(r) ==
    /\ Removing(r, "list")
    /\ remover' = [remover EXCEPT ![r].pc = "networks", ![r].todo = network]
    /\ UNCHANGED <<container, network, endpoints, provision, ready>>

\* removeNetwork for the networks one after the other: gone, tried again while
\* endpoints are attached, or given up with an error.
RemoveNetwork(r, net) ==
    /\ Removing(r, "networks") /\ net \in remover[r].todo
    /\ endpoints[net] = {} \/ net \notin network
    /\ network' = network \ {net}
    /\ remover' = [remover EXCEPT ![r].todo = @ \ {net}, ![r].tries = 0]
    /\ UNCHANGED <<container, endpoints, provision, ready>>

RemoveNetworkAgain(r, net) ==
    /\ Removing(r, "networks") /\ net \in remover[r].todo
    /\ net \in network /\ endpoints[net] # {}
    /\ remover[r].tries < RemoveAttempts - 1
    /\ remover' = [remover EXCEPT ![r].tries = @ + 1]
    /\ UNCHANGED <<container, network, endpoints, provision, ready>>

RemoveNetworkFails(r, net) ==
    /\ Removing(r, "networks") /\ net \in remover[r].todo
    /\ net \in network
    /\ remover' = [remover EXCEPT ![r].todo = @ \ {net}, ![r].tries = 0, ![r].failed = TRUE]
    /\ UNCHANGED <<container, network, endpoints, provision, ready>>

RemoverReturns(r) ==
    /\ Removing(r, "networks") /\ remover[r].todo = {}
    /\ remover' = [remover EXCEPT ![r].pc = "done"]
    /\ UNCHANGED <<container, network, endpoints, provision, ready>>

-----------------------------------------------------------------------------
NextDocker ==
    \/ ProvisionCall \/ K3sReady \/ StageEnds \/ ProvisionFails
    \/ \E done \in BOOLEAN : ProvisionCallFails(done)
    \/ \E n \in Nodes : NodePasses(n) \/ NodeFails(n) \/ ContainerGone(n)
    \/ \E net \in Networks, n \in Nodes : EndpointGone(net, n)
    \/ \E r \in AllRemovers :
         \/ ListContainers(r) \/ RemoverFails(r) \/ WaitGone(r) \/ ListNetworks(r)
         \/ RemoverReturns(r)
         \/ \E n \in Nodes : RemoveContainer(r, n) \/ RemoveContainerFails(r, n)
         \/ \E net \in Networks :
              RemoveNetwork(r, net) \/ RemoveNetworkAgain(r, net) \/ RemoveNetworkFails(r, net)

-----------------------------------------------------------------------------
\* A removal that reports no error, and began when nothing was created any more, has
\* left nothing behind but containers the daemon is tearing down, however many
\* removals overlap, and whether or not a removal wait was given up (remove; so a
\* failed Provision whose cleanup logs no error leaves nothing).
ReportedRemovalIsReal ==
    \A r \in AllRemovers :
        (Removing(r, "done") /\ ~ remover[r].failed /\ remover[r].alone) =>
            /\ network = {}
            /\ \A n \in Nodes : ~ Exists(n)

\* The sandbox that Provision returns is whole, unless somebody began to remove it:
\* every container runs, on all of its networks, and has been through every stage;
\* no error of any of the calls or of any node is lost on the way (forEachNode).
ReadyIsWhole ==
    (provision.pc = "ready" /\ \A r \in AllRemovers : Removing(r, "idle")) =>
        /\ network = Networks
        /\ \A n \in Nodes :
             /\ container[n] = "running"
             /\ ready[n] = ToSet(Stages)
             /\ \A net \in Networks :
                  (net = Mgmt \/ n \in Endpoints[net]) => n \in endpoints[net]

=============================================================================
