------------------------------ MODULE VMProvider ------------------------------
(***************************************************************************)
(* The virtual machine provider of internal/provider/vm: one Provision of  *)
(* a sandbox, and the calls of Destroy and GC that may run while it does   *)
(* and while another one does.                                             *)
(*                                                                         *)
(* libvirt is external: a command may fail with or without having had its  *)
(* effect.  A domain is defined, running, or "transient": undefined while  *)
(* it ran, and gone for good when it is destroyed.                         *)
(*                                                                         *)
(* Every object here is owned by this attempt of this instance; what others*)
(* own does not match and is in no inventory.  Left out: the keys, seeds   *)
(* and XML that are written to the sandbox directory, except that the disk *)
(* of a machine lies there.                                                *)
(***************************************************************************)
EXTENDS Naturals, SequencesExt

CONSTANTS
    MachineOrder, \* spec.Nodes
    NetOrder,     \* spec.Links
    SetupScript,  \* the spec has a setup script
    Destroyers    \* calls of Destroy or GC from outside

OnFailure == "on-failure"   \* the Destroy at the end of a failed Provision
AllDestroyers == Destroyers \cup {OnFailure}
Machines == ToSet(MachineOrder)
Nets == ToSet(NetOrder)

ASSUME VMAssumption ==
    /\ SetupScript \in BOOLEAN
    /\ MachineOrder # <<>>
    /\ NetOrder \in Seq(Nets)

VARIABLES
    domain,      \* state of the domain of each machine
    nets,        \* the networks there are
    dir,         \* the sandbox directory is there
    building,    \* how far Provision is
    maker,       \* how far the goroutine of each machine is in the stage
    destroyer

vmVars == <<domain, nets, dir, building, maker, destroyer>>

InitVM ==
    /\ domain = [n \in Machines |-> "none"]
    /\ nets = {}
    /\ dir = FALSE
    /\ building = [pc |-> "dir", next |-> 1]
    /\ maker = [n \in Machines |-> "idle"]
    /\ \E collectors \in SUBSET Destroyers :
         destroyer = [d \in AllDestroyers |->
          [pc |-> "idle", gc |-> d \in collectors, domains |-> {}, nets |-> {}, undefine |-> {}, empty |-> TRUE,
           hadDir |-> TRUE, failed |-> FALSE, alone |-> FALSE]]

-----------------------------------------------------------------------------
(* Provision *)

BuildAt(pc) == building.pc = pc

\* From one stage to the next; a stage that has machines starts all goroutines.
BuildNext(pc) ==
    /\ building' = [pc |-> pc, next |-> 1]
    /\ maker' = [n \in Machines |->
          CASE pc = "create" -> "overlay"
            [] pc \in {"agents", "bootstrap"} -> "exec"
            [] OTHER -> "idle"]

BuildFails ==
    /\ building' = [building EXCEPT !.pc = "cleanup"]
    /\ UNCHANGED maker

MakeDir ==
    /\ BuildAt("dir")
    /\ dir' = TRUE
    /\ IF NetOrder = <<>> THEN BuildNext("create")
       ELSE building' = [building EXCEPT !.pc = "networks"] /\ UNCHANGED maker
    /\ UNCHANGED <<domain, nets, destroyer>>

\* The file of the network is written to the directory, so that has to be there.
CreateNetwork ==
    /\ BuildAt("networks")
    /\ dir /\ NetOrder[building.next] \notin nets
    /\ nets' = nets \cup {NetOrder[building.next]}
    /\ IF building.next < Len(NetOrder)
       THEN building' = [building EXCEPT !.next = @ + 1] /\ UNCHANGED maker
       ELSE BuildNext("create")
    /\ UNCHANGED <<domain, dir, destroyer>>

\* One of the steps outside the goroutines fails: a directory, a network, with or
\* without its effect.
CreateFails(done) ==
    /\ BuildAt("dir") \/ BuildAt("networks")
    /\ BuildFails
    /\ IF done /\ BuildAt("networks") /\ dir
       THEN nets' = nets \cup {NetOrder[building.next]}
       ELSE UNCHANGED nets
    /\ dir' = (dir \/ (done /\ BuildAt("dir")))
    /\ UNCHANGED <<domain, destroyer>>

\* createNode.  The overlay needs the directory; makeDir of the seed makes it again
\* when it is gone.
Overlay(n) ==
    /\ BuildAt("create") /\ maker[n] = "overlay"
    /\ dir
    /\ maker' = [maker EXCEPT ![n] = "seed"]
    /\ UNCHANGED <<domain, nets, dir, building, destroyer>>

Seed(n) ==
    /\ maker[n] = "seed"
    /\ dir' = TRUE
    /\ maker' = [maker EXCEPT ![n] = "define"]
    /\ UNCHANGED <<domain, nets, building, destroyer>>

Define(n, ok) ==
    /\ maker[n] = "define"
    /\ domain[n] = "none"
    /\ domain' = [domain EXCEPT ![n] = "defined"]
    /\ maker' = [maker EXCEPT ![n] = IF ok THEN "start" ELSE "failed"]
    /\ UNCHANGED <<nets, dir, building, destroyer>>

StartDomain(n, ok) ==
    /\ maker[n] = "start"
    /\ domain[n] = "defined" /\ dir
    /\ domain' = [domain EXCEPT ![n] = "running"]
    /\ maker' = [maker EXCEPT ![n] = IF ok THEN "ok" ELSE "failed"]
    /\ UNCHANGED <<nets, dir, building, destroyer>>

\* waitAgents and bootstrap talk to the guest.
ExecOnMachine(n) ==
    /\ maker[n] = "exec"
    /\ domain[n] \in {"running", "transient"}
    /\ maker' = [maker EXCEPT ![n] = "ok"]
    /\ UNCHANGED <<domain, nets, dir, building, destroyer>>

\* Any step of a goroutine may fail without an effect: the command, a file, the
\* deadline of the boot, a script, the context.
MakerFails(n) ==
    /\ maker[n] \notin {"idle", "ok", "failed"}
    /\ maker' = [maker EXCEPT ![n] = "failed"]
    /\ UNCHANGED <<domain, nets, dir, building, destroyer>>

AfterStage == [create |-> "agents", agents |-> "bootstrap",
               bootstrap |-> IF SetupScript THEN "setup" ELSE "ready"]

\* Mutant: the first error is enough to go on.
JoinFirst ==
    /\ building.pc \in DOMAIN AfterStage
    /\ \/ /\ \E n \in Machines : maker[n] = "failed"
          /\ BuildFails
       \/ /\ \A n \in Machines : maker[n] = "ok"
          /\ BuildNext(AfterStage[building.pc])
    /\ UNCHANGED <<domain, nets, dir, destroyer>>

\* forEachNode waits for every goroutine before it joins their errors.
JoinNodes ==
    /\ building.pc \in DOMAIN AfterStage
    /\ \A n \in Machines : maker[n] \in {"ok", "failed"}
    /\ IF \E n \in Machines : maker[n] = "failed" THEN BuildFails
       ELSE BuildNext(AfterStage[building.pc])
    /\ UNCHANGED <<domain, nets, dir, destroyer>>

\* runSetup goes through the machines in order, up to the first that fails.
RunSetup ==
    /\ BuildAt("setup")
    /\ domain[MachineOrder[building.next]] \in {"running", "transient"}
    /\ IF building.next < Len(MachineOrder)
       THEN building' = [building EXCEPT !.next = @ + 1] /\ UNCHANGED maker
       ELSE BuildNext("ready")
    /\ UNCHANGED <<domain, nets, dir, destroyer>>

SetupFails ==
    /\ BuildAt("setup")
    /\ BuildFails
    /\ UNCHANGED <<domain, nets, dir, destroyer>>

ProvisionReturns ==
    /\ BuildAt("cleanup") /\ destroyer[OnFailure].pc \in {"done", "not-found"}
    /\ building' = [building EXCEPT !.pc = "failed"]
    /\ UNCHANGED <<domain, nets, dir, maker, destroyer>>

-----------------------------------------------------------------------------
(* Destroy and GC *)

DestroyAt(d, pc) == destroyer[d].pc = pc

MayBegin(d) == d = OnFailure => BuildAt("cleanup")

\* owned: the domains and then the networks.
ListDomains(d) ==
    /\ DestroyAt(d, "idle") /\ MayBegin(d)
    /\ destroyer' = [destroyer EXCEPT ![d] =
          [@ EXCEPT !.pc = "nets", !.domains = {n \in Machines : domain[n] # "none"},
                    !.alone = building.pc \in {"ready", "cleanup", "failed"}]]
    /\ UNCHANGED <<domain, nets, dir, building, maker>>

ListNets(d) ==
    /\ DestroyAt(d, "nets")
    /\ destroyer' = [destroyer EXCEPT ![d] =
          [@ EXCEPT !.pc = "remove", !.nets = nets,
                    !.empty = destroyer[d].empty /\ nets = {} /\ destroyer[d].domains = {}]]
    /\ UNCHANGED <<domain, nets, dir, building, maker>>

\* A list cannot be read: Destroy and GC return and leave everything.
ListFails(d) ==
    /\ DestroyAt(d, "nets") \/ (DestroyAt(d, "idle") /\ MayBegin(d))
    /\ destroyer' = [destroyer EXCEPT ![d].pc = "done", ![d].failed = TRUE]
    /\ UNCHANGED <<domain, nets, dir, building, maker>>

\* virsh destroy; a domain that does not run or is not there is as good.
DestroyDomain(d, n) ==
    /\ DestroyAt(d, "remove") /\ n \in destroyer[d].domains
    /\ destroyer[d].undefine = {}
    /\ domain' = [domain EXCEPT ![n] =
          CASE @ = "running" -> "defined" [] @ = "transient" -> "none" [] OTHER -> @]
    /\ destroyer' = [destroyer EXCEPT ![d].domains = @ \ {n}, ![d].undefine = {n}]
    /\ UNCHANGED <<nets, dir, building, maker>>

UndefineDomain(d, n) ==
    /\ n \in destroyer[d].undefine
    /\ domain' = [domain EXCEPT ![n] =
          CASE @ = "running" -> "transient" [] @ = "defined" -> "none" [] OTHER -> @]
    /\ destroyer' = [destroyer EXCEPT ![d].undefine = {}]
    /\ UNCHANGED <<nets, dir, building, maker>>

\* A domain that cannot be destroyed is not undefined.
RemoveDomainFails(d, n) ==
    /\ \/ /\ DestroyAt(d, "remove") /\ n \in destroyer[d].domains
          /\ destroyer[d].undefine = {}
       \/ n \in destroyer[d].undefine
    /\ domain[n] # "none"
    /\ destroyer' = [destroyer EXCEPT ![d].domains = @ \ {n}, ![d].undefine = {},
                                      ![d].failed = TRUE]
    /\ UNCHANGED <<domain, nets, dir, building, maker>>

NoDomainLeft(d) == destroyer[d].domains = {} /\ destroyer[d].undefine = {}

DestroyNet(d, net) ==
    /\ DestroyAt(d, "remove") /\ NoDomainLeft(d)
    /\ net \in destroyer[d].nets
    /\ nets' = nets \ {net}
    /\ destroyer' = [destroyer EXCEPT ![d].nets = @ \ {net}]
    /\ UNCHANGED <<domain, dir, building, maker>>

DestroyNetFails(d, net) ==
    /\ DestroyAt(d, "remove") /\ NoDomainLeft(d)
    /\ net \in destroyer[d].nets /\ net \in nets
    /\ destroyer' = [destroyer EXCEPT ![d].nets = @ \ {net}, ![d].failed = TRUE]
    /\ UNCHANGED <<domain, nets, dir, building, maker>>

\* Destroy keeps the directory when something could not be removed, GC does not.
RemoveEnds(d) ==
    /\ DestroyAt(d, "remove") /\ NoDomainLeft(d) /\ destroyer[d].nets = {}
    /\ destroyer' = [destroyer EXCEPT ![d].pc =
          IF destroyer[d].failed /\ ~ destroyer[d].gc THEN "done" ELSE "stat"]
    /\ UNCHANGED <<domain, nets, dir, building, maker>>

StatDir(d) ==
    /\ DestroyAt(d, "stat")
    /\ destroyer' = [destroyer EXCEPT ![d].pc = "dir", ![d].hadDir = dir]
    /\ UNCHANGED <<domain, nets, dir, building, maker>>

\* ErrSandboxNotFound: there was nothing at all.
RemoveDir(d) ==
    /\ DestroyAt(d, "dir")
    /\ dir' = FALSE
    /\ destroyer' = [destroyer EXCEPT ![d].pc =
          IF destroyer[d].empty /\ ~ destroyer[d].hadDir /\ ~ destroyer[d].gc
          THEN "not-found" ELSE "done"]
    /\ UNCHANGED <<domain, nets, building, maker>>

RemoveDirFails(d) ==
    /\ DestroyAt(d, "dir") /\ dir
    /\ destroyer' = [destroyer EXCEPT ![d].pc = "done", ![d].failed = TRUE]
    /\ UNCHANGED <<domain, nets, dir, building, maker>>

-----------------------------------------------------------------------------
NextVM ==
    \/ MakeDir \/ CreateNetwork \/ JoinNodes \/ RunSetup \/ SetupFails \/ ProvisionReturns
    \/ \E done \in BOOLEAN : CreateFails(done)
    \/ \E n \in Machines :
         \/ Overlay(n) \/ Seed(n) \/ ExecOnMachine(n) \/ MakerFails(n)
         \/ \E ok \in BOOLEAN : Define(n, ok) \/ StartDomain(n, ok)
    \/ \E d \in AllDestroyers :
         \/ ListDomains(d) \/ ListNets(d) \/ ListFails(d)
         \/ RemoveEnds(d) \/ StatDir(d) \/ RemoveDir(d) \/ RemoveDirFails(d)
         \/ \E n \in Machines :
              DestroyDomain(d, n) \/ UndefineDomain(d, n) \/ RemoveDomainFails(d, n)
         \/ \E net \in Nets : DestroyNet(d, net) \/ DestroyNetFails(d, net)

-----------------------------------------------------------------------------
\* A Destroy or GC that reports no error, or ErrSandboxNotFound, which its callers
\* take for success, and began when Provision was creating nothing any more, has left
\* no machine, network or directory of the sandbox, however many of them overlap.  A
\* failed Provision begins its own only after all goroutines are through.
DestroyedIsGone ==
    \A d \in AllDestroyers :
        (destroyer[d].pc \in {"done", "not-found"} /\ ~ destroyer[d].failed
         /\ destroyer[d].alone) =>
            /\ \A n \in Machines : domain[n] = "none"
            /\ nets = {} /\ ~ dir

=============================================================================
