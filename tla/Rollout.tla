------------------------------- MODULE Rollout -------------------------------
(***************************************************************************)
(* executeDeploy of internal/stack/deployer.go: capture the state of every *)
(* service, deploy the services one after the other in dependency order    *)
(* under the per-service mutex, and roll back the services already done    *)
(* when one fails.  Several deployments may run at once (a webhook and a   *)
(* reconcile loop of one stack, or two stacks with a service of the same   *)
(* name): they share the containers, because a service's containers are    *)
(* found by name, and the mutexes.                                         *)
(*                                                                         *)
(* Every call to Docker that changes a container is one action.  Listing   *)
(* and inspecting a service's containers is one step.  A reconcile loop    *)
(* that is stopped takes the context of its deployment with it: whatever   *)
(* the deployment asks of Docker from then on fails, its rollback too.     *)
(***************************************************************************)
EXTENDS Integers, Sequences, FiniteSets

CONSTANTS
  Services,    \* service names
  Order,       \* the services, sorted by depends_on
  Replicas,    \* deploy.replicas of each service
  Deploys,     \* deployments: calls of executeDeploy
  Loops,       \* those that run in a reconcile loop
  Target,      \* the image each deployment's compose file names
  Before,      \* the containers there may be at the start: sequences of Found
  MaxIds,      \* bound: containers ever created
  MaxFaults,   \* bound: Docker calls that fail, loops stopped, containers turned unhealthy
  None

ASSUME RolloutAssumption ==
  /\ Order \in Seq(Services) /\ \A s \in Services : \E k \in 1..Len(Order) : Order[k] = s
  /\ Order # <<>> /\ \A j, k \in 1..Len(Order) : Order[j] = Order[k] => j = k
  /\ Replicas \in [Services -> Nat \ {0}]
  /\ Target \in [Deploys -> {"old", "new"}]
  /\ \A found \in Before : /\ found \in Seq([of : Services, image : {"old", "new"}])
                           /\ Len(found) <= MaxIds
  /\ MaxIds \in Nat /\ MaxFaults \in Nat
  /\ None \notin Deploys /\ Loops \subseteq Deploys

VARIABLES
  cont,      \* the Docker daemon's containers
  lock,      \* holder of each service's mutex
  d,         \* per deployment: position, local variables, whether its context lives
  faults,    \* faults so far
  decayed,   \* history: services with a container that turned unhealthy or exited
  reverted,  \* history: services a rollback has touched
  zombies    \* history: services with a container that could not be removed

vars == <<cont, lock, d, faults, decayed, reverted, zombies>>
histVars == <<faults, decayed, reverted, zombies>>

Ids == 1..MaxIds
Images == {"old", "new"}
Health == {"starting", "healthy", "unhealthy"}

\* up = "never": not created yet; up = "gone": removed.
Container == [of : Services \cup {None}, image : Images, up : Health \cup {"never", "gone"}]
Never == [of |-> None, image |-> "old", up |-> "never"]

\* A snapshot: the images of the containers found, or that listing them failed.
Snapshot == [known : BOOLEAN, was : SUBSET (Ids \X Images)]
NoSnapshot == [known |-> FALSE, was |-> {}]

PC == {"idle", "capture", "prepare", "service", "locked", "roll", "health", "swap",
       "undo", "undoRemove", "undoCreate", "done", "failed"}

\* i is the position in Order; fell, the position of the service that failed.
Deployment ==
  [pc : PC, i : 0..(Len(Order) + 1), keep : SUBSET Ids, replace : SUBSET Ids, need : Nat,
   new : Ids \cup {None}, before : Nat, found : Nat, snap : [Services -> Snapshot],
   todo : SUBSET (Ids \X Images), fell : 0..Len(Order), recreate : BOOLEAN, live : BOOLEAN]
Idle == [pc |-> "idle", i |-> 0, keep |-> {}, replace |-> {}, need |-> 0, new |-> None,
         before |-> 0, found |-> 0, snap |-> [s \in Services |-> NoSnapshot], todo |-> {},
         fell |-> 0, recreate |-> FALSE, live |-> TRUE]

TypeOK ==
  /\ cont \in [Ids -> Container]
  /\ lock \in [Services -> Deploys \cup {None}]
  /\ d \in [Deploys -> Deployment]
  /\ faults \in 0..MaxFaults
  /\ decayed \in SUBSET Services /\ reverted \in SUBSET Services /\ zombies \in SUBSET Services

-----------------------------------------------------------------------------
\* getServiceContainers: whatever carries the service's name, running or not.
getServiceContainers(s) == {c \in Ids : cont[c].of = s /\ cont[c].up \notin {"never", "gone"}}
Serving(s) == {c \in getServiceContainers(s) : cont[c].up = "healthy"}

\* Lists are in the order of Docker's answer: here, the order of creation.
IsFirst(c, S) == c \in S /\ \A b \in S : c <= b
IsFresh(c) == IsFirst(c, {b \in Ids : cont[b].up = "never"})

At(p, label) == d[p].pc = label
Svc(p) == Order[d[p].i]
Become(p, new) == d' = [d EXCEPT ![p] = new]
Goto(p, label) == d' = [d EXCEPT ![p].pc = label]

Fault == faults < MaxFaults /\ faults' = faults + 1
CallFails(p) == IF d[p].live THEN Fault ELSE UNCHANGED faults

Init ==
  /\ \E found \in Before :
       cont = [c \in Ids |-> IF c \in DOMAIN found
                             THEN [of |-> found[c].of, image |-> found[c].image, up |-> "healthy"]
                             ELSE Never]
  /\ lock = [s \in Services |-> None]
  /\ d = [p \in Deploys |-> Idle]
  /\ faults = 0
  /\ decayed = {} /\ reverted = {} /\ zombies = {}

-----------------------------------------------------------------------------
(* Before the first service: nothing is changed, a failure needs no rollback. *)

\* Clone, compose file, filter, sort; secretsChanged comes from the caller.
Begin(p) ==
  /\ At(p, "idle")
  /\ \/ \E b \in BOOLEAN : Become(p, [d[p] EXCEPT !.pc = "capture", !.i = 1, !.recreate = b])
     \/ Goto(p, "failed")
  /\ UNCHANGED <<cont, lock, histVars>>

\* captureServiceState, service by service; a failure is only logged.
Capture(p) ==
  LET was == {<<c, cont[c].image>> : c \in getServiceContainers(Svc(p))}
      last == d[p].i = Len(Order) IN
  /\ At(p, "capture")
  /\ \E ok \in {d[p].live, FALSE} :
       /\ Become(p, [d[p] EXCEPT !.snap[Svc(p)] = IF ok THEN [known |-> TRUE, was |-> was] ELSE @,
                                 !.pc = IF last THEN "prepare" ELSE "capture",
                                 !.i = IF last THEN 1 ELSE @ + 1])
       /\ IF ok THEN UNCHANGED faults ELSE CallFails(p)
  /\ UNCHANGED <<cont, lock, decayed, reverted, zombies>>

\* Networks and volumes, if the file declares any.
Prepare(p) ==
  /\ At(p, "prepare")
  /\ Goto(p, "service") \/ Goto(p, "failed")
  /\ UNCHANGED <<cont, lock, histVars>>

-----------------------------------------------------------------------------
(* One service. *)

\* A bind mount outside the repository: executeDeploy returns as it is.
BindMountRefused(p) ==
  /\ At(p, "service")
  /\ Goto(p, "failed")
  /\ UNCHANGED <<cont, lock, histVars>>

\* Mutated form: the service's mutex is not waited for.
LockServiceDropped(p) ==
  /\ At(p, "service")
  /\ lock' = [lock EXCEPT ![Svc(p)] = p]
  /\ Goto(p, "locked")
  /\ UNCHANGED <<cont, histVars>>

LockService(p) ==
  /\ At(p, "service") /\ lock[Svc(p)] = None
  /\ lock' = [lock EXCEPT ![Svc(p)] = p]
  /\ Goto(p, "locked")
  /\ UNCHANGED <<cont, histVars>>

\* deployService returns an error: unlock, then roll back what came before.
Fail(p, new) ==
  /\ lock' = [lock EXCEPT ![Svc(p)] = None]
  /\ Become(p, [d[p] EXCEPT !.pc = "undo", !.fell = d[p].i, !.i = @ - 1, !.new = new,
                            !.keep = {}, !.replace = {}, !.need = 0,
                            !.before = 0, !.found = 0, !.recreate = FALSE])

\* Replicas with a static port, a dependency condition, the pull, the listing.
DeployRefused(p) ==
  /\ At(p, "locked")
  /\ Fail(p, None)
  /\ UNCHANGED <<cont, histVars>>

\* Containers that deployService may keep, and those it must.
MayKeep(p) ==
  {c \in getServiceContainers(Svc(p)) :
     ~d[p].recreate /\ cont[c].image = Target[p] /\ cont[c].up # "unhealthy"}
MustKeep(p) == {c \in MayKeep(p) : cont[c].up = "healthy"}

\* Mutated form: the tail of too many kept containers is not cut.
PartitionKeepsAll(p) ==
  LET existing == getServiceContainers(Svc(p)) IN
  /\ At(p, "locked") /\ d[p].live
  /\ Become(p, [d[p] EXCEPT !.pc = "roll", !.keep = MustKeep(p), !.replace = existing \ MustKeep(p),
                            !.need = Replicas[Svc(p)] - Cardinality(MustKeep(p)),
                            !.before = Cardinality(Serving(Svc(p))),
                            !.found = Cardinality(existing)])
  /\ UNCHANGED <<cont, lock, histVars>>

\* Partition into keep and replace: a starting container is waited for and kept
\* or not; of more kept ones than replicas the tail is replaced.
Partition(p) ==
  LET existing == getServiceContainers(Svc(p))
      n == Replicas[Svc(p)] IN
  /\ At(p, "locked") /\ d[p].live
  /\ \E good \in SUBSET MayKeep(p) :
       /\ MustKeep(p) \subseteq good
       /\ cont' = [c \in Ids |-> IF c \in good THEN [cont[c] EXCEPT !.up = "healthy"] ELSE cont[c]]
       /\ \E keep \in SUBSET good :
            /\ Cardinality(keep) = IF Cardinality(good) > n THEN n ELSE Cardinality(good)
            /\ \A c \in keep, b \in good \ keep : c < b
            /\ Become(p, [d[p] EXCEPT !.pc = "roll", !.keep = keep, !.replace = existing \ keep,
                                      !.need = n - Cardinality(keep),
                                      !.before = Cardinality(Serving(Svc(p))),
                                      !.found = Cardinality(existing)])
  /\ UNCHANGED <<lock, histVars>>

\* A container created for the service p is at.
Launched(p, image, up) == [of |-> Svc(p), image |-> image, up |-> up]

Create(p) ==
  /\ At(p, "roll") /\ d[p].need > 0 /\ d[p].live
  /\ \E c \in Ids :
       /\ IsFresh(c)
       /\ cont' = [cont EXCEPT ![c] = Launched(p, Target[p], "starting")]
       /\ Become(p, [d[p] EXCEPT !.pc = "health", !.new = c])
  /\ UNCHANGED <<lock, histVars>>

\* Nothing was created, or what was created does not start and is removed;
\* removing it may fail too.
CreateFails(p) ==
  /\ At(p, "roll") /\ d[p].need > 0
  /\ Fail(p, None)
  /\ \/ UNCHANGED <<cont, faults, zombies>>
     \/ /\ CallFails(p)
        /\ zombies' = zombies \cup {Svc(p)}
        /\ \E c \in Ids : IsFresh(c) /\ cont' = [cont EXCEPT ![c] = Launched(p, Target[p], "unhealthy")]
  /\ UNCHANGED <<decayed, reverted>>

\* Mutated form: the old container goes without waiting for the new one.
HealthNotAwaited(p) ==
  /\ At(p, "health") /\ d[p].live /\ cont[d[p].new].up = "starting"
  /\ Goto(p, "swap")
  /\ UNCHANGED <<cont, lock, histVars>>

\* waitForHealthy on the new container ...
HealthOk(p) ==
  /\ At(p, "health") /\ d[p].live /\ cont[d[p].new].up = "starting"
  /\ cont' = [cont EXCEPT ![d[p].new].up = "healthy"]
  /\ Goto(p, "swap")
  /\ UNCHANGED <<lock, histVars>>

\* ... which also takes one that has already exited for healthy, when its image
\* has no health check.
HealthAssumed(p) ==
  /\ At(p, "health") /\ d[p].live /\ cont[d[p].new].up = "starting" /\ Fault
  /\ cont' = [cont EXCEPT ![d[p].new].up = "unhealthy"]
  /\ decayed' = decayed \cup {Svc(p)}
  /\ Goto(p, "swap")
  /\ UNCHANGED <<lock, reverted, zombies>>

\* Stop and force-remove container c; a failure is only logged and leaves the
\* container running or stopped.
StopAndRemove(p, c) ==
  \/ /\ d[p].live \/ cont[c].up = "gone"
     /\ cont' = [cont EXCEPT ![c].up = "gone"] /\ UNCHANGED <<faults, zombies>>
  \/ /\ cont[c].up # "gone" /\ CallFails(p)
     /\ zombies' = zombies \cup {Svc(p)}
     /\ \E up \in {cont[c].up, "unhealthy"} : cont' = [cont EXCEPT ![c].up = up]

\* It turned unhealthy, the wait timed out, or it cannot be inspected.
HealthFails(p) ==
  /\ At(p, "health")
  /\ StopAndRemove(p, d[p].new)
  /\ Fail(p, d[p].new)
  /\ UNCHANGED <<decayed, reverted>>

\* Mutated form: all old containers stay until the end.
SwapLate(p) ==
  /\ At(p, "swap")
  /\ Become(p, [d[p] EXCEPT !.pc = "roll", !.need = @ - 1, !.new = None])
  /\ UNCHANGED <<cont, lock, histVars>>

\* One old container goes for every new one.
Swap(p) ==
  LET rest(c) == [d[p] EXCEPT !.pc = "roll", !.need = @ - 1, !.new = None, !.replace = @ \ {c}] IN
  /\ At(p, "swap")
  /\ \/ d[p].replace = {} /\ Become(p, rest(None)) /\ UNCHANGED <<cont, faults, zombies>>
     \/ \E c \in d[p].replace :
          IsFirst(c, d[p].replace) /\ StopAndRemove(p, c) /\ Become(p, rest(c))
  /\ UNCHANGED <<lock, decayed, reverted>>

\* What is left to replace goes when all new replicas are up.
RemoveLeftover(p) ==
  /\ At(p, "roll") /\ d[p].need = 0
  /\ \E c \in d[p].replace :
       /\ IsFirst(c, d[p].replace)
       /\ StopAndRemove(p, c)
       /\ Become(p, [d[p] EXCEPT !.replace = @ \ {c}])
  /\ UNCHANGED <<lock, decayed, reverted>>

ServiceDone(p) ==
  LET last == d[p].i = Len(Order) IN
  /\ At(p, "roll") /\ d[p].need = 0 /\ d[p].replace = {}
  /\ lock' = [lock EXCEPT ![Svc(p)] = None]
  /\ Become(p, IF last THEN [Idle EXCEPT !.pc = "done"]
               ELSE [d[p] EXCEPT !.pc = "service", !.i = @ + 1, !.keep = {},
                                 !.before = 0, !.found = 0])
  /\ UNCHANGED <<cont, histVars>>

-----------------------------------------------------------------------------
(* rollbackServices: in reverse order, without the mutexes. *)

Undone(p) == [d[p] EXCEPT !.pc = "undo", !.i = @ - 1, !.replace = {}, !.todo = {}]

UndoFinished(p) ==
  /\ At(p, "undo") /\ d[p].i = 0
  /\ Goto(p, "failed")
  /\ UNCHANGED <<cont, lock, histVars>>

\* No snapshot, no containers before, or the listing fails.
UndoSkips(p) ==
  /\ At(p, "undo") /\ d[p].i > 0
  /\ Become(p, Undone(p))
  /\ d[p].snap[Svc(p)].was # {} => CallFails(p)
  /\ d[p].snap[Svc(p)].was = {} => UNCHANGED faults
  /\ UNCHANGED <<cont, lock, decayed, reverted, zombies>>

\* Mutated form: the containers of the failed deployment are left.
UndoListNothing(p) ==
  /\ At(p, "undo") /\ d[p].i > 0 /\ d[p].live /\ d[p].snap[Svc(p)].was # {}
  /\ Become(p, [d[p] EXCEPT !.pc = "undoRemove", !.replace = {}, !.todo = d[p].snap[Svc(p)].was])
  /\ reverted' = reverted \cup {Svc(p)}
  /\ UNCHANGED <<cont, lock, faults, decayed, zombies>>

UndoList(p) ==
  /\ At(p, "undo") /\ d[p].i > 0 /\ d[p].live /\ d[p].snap[Svc(p)].was # {}
  /\ Become(p, [d[p] EXCEPT !.pc = "undoRemove", !.replace = getServiceContainers(Svc(p)),
                            !.todo = d[p].snap[Svc(p)].was])
  /\ reverted' = reverted \cup {Svc(p)}
  /\ UNCHANGED <<cont, lock, faults, decayed, zombies>>

\* Everything the service has now is removed; a container that another
\* deployment removed meanwhile, or that does not go, ends this rollback.
UndoRemove(p) ==
  /\ At(p, "undoRemove")
  /\ \/ \E c \in d[p].replace :
          /\ IsFirst(c, d[p].replace)
          /\ \/ /\ cont[c].up # "gone" /\ d[p].live
                /\ cont' = [cont EXCEPT ![c].up = "gone"]
                /\ Become(p, [d[p] EXCEPT !.replace = @ \ {c}])
                /\ UNCHANGED faults
             \/ cont[c].up = "gone" /\ Become(p, Undone(p)) /\ UNCHANGED <<cont, faults>>
             \/ /\ cont[c].up # "gone" /\ CallFails(p) /\ Become(p, Undone(p))
                /\ \E up \in {cont[c].up, "unhealthy"} : cont' = [cont EXCEPT ![c].up = up]
     \/ d[p].replace = {} /\ Goto(p, "undoCreate") /\ UNCHANGED <<cont, faults>>
  /\ UNCHANGED <<lock, decayed, reverted, zombies>>

\* The captured containers are created again and started, not waited for; one
\* that cannot be created, or started once created, ends this rollback.
UndoCreate(p) ==
  /\ At(p, "undoCreate")
  /\ \/ \E t \in d[p].todo, c \in Ids :
          /\ IsFresh(c) /\ \A u \in d[p].todo : t[1] <= u[1]
          /\ \/ /\ d[p].live /\ cont' = [cont EXCEPT ![c] = Launched(p, t[2], "starting")]
                /\ Become(p, [d[p] EXCEPT !.todo = @ \ {t}])
                /\ UNCHANGED faults
             \/ /\ CallFails(p) /\ Become(p, Undone(p))
                /\ \/ UNCHANGED cont
                   \/ cont' = [cont EXCEPT ![c] = Launched(p, t[2], "unhealthy")]
     \/ d[p].todo = {} /\ Become(p, Undone(p)) /\ UNCHANGED <<cont, faults>>
  /\ UNCHANGED <<lock, decayed, reverted, zombies>>

\* RefreshStack or Stop cancels the context of the loop.
Cancel(p) ==
  /\ p \in Loops /\ d[p].live /\ d[p].pc \notin {"idle", "done", "failed"}
  /\ Fault
  /\ Become(p, [d[p] EXCEPT !.live = FALSE])
  /\ UNCHANGED <<cont, lock, decayed, reverted, zombies>>

\* A serving container fails its health check.
Decay(c) ==
  /\ cont[c].up = "healthy" /\ Fault
  /\ cont' = [cont EXCEPT ![c].up = "unhealthy"]
  /\ decayed' = decayed \cup {cont[c].of}
  /\ UNCHANGED <<lock, d, reverted, zombies>>

-----------------------------------------------------------------------------
DeployService(p) ==
  \/ LockService(p) \/ DeployRefused(p) \/ Partition(p) \/ Create(p) \/ CreateFails(p)
  \/ HealthOk(p) \/ HealthAssumed(p) \/ HealthFails(p) \/ Swap(p) \/ RemoveLeftover(p)
  \/ ServiceDone(p)

RollbackServices(p) ==
  UndoFinished(p) \/ UndoSkips(p) \/ UndoList(p) \/ UndoRemove(p) \/ UndoCreate(p)

ExecuteDeploy(p) ==
  \/ Begin(p) \/ Capture(p) \/ Prepare(p) \/ BindMountRefused(p) \/ Cancel(p)
  \/ DeployService(p) \/ RollbackServices(p)

Next == (\E p \in Deploys : ExecuteDeploy(p)) \/ (\E c \in Ids : Decay(c))

Spec == Init /\ [][Next]_vars

-----------------------------------------------------------------------------
Rolling == {"roll", "health", "swap"}
Smaller(a, b) == IF a < b THEN a ELSE b
Larger(a, b) == IF a < b THEN b ELSE a
Finished == \A p \in Deploys : d[p].pc \in {"idle", "done", "failed"}

\* Zero downtime: while deployService replaces the containers of a service, as
\* many of them serve as served before, up to the number of replicas, unless
\* one turned unhealthy or exited on its own or a rollback, which takes no
\* mutex, got in the way.  An old container is only removed for a new healthy
\* one, also when none of the old ones is kept: the comment in deployService
\* expects a brief gap then, and there is none.
KeepsServing ==
  \A p \in Deploys : d[p].pc \in Rolling /\ Svc(p) \notin decayed \cup reverted =>
    Cardinality(Serving(Svc(p))) >= Smaller(Replicas[Svc(p)], d[p].before)

\* The number of containers stays about constant during a rollout: one more
\* than before, or than there are replicas, however many deployments of the
\* service are waiting, when removals work and no rollback gets in the way.
BoundedSurge ==
  \A p \in Deploys : d[p].pc \in Rolling /\ Svc(p) \notin reverted \cup zombies =>
    Cardinality(getServiceContainers(Svc(p))) <= Larger(Replicas[Svc(p)], d[p].found) + 1

\* When every deployment that ran succeeded, without faults and for one image,
\* each service has exactly its replicas, all serving that image: deployments
\* that overlapped did not each create a set of their own.
Converges ==
  /\ Finished /\ faults = 0
  /\ \A p \in Deploys : d[p].pc # "failed"
  /\ \E p \in Deploys : d[p].pc = "done"
  => \A p \in Deploys : d[p].pc = "done" /\ (\A q \in Deploys : Target[q] = Target[p]) =>
       \A s \in Services :
         /\ Cardinality(getServiceContainers(s)) = Replicas[s]
         /\ \A c \in getServiceContainers(s) : cont[c].image = Target[p] /\ cont[c].up = "healthy"

\* The images of service s are those the snapshot of p shows.
AsCaptured(p, s) ==
  \A image \in Images :
    Cardinality({c \in getServiceContainers(s) : cont[c].image = image})
      = Cardinality({t \in d[p].snap[s].was : t[2] = image})

\* The only deployment that ran has failed, and nothing else went wrong.
FailedAlone(p) ==
  /\ At(p, "failed") /\ faults = 0
  /\ \A q \in Deploys \ {p} : At(q, "idle")

\* Service s has its replicas, of the image deployment p names.
UpdatedTo(p, s) ==
  /\ Cardinality(getServiceContainers(s)) = Replicas[s]
  /\ \A c \in getServiceContainers(s) : cont[c].image = Target[p]

\* A service that was deployed before the one whose rollout failed has the
\* containers captured before the deployment again, number and images; one that
\* had none before is not taken down and keeps its new ones.  (A refused bind
\* mount is no failed rollout: executeDeploy returns and nothing is rolled back.)
EarlierServicesRestored ==
  \A p \in Deploys : FailedAlone(p) =>
    \A k \in 1..(d[p].fell - 1) :
      IF d[p].snap[Order[k]].was = {} THEN UpdatedTo(p, Order[k]) ELSE AsCaptured(p, Order[k])
=============================================================================
