-------------------------------- MODULE Drift --------------------------------
(***************************************************************************)
(* The GitOps loop around one stack: checkDrift of the reconciler compares *)
(* the compose file at the branch head with what runs on the host, and     *)
(* executeDeploy of the deployer makes the host follow the compose file.   *)
(* The two were written apart: the one normalises images, the other        *)
(* compares them exactly; each names the volumes and reads the service     *)
(* filter itself.  Meanwhile commits are pushed, containers fail or are    *)
(* removed, secrets are rotated and cleanupLoop prunes what does not run.  *)
(*                                                                         *)
(* A service's rollout is one step here; Rollout has its inner steps, and  *)
(* concurrent deployments.  Plan has the order of the services: here any   *)
(* order is taken in which dependencies come first.                        *)
(***************************************************************************)
EXTENDS Naturals, FiniteSets

CONSTANTS
  Services,    \* service names; no name is another one, an underscore and more
  Versions,    \* commits of the branch
  Compose,     \* what the compose file of each commit says, see ComposeAssumption
  Filters,     \* what service_filter may name, {} for an empty filter
  MaxPer,      \* bound: declared replicas of a service
  MaxEvents,   \* bound: pushes, failures of containers, removals, rotations
  MaxFaults    \* bound: steps of a deployment that fail

\* services; image of each, as spelled and as it is looked up; replicas;
\* deps and cond: depends_on; healthcheck, once (runs to an end) and static
\* (publishes a fixed host port): services; networks; volumes by logical name.
ASSUME ComposeAssumption ==
  \A v \in Versions :
    /\ Compose[v].services \subseteq Services
    /\ Compose[v].replicas \in [Compose[v].services -> 1..MaxPer]
    /\ Compose[v].deps \in [Compose[v].services -> SUBSET Compose[v].services]
    /\ \A s \in Compose[v].services :
         Compose[v].image[s] = [ref |-> Compose[v].image[s].ref,
                                spelling |-> Compose[v].image[s].spelling]
    /\ \A l \in DOMAIN Compose[v].volumes : Compose[v].volumes[l].external \in BOOLEAN

ASSUME BoundsAssumption ==
  MaxPer \in Nat \ {0} /\ MaxEvents \in Nat /\ MaxFaults \in Nat

\* No service has an empty name.
ASSUME NamesAssumption == "" \notin Services

VARIABLES
  head,      \* the commit the branch is at
  filter,    \* the stack's service_filter
  conts,     \* the containers of the stack
  vols,      \* volumes of the host
  nets,      \* networks of the host
  stale,     \* the secrets differ from the hash of the last successful deployment
  pc,        \* where the loop is
  ver,       \* the commit that was cloned
  todo,      \* services still to deploy
  snap,      \* the containers before the deployment
  recreate,  \* secretsChanged
  rotated,   \* history: the secrets changed since the deployment read them
  touched,   \* history: the host or the secrets changed behind the deployment
  since,     \* cycles begun since the last cleanup, up to two
  events, faults

work == <<pc, ver, todo, snap, recreate>>
host == <<conts, vols, nets>>
vars == <<head, filter, host, stale, work, rotated, touched, since, events, faults>>

File(v) == Compose[v]

-----------------------------------------------------------------------------
(* The compose file and the host, as the reconciler sees them.             *)

\* A filter of white space only.
Blank == {""}

\* filterServices; a blank filter is an empty one.
Checked(v) == IF filter \in {{}, Blank} THEN File(v).services ELSE File(v).services \cap filter

\* listStackContainers: whatever the state; grouped by the accelero-service label.
Labelled(s) == {c \in conts : c.svc = s}

\* Mutated form: two tags of one repository match.
imagesMatchRepository(desired, actual) ==
  desired.ref = actual.ref \/ desired.spelling = actual.spelling

\* Default tag and registry prefix are filled in on both sides.
imagesMatch(desired, actual) == desired.ref = actual.ref

\* Mutated form: the name a volume is given is not looked at.
resolveDriftVolumeNameScoped(logical, cfg) ==
  IF cfg.external THEN <<logical>> ELSE <<"accelero", "stack", logical>>

resolveDriftVolumeName(logical, cfg) ==
  CASE cfg.name # ""                  -> <<cfg.name>>
    [] cfg.name = "" /\ cfg.external  -> <<logical>>
    [] cfg.name = "" /\ ~cfg.external -> <<"accelero", "stack", logical>>

Item(S, type) == {<<s, type>> : s \in S}

\* checkDrift; a container is stopped unless the listing shows it as running.
Report(v) ==
  LET f == File(v)
      Has(s, Bad(_)) == \E c \in Labelled(s) : Bad(c)
      Of(Bad(_)) == {s \in Checked(v) : Has(s, Bad)}
      few      == {s \in Checked(v) : Cardinality(Labelled(s)) < f.replicas[s]}
      many     == {s \in Checked(v) : Cardinality(Labelled(s)) > f.replicas[s]}
      mismatch == {s \in Checked(v) : Has(s, LAMBDA c : ~imagesMatch(f.image[s], c.image))}
      lost     == {l \in DOMAIN f.volumes : resolveDriftVolumeName(l, f.volumes[l]) \notin vols}
      outer    == {l \in lost : f.volumes[l].external}
  IN UNION {Item(few, "missing"), Item(many, "extra"), Item(mismatch, "image_mismatch"),
            Item(Of(LAMBDA c : c.state \in {"exited", "crashed", "paused"}), "stopped"),
            Item(Of(LAMBDA c : c.state = "unhealthy"), "unhealthy"),
            Item({c.svc : c \in conts} \ Checked(v), "extra"),
            Item(f.networks \ nets, "missing"),
            Item(lost \ outer, "missing"), Item(outer, "missing_external"),
            Item({"secrets" : x \in {y \in {1} : stale}}, "secrets_changed")}

-----------------------------------------------------------------------------
(* The same, as the deployer sees them.                                    *)

\* getServiceContainers: by name.
Named(s) == {c \in conts : c.svc = s}

resolveVolumeName(logical, cfg) ==
  IF cfg.name # "" THEN <<cfg.name>>
  ELSE IF cfg.external THEN <<logical>> ELSE <<"accelero", "stack", logical>>

\* The services named and all they depend on, as topologicalSort adds them.
Expanded == [v \in Versions |-> [asked \in SUBSET File(v).services |->
  LET Closed(T) == asked \subseteq T /\ \A s \in T : File(v).deps[s] \subseteq T
  IN {s \in File(v).services : \A T \in SUBSET File(v).services : Closed(T) => s \in T}]]

\* resolveServiceFilter; a blank filter is not an empty one and names no service.
Planned(v) ==
  Expanded[v][IF filter = {} THEN File(v).services ELSE filter \cap File(v).services]

\* Mutated form: a container of the image is kept, whatever its state.
KeepableAnyState(v, s, again) ==
  {c \in Named(s) : ~again /\ c.image = File(v).image[s]}

\* deployService keeps what has exactly the image, runs and is not unhealthy; to
\* Docker's State.Running, a paused container runs.
Keepable(v, s, again) ==
  {c \in Named(s) : ~again /\ c.image = File(v).image[s] /\ c.state \in {"running", "paused"}}

\* The containers it keeps, at most the declared replicas, and how many it creates.
Kept(v, s, again) ==
  LET good == Keepable(v, s, again) IN
  {K \in SUBSET good : \/ K = good /\ Cardinality(good) <= File(v).replicas[s]
                       \/ Cardinality(K) = File(v).replicas[s]}
Need(v, s, again) ==
  LET good == Cardinality(Keepable(v, s, again)) IN
  IF good > File(v).replicas[s] THEN 0 ELSE File(v).replicas[s] - good

\* waitForDependencyHealthy: one healthy container is enough; none, none healthy
\* any more, or no healthcheck is an error; it waits while one is starting.
\* waitForDependencyExit: all have exited with 0; one that did not is an error, and
\* so is, when the time is up, one that runs on.
DependencyOk(v, s, t) ==
  \/ File(v).cond[s][t] = "started"
  \/ /\ File(v).cond[s][t] = "healthy" /\ t \in File(v).healthcheck
     /\ \E c \in Named(t) : c.state \in {"running", "paused"}
  \/ /\ File(v).cond[s][t] = "completed" /\ Named(t) # {}
     /\ \A c \in Named(t) : c.state = "exited"
DependencyBad(v, s, t) ==
  \/ /\ File(v).cond[s][t] = "healthy"
     /\ t \in File(v).healthcheck => \A c \in Named(t) : c.state \notin {"running", "paused"}
  \/ /\ File(v).cond[s][t] = "completed"
     /\ Named(t) = {} \/ \E c \in Named(t) : c.state \in {"crashed", "paused"}

\* Replicas of one host port, and a new container on the port of a running one.
Collides(v, s) == File(v).replicas[s] > 1 /\ s \in File(v).static
PortTaken(v, s) == /\ s \in File(v).static
                   /\ \E c \in Named(s) : c.state \in {"running", "paused", "unhealthy"}

-----------------------------------------------------------------------------
Init == /\ head \in Versions /\ filter \in Filters
        /\ conts = {} /\ vols = {<<"ext">>} /\ nets = {} /\ stale = FALSE
        /\ pc = "idle" /\ ver = head /\ todo = {} /\ snap = {} /\ recreate = FALSE
        /\ rotated = FALSE /\ touched = FALSE
        /\ since = 0 /\ events = 0 /\ faults = 0

other == <<filter, since, events>>

\* The clone, a pull or a call to Docker fails.
Fault == faults < MaxFaults /\ faults' = faults + 1

\* fetchDesiredState clones the head of the branch ...
Fetch == /\ pc \in {"idle", "done"}
         /\ pc' = "check" /\ ver' = head
         /\ since' = IF since = 2 THEN 2 ELSE since + 1
         /\ UNCHANGED <<head, filter, events, host, stale, todo, snap, recreate, rotated, touched, faults>>

\* runDeployment marks the row, reads the secrets and compares them with the
\* stored hash.  If they cannot be read it returns: the row stays "deploying".
LoadSecrets == /\ \/ /\ pc' = "clone" /\ recreate' = stale
                     /\ rotated' = FALSE /\ touched' = FALSE /\ UNCHANGED faults
                  \/ pc' = "stuck" /\ Fault /\ UNCHANGED <<recreate, rotated, touched>>
               /\ UNCHANGED <<head, other, host, stale, ver, todo, snap>>

\* ... and the host is compared with it; drift calls Deploy.
InSync  == /\ pc = "check" /\ Report(ver) = {}
           /\ pc' = "idle"
           /\ UNCHANGED <<head, other, host, stale, ver, todo, snap, recreate, rotated, touched, faults>>
Drifted == pc = "check" /\ Report(ver) # {} /\ LoadSecrets

\* A webhook or POST /deploy does not look at drift; the webhook does not look at
\* the row either.
Trigger == pc \in {"idle", "done", "stuck"} /\ LoadSecrets

\* Cycles and POST /deploy skip a row that reads "deploying", until an operator
\* puts another status.
Reset == /\ pc = "stuck" /\ pc' = "idle"
         /\ UNCHANGED <<head, other, host, stale, ver, todo, snap, recreate, rotated, touched, faults>>

\* cloneRepo clones again: the head may have moved since the check.
Clone == /\ pc = "clone"
         /\ \/ pc' = "prepare" /\ ver' = head /\ UNCHANGED faults
            \/ pc' = "idle" /\ Fault /\ UNCHANGED ver
         /\ UNCHANGED <<head, other, host, stale, todo, snap, recreate, rotated, touched>>

External(v) == {l \in DOMAIN File(v).volumes : File(v).volumes[l].external}
Names(v, L) == {resolveVolumeName(l, File(v).volumes[l]) : l \in L}

\* The filter, the snapshot, the networks, then the volumes: an external one that
\* does not exist fails the deployment, after the networks and some volumes.
Prepare ==
  LET internal == DOMAIN File(ver).volumes \ External(ver)
      ok == Names(ver, External(ver)) \subseteq vols IN
  /\ pc = "prepare"
  /\ \/ Planned(ver) = {} /\ pc' = "idle" /\ UNCHANGED <<todo, snap, nets, vols>>
     \/ /\ Planned(ver) # {}
        /\ nets' = nets \cup File(ver).networks
        /\ \E made \in SUBSET internal :
             /\ ok => made = internal
             /\ vols' = vols \cup Names(ver, made)
        /\ pc'   = IF ok THEN "deploy" ELSE "idle"
        /\ todo' = IF ok THEN Planned(ver) ELSE {}
        /\ snap' = IF ok THEN conts ELSE {}
  /\ UNCHANGED <<head, other, conts, stale, ver, recreate, rotated, touched, faults>>

Upcoming(s) == s \in todo /\ File(ver).deps[s] \cap todo = {}

\* Mutated form: numbers of containers that stay are used again.
FreshAgain(s, stay, k) ==
  {[svc |-> s, n |-> n, image |-> File(ver).image[s], state |-> "running"] : n \in 1..k}

\* k new containers beside those that stay, told apart by a number.
Fresh(s, stay, k) ==
  LET free == {n \in 1..(2 * MaxPer + 1) : \A c \in stay : c.n # n} IN
  {[svc |-> s, n |-> n, image |-> File(ver).image[s], state |-> "running"] :
     n \in CHOOSE N \in SUBSET free : Cardinality(N) = k}

\* deployService succeeds: the new containers replace all the others but the kept
\* ones.  stopAndRemove swallows its errors: a container may stay behind.
DeployService(s) ==
  LET need == Need(ver, s, recreate) IN
  /\ pc = "deploy" /\ Upcoming(s) /\ ~Collides(ver, s)
  /\ todo' = todo \ {s}
  /\ UNCHANGED <<head, other, vols, nets, stale, pc, ver, snap, recreate, rotated>>
  /\ \A t \in File(ver).deps[s] : DependencyOk(ver, s, t)
  /\ need > 0 => File(ver).networks \subseteq nets /\ ~PortTaken(ver, s)
  /\ \E keep \in Kept(ver, s, recreate), behind \in SUBSET Named(s) :
       /\ behind \cap keep = {}
       /\ IF behind = {} THEN UNCHANGED <<touched, faults>>
                         ELSE Cardinality(behind) = 1 /\ Fault /\ touched' = TRUE
       /\ conts' = (conts \ Named(s)) \cup keep \cup behind
                           \cup Fresh(s, keep \cup behind, need)

\* What fails the rollout of service s although every call works.
Blocked(s) ==
  \/ Collides(ver, s)
  \/ \E t \in File(ver).deps[s] : DependencyBad(ver, s, t)
  \/ Need(ver, s, recreate) > 0 /\ (PortTaken(ver, s) \/ ~(File(ver).networks \subseteq nets))

\* rollbackServices: the services done that had containers get these again, running.
Undone == {c.svc : c \in snap} \cap (Planned(ver) \ todo)
Recreated(S) == {[c EXCEPT !.state = "running"] : c \in {b \in snap : b.svc \in S}}

\* deployService fails, at once or after some replicas, for which one old container
\* went each; the services before are rolled back, or some containers are not.
FailService(s) ==
  LET need    == Need(ver, s, recreate)
      blocked == Blocked(s)
      undone  == Undone IN
  /\ pc = "deploy" /\ Upcoming(s)
  /\ IF blocked THEN UNCHANGED faults ELSE Fault
  /\ pc' = "idle" /\ todo' = {} /\ snap' = {}
  /\ UNCHANGED <<head, other, vols, nets, stale, ver, recreate, rotated, touched>>
  /\ \E keep \in Kept(ver, s, recreate), made \in 0..need, gone \in SUBSET Named(s) :
       /\ made = 0 \/ (~blocked /\ made < need)
       /\ gone \cap keep = {}
       /\ Cardinality(gone) = IF Cardinality(Named(s) \ keep) < made
                              THEN Cardinality(Named(s) \ keep) ELSE made
       /\ \E restored \in IF blocked THEN {Recreated(undone)} ELSE SUBSET Recreated(undone) :
            conts' = restored \cup {c \in (conts \ gone) \cup Fresh(s, Named(s) \ gone, made) :
                                   c.svc \notin undone}

\* Success stores the hash of the secrets the deployment has used.
Finish == /\ pc = "deploy" /\ todo = {}
          /\ pc' = "done" /\ stale' = rotated /\ snap' = {}
          /\ UNCHANGED <<head, other, host, ver, todo, recreate, rotated, touched, faults>>

-----------------------------------------------------------------------------
(* Everything else.                                                        *)

Event == events < MaxEvents /\ events' = events + 1
quiet == <<work, faults, filter, since>>

Push == /\ Event /\ head' \in Versions \ {head}
        /\ UNCHANGED <<host, stale, rotated, touched, quiet>>

\* A container fails, is removed or paused by hand, or its healthcheck fails.  One
\* without a healthcheck that is being restarted looks like a paused one.
Breaks == /\ Event /\ touched' = TRUE
          /\ \E c \in conts :
               /\ c.state = "running"
               /\ \/ conts' = conts \ {c}
                  \/ \E x \in {"crashed", "paused"} :
                       conts' = (conts \ {c}) \cup {[c EXCEPT !.state = x]}
                  \/ /\ c.svc \in File(ver).healthcheck
                     /\ conts' = (conts \ {c}) \cup {[c EXCEPT !.state = "unhealthy"]}
          /\ UNCHANGED <<head, vols, nets, stale, rotated, quiet>>

Resumes == /\ Event /\ touched' = TRUE
           /\ \E c \in conts : /\ c.state = "paused"
                               /\ conts' = (conts \ {c}) \cup {[c EXCEPT !.state = "running"]}
           /\ UNCHANGED <<head, vols, nets, stale, rotated, quiet>>

\* Volumes come and go by hand; Docker keeps those a container mounts.
VolumeChanges == /\ Event /\ touched' = TRUE
                 /\ \/ vols' = vols \ {<<"ext">>}
                    \/ conts = {} /\ vols' = vols \cap {<<"ext">>}
                    \/ <<"ext">> \notin vols /\ vols' = vols \cup {<<"ext">>}
                 /\ UNCHANGED <<head, conts, nets, stale, rotated, quiet>>

Rotate == /\ Event /\ touched' = TRUE
          /\ stale' = TRUE /\ rotated' = TRUE
          /\ UNCHANGED <<head, host, quiet>>

\* cleanupLoop, day after day: containers that do not run, networks without a
\* running one.  Between two days the loop has a cycle of its own.
Prune == /\ since = 2 /\ since' = 0 /\ touched' = TRUE
         /\ conts' = {c \in conts : c.state \in {"running", "paused", "unhealthy"}}
         /\ nets' = IF conts' = {} THEN {} ELSE nets
         /\ UNCHANGED <<head, vols, stale, rotated, events, work, faults, filter>>

\* A service that runs to its end does so; the container stays, exited.
JobEnds(s) == /\ s \in File(ver).once
              /\ \E c \in Labelled(s) :
                   /\ c.state = "running"
                   /\ conts' = (conts \ {c}) \cup {[c EXCEPT !.state = "exited"]}
              /\ UNCHANGED <<head, vols, nets, stale, rotated, touched, events, quiet>>

Loop == \/ Fetch \/ InSync \/ Drifted \/ Clone \/ Prepare \/ Finish
        \/ \E s \in Services : DeployService(s) \/ FailService(s)

Next == \/ Loop \/ Trigger \/ Reset
        \/ Push \/ Breaks \/ Resumes \/ VolumeChanges \/ Rotate \/ Prune
        \/ \E s \in Services : JobEnds(s)

\* The loop runs on its ticker; a job ends at last.
Fairness == WF_vars(Loop) /\ \A s \in Services : WF_vars(JobEnds(s))

Spec == Init /\ [][Next]_vars /\ Fairness

-----------------------------------------------------------------------------
Container == [svc : Services, n : 1..(2 * MaxPer + 1), image : UNION {{Compose[v].image[s] :
                s \in Compose[v].services} : v \in Versions},
              state : {"running", "paused", "exited", "crashed", "unhealthy"}]

(* Types; two containers are never the same replica at the same time; only *)
(* a rollout has services to deploy.                                       *)
TypeOK == /\ head \in Versions /\ ver \in Versions /\ filter \in Filters
          /\ conts \subseteq Container /\ snap \subseteq Container
          /\ \A c, d \in conts : c.svc = d.svc /\ c.n = d.n => c = d
          /\ pc \in {"idle", "check", "clone", "prepare", "deploy", "done", "stuck"}
          /\ todo \subseteq Services /\ (todo # {} => pc = "deploy")
          /\ {stale, recreate, rotated, touched} \subseteq BOOLEAN
          /\ since \in 0..2 /\ events \in 0..MaxEvents /\ faults \in 0..MaxFaults

\* Drift that no deployment removes: containers of services the filter or the
\* compose file does not name; jobs, which are "stopped" as soon as they end; and
\* paused containers, which the reconciler reports and the deployer keeps.
Undeployable(v) == UNION {Item(Services \ Checked(v), "extra"), Item(File(v).once, "stopped"),
                          Item({c.svc : c \in {b \in conts : b.state = "paused"}}, "stopped")}

(* A deployment that succeeds has removed the drift: what the reconciler   *)
(* finds right after it is only what no deployment removes.  The deployer  *)
(* and the reconciler must agree on images, replicas, states, volumes,     *)
(* networks and the secrets hash, or every cycle deploys again.            *)
DeployClears == pc = "done" /\ ~touched => Report(ver) \subseteq Undeployable(ver)

(* The other way: where the reconciler finds no drift, a deployment would  *)
(* find every checked service in sync, unless the image is only spelled    *)
(* otherwise, and all its volumes and networks there.                      *)
NothingMissed ==
  Report(head) = {} =>
    /\ Names(head, DOMAIN File(head).volumes) \subseteq vols
    /\ File(head).networks \subseteq nets
    /\ \A s \in Checked(head) :
         (\A c \in Named(s) : c.image.spelling = File(head).image[s].spelling)
           => Named(s) \in Kept(head, s, stale) /\ Need(head, s, stale) = 0

\* What keeps every deployment of the head from succeeding.
Hopeless ==
  \/ Planned(head) = {}
  \/ ~(Names(head, External(head)) \subseteq vols)
  \/ \E s \in Planned(head) :
       \/ Collides(head, s)
       \/ Need(head, s, stale) > 0 /\ PortTaken(head, s)
       \/ \E t \in File(head).deps[s] :
            /\ File(head).cond[s][t] = "completed"
            /\ \E c \in Keepable(head, t, stale) : c.state = "paused"

(* The loop converges: once nothing but the daily cleanup disturbs the     *)
(* stack any more, its drift is gone for good, but for what no deployment  *)
(* removes and the ended jobs that the cleanup takes away; unless it       *)
(* cannot be deployed, or was left "deploying", with no deployment running *)
(* and cycles that skip it.                                                *)
Settles ==
  <>[](\/ Hopeless \/ pc = "stuck"
       \/ Report(head) \subseteq Undeployable(head) \cup Item(File(head).once, "missing"))
=============================================================================
