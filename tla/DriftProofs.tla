----------------------------- MODULE DriftProofs -----------------------------
(***************************************************************************)
(* Proofs about the GitOps loop, for every compose file, number of         *)
(* services, replicas, commits, events and faults.                         *)
(***************************************************************************)
EXTENDS Drift, FiniteSetTheorems, TLAPS

-----------------------------------------------------------------------------
(* Finite sets. *)

\* A finite set has subsets of every smaller size.
LEMMA SubsetOfSize ==
  ASSUME NEW S, IsFiniteSet(S), NEW k \in Nat, k <= Cardinality(S)
  PROVE  \E N \in SUBSET S : IsFiniteSet(N) /\ Cardinality(N) = k
<1>1. Cardinality(S) \in Nat /\ ExistsBijection(1..Cardinality(S), S)
  BY FS_CardinalityType
<1>2. PICK f \in Bijection(1..Cardinality(S), S) : TRUE
  BY <1>1 DEF ExistsBijection
<1>3. /\ f \in [1..Cardinality(S) -> S]
      /\ \A i, j \in 1..Cardinality(S) : f[i] = f[j] => i = j
  BY <1>2 DEF Bijection, Injection, IsInjective
<1> DEFINE N == {f[i] : i \in 1..k}
           h == [i \in 1..k |-> f[i]]
<1>4. 1..k \subseteq 1..Cardinality(S)
  BY <1>1
<1>5. N \in SUBSET S
  BY <1>3, <1>4
<1>6. h \in [1..k -> N] /\ \A i, j \in 1..k : h[i] = h[j] => i = j
  BY <1>3, <1>4
<1>7. \A n \in N : \E i \in 1..k : h[i] = n
  OBVIOUS
<1>8. h \in Bijection(1..k, N)
  BY <1>6, <1>7 DEF Bijection, Injection, Surjection, IsInjective
<1>9. ExistsBijection(1..k, N)
  BY <1>8 DEF ExistsBijection
<1>10. Cardinality(N) = k
  BY <1>9, FS_CountingElements
<1>11. IsFiniteSet(N)
  BY <1>5, FS_Subset
<1>12. QED
  BY <1>5, <1>10, <1>11

\* Two disjoint finite sets.
LEMMA DisjointUnion ==
  ASSUME NEW S, NEW T, IsFiniteSet(S), IsFiniteSet(T), S \cap T = {}
  PROVE  IsFiniteSet(S \cup T) /\ Cardinality(S \cup T) = Cardinality(S) + Cardinality(T)
<1>1. Cardinality(S) \in Nat /\ Cardinality(T) \in Nat /\ Cardinality(S \cap T) = 0
  BY FS_CardinalityType, FS_EmptySet
<1>2. /\ IsFiniteSet(S \cup T)
      /\ Cardinality(S \cup T) = Cardinality(S) + Cardinality(T) - Cardinality(S \cap T)
  BY FS_Union
<1>3. QED
  BY <1>1, <1>2

\* What is left of a finite set without a part of it.
LEMMA WithoutPart ==
  ASSUME NEW S, IsFiniteSet(S), NEW T \in SUBSET S
  PROVE  /\ IsFiniteSet(T) /\ IsFiniteSet(S \ T)
         /\ Cardinality(S) \in Nat /\ Cardinality(T) \in Nat /\ Cardinality(S \ T) \in Nat
         /\ Cardinality(S \ T) = Cardinality(S) - Cardinality(T)
<1>1. S \cap T = T
  OBVIOUS
<1>2. IsFiniteSet(T) /\ IsFiniteSet(S \ T) /\ Cardinality(S \ T) = Cardinality(S) - Cardinality(T)
  BY <1>1, FS_Difference, FS_Subset
<1>3. QED
  BY <1>2, FS_CardinalityType

-----------------------------------------------------------------------------
(* The containers of a host. *)

Group(C, s) == {c \in C : c.svc = s}
Unique(C) == \A c, d \in C : c.svc = d.svc /\ c.n = d.n => c = d

\* At most one container more than there may be replicas: one that a removal
\* left behind.
HostOK(C) ==
  /\ C \subseteq Container /\ Unique(C)
  /\ \A s \in Services : IsFiniteSet(Group(C, s)) /\ Cardinality(Group(C, s)) <= MaxPer + 1

LEMMA HostEmpty == HostOK({})
<1>1. \A s : Group({}, s) = {}
  BY DEF Group
<1>2. QED
  BY <1>1, FS_EmptySet, BoundsAssumption DEF HostOK, Unique

\* Removing containers.
LEMMA HostSubset ==
  ASSUME NEW C, HostOK(C), NEW D \in SUBSET C
  PROVE  HostOK(D)
<1>1. D \subseteq Container /\ Unique(D)
  BY DEF HostOK, Unique
<1>2. ASSUME NEW s \in Services
      PROVE  IsFiniteSet(Group(D, s)) /\ Cardinality(Group(D, s)) <= MaxPer + 1
  <2>1. Group(D, s) \in SUBSET Group(C, s) /\ IsFiniteSet(Group(C, s)) /\ Cardinality(Group(C, s)) <= MaxPer + 1
    BY DEF HostOK, Group
  <2>2. IsFiniteSet(Group(D, s)) /\ Cardinality(Group(D, s)) <= Cardinality(Group(C, s))
    BY <2>1, FS_Subset
  <2>3. Cardinality(Group(D, s)) \in Nat /\ Cardinality(Group(C, s)) \in Nat
    BY <2>1, <2>2, FS_CardinalityType
  <2>4. QED
    BY <2>1, <2>2, <2>3, BoundsAssumption
<1>3. QED
  BY <1>1, <1>2 DEF HostOK

\* Containers of different services do not get in each other's way.
LEMMA HostUnion ==
  ASSUME NEW C, NEW D, HostOK(C), HostOK(D), \A c \in C, d \in D : c.svc # d.svc
  PROVE  HostOK(C \cup D)
<1>1. C \cup D \subseteq Container /\ Unique(C \cup D)
  BY DEF HostOK, Unique
<1>2. \A s \in Services : Group(C \cup D, s) = Group(C, s) \/ Group(C \cup D, s) = Group(D, s)
  BY DEF Group
<1>3. QED
  BY <1>1, <1>2 DEF HostOK

\* A container changes its state.
LEMMA HostState ==
  ASSUME NEW C, HostOK(C), NEW c \in C, NEW e \in Container,
         e.svc = c.svc, e.n = c.n, NEW D, D = (C \ {c}) \cup {e}
  PROVE  /\ HostOK(D)
         /\ \A s \in Services : Cardinality(Group(D, s)) = Cardinality(Group(C, s))
<1>1. D \subseteq Container /\ Unique(D)
  BY DEF HostOK, Unique
<1>2. ASSUME NEW s \in Services
      PROVE  IsFiniteSet(Group(D, s)) /\ Cardinality(Group(D, s)) = Cardinality(Group(C, s))
  <2>0. IsFiniteSet(Group(C, s))
    BY DEF HostOK
  <2>1. CASE s # c.svc
    <3>1. Group(D, s) = Group(C, s)
      BY <2>1 DEF Group
    <3>2. QED
      BY <2>0, <3>1
  <2>2. CASE s = c.svc
    <3>1. Group(D, s) = (Group(C, s) \ {c}) \cup {e} /\ c \in Group(C, s)
      BY <2>2 DEF Group
    <3>2. e \notin Group(C, s) \ {c}
      <4>1. Unique(C)
        BY DEF HostOK
      <4>2. QED
        BY <4>1 DEF Group, Unique
    <3>3. /\ IsFiniteSet(Group(C, s) \ {c})
          /\ Cardinality(Group(C, s) \ {c}) = Cardinality(Group(C, s)) - 1
      BY <2>0, <3>1, FS_RemoveElement
    <3>4. Cardinality(Group(C, s)) \in Nat
      BY <2>0, FS_CardinalityType
    <3>5. IsFiniteSet(Group(D, s)) /\ Cardinality(Group(D, s)) = Cardinality(Group(C, s) \ {c}) + 1
      <4>1. PICK X : X = Group(C, s) \ {c}
        OBVIOUS
      <4>2. IsFiniteSet(X) /\ e \notin X /\ Group(D, s) = X \cup {e}
        BY <3>1, <3>2, <3>3, <4>1
      <4>3. IsFiniteSet(X \cup {e}) /\ Cardinality(X \cup {e}) = Cardinality(X) + 1
        BY <4>2, FS_AddElement
      <4>4. QED
        BY <4>1, <4>2, <4>3
    <3>6. QED
      BY <3>3, <3>4, <3>5
  <2>3. QED
    BY <2>1, <2>2
<1>3. QED
  BY <1>1, <1>2 DEF HostOK

\* The containers of one service are replaced.
LEMMA HostService ==
  ASSUME NEW C, HostOK(C), NEW s \in Services, NEW N, N \subseteq Container, Unique(N),
         \A c \in N : c.svc = s, IsFiniteSet(N), Cardinality(N) <= MaxPer + 1
  PROVE  /\ HostOK((C \ Group(C, s)) \cup N)
         /\ Group((C \ Group(C, s)) \cup N, s) = N
         /\ \A t \in Services \ {s} : Group((C \ Group(C, s)) \cup N, t) = Group(C, t)
<1>1. HostOK(C \ Group(C, s))
  BY HostSubset
<1>2. HostOK(N)
  <2>1. \A t \in Services : Group(N, t) = N \/ Group(N, t) = {}
    BY DEF Group
  <2>2. QED
    BY <2>1, FS_EmptySet, BoundsAssumption DEF HostOK
<1>3. \A c \in C \ Group(C, s), d \in N : c.svc # d.svc
  BY DEF Group
<1>4. HostOK((C \ Group(C, s)) \cup N)
  BY <1>1, <1>2, <1>3, HostUnion
<1>5. Group((C \ Group(C, s)) \cup N, s) = N
  BY DEF Group
<1>6. \A t \in Services \ {s} : Group((C \ Group(C, s)) \cup N, t) = Group(C, t)
  BY DEF Group
<1>7. QED
  BY <1>4, <1>5, <1>6

\* Captured containers are created again, running.
Restarted(C) == {[c EXCEPT !.state = "running"] : c \in C}

LEMMA HostRestarted ==
  ASSUME NEW C, HostOK(C)
  PROVE  HostOK(Restarted(C))
<1> DEFINE R(c) == [c EXCEPT !.state = "running"]
<1>1. \A c \in C : R(c) \in Container /\ R(c).svc = c.svc /\ R(c).n = c.n
  BY DEF HostOK, Container
<1> HIDE DEF R
<1>2. Restarted(C) = {R(c) : c \in C}
  BY DEF Restarted, R
<1>3. Restarted(C) \subseteq Container /\ Unique(Restarted(C))
  BY <1>1, <1>2 DEF Unique, HostOK
<1>4. ASSUME NEW s \in Services
      PROVE  /\ IsFiniteSet(Group(Restarted(C), s))
             /\ Cardinality(Group(Restarted(C), s)) <= MaxPer + 1
  <2> DEFINE h == [c \in Group(C, s) |-> R(c)]
  <2>1. IsFiniteSet(Group(C, s)) /\ Cardinality(Group(C, s)) <= MaxPer + 1
    BY DEF HostOK
  <2>2. h \in Surjection(Group(C, s), Group(Restarted(C), s))
    <3>1. \A c \in Group(C, s) : h[c] \in Group(Restarted(C), s)
      BY <1>1, <1>2 DEF Group
    <3>2. \A e \in Group(Restarted(C), s) : \E c \in Group(C, s) : h[c] = e
      BY <1>1, <1>2 DEF Group
    <3>3. h \in [Group(C, s) -> Group(Restarted(C), s)]
      BY <3>1
    <3> HIDE DEF h
    <3>4. QED
      BY <3>2, <3>3 DEF Surjection
  <2>3. /\ IsFiniteSet(Group(Restarted(C), s))
        /\ Cardinality(Group(Restarted(C), s)) <= Cardinality(Group(C, s))
    BY <2>1, <2>2, FS_Surjection
  <2>4. Cardinality(Group(Restarted(C), s)) \in Nat /\ Cardinality(Group(C, s)) \in Nat
    BY <2>1, <2>3, FS_CardinalityType
  <2>5. QED
    BY <2>1, <2>3, <2>4, BoundsAssumption
<1>5. QED
  BY <1>3, <1>4 DEF HostOK

-----------------------------------------------------------------------------
(* The operators of a rollout. *)

\* New containers get numbers that no other container of the service has.
LEMMA FreshFacts ==
  ASSUME ver \in Versions, NEW s \in File(ver).services, NEW stay, stay \subseteq Container,
         IsFiniteSet(stay), Cardinality(stay) <= MaxPer + 1, NEW k \in 0..MaxPer
  PROVE  LET F == Fresh(s, stay, k) IN
         /\ F \subseteq Container /\ Unique(F) /\ IsFiniteSet(F) /\ Cardinality(F) = k
         /\ \A c \in F : /\ c.svc = s /\ c.image = File(ver).image[s] /\ c.state = "running"
                         /\ \A b \in stay : b.n # c.n
<1> USE BoundsAssumption
<1>0. PICK top \in Nat : top = 2 * MaxPer + 1
  OBVIOUS
<1> DEFINE free == {n \in 1..top : \A c \in stay : c.n # n}
           used == {c.n : c \in stay}
           Nums == CHOOSE N \in SUBSET free : Cardinality(N) = k
           New(n) == [svc |-> s, n |-> n, image |-> File(ver).image[s], state |-> "running"]
<1>1. IsFiniteSet(1..top) /\ Cardinality(1..top) = top
  BY <1>0, FS_Interval
<1>2. IsFiniteSet(used) /\ Cardinality(used) <= MaxPer + 1
  <2> DEFINE h == [c \in stay |-> c.n]
  <2>1. h \in Surjection(stay, used)
    BY DEF Surjection
  <2>2. IsFiniteSet(used) /\ Cardinality(used) <= Cardinality(stay)
    BY <2>1, FS_Surjection
  <2>3. Cardinality(used) \in Nat /\ Cardinality(stay) \in Nat
    BY <2>2, FS_CardinalityType
  <2>4. QED
    BY <2>2, <2>3
<1>3. free = (1..top) \ used
  OBVIOUS
<1>4. IsFiniteSet(free) /\ Cardinality(free) >= k
  <2>0. PICK all : all = 1..top
    OBVIOUS
  <2> HIDE DEF used, free
  <2>1. /\ IsFiniteSet(all \ used)
        /\ Cardinality(all \ used) = Cardinality(all) - Cardinality(all \cap used)
    BY <1>1, <2>0, FS_Difference
  <2>2. IsFiniteSet(all \cap used) /\ Cardinality(all \cap used) <= Cardinality(used)
    BY <1>2, FS_Intersection
  <2>3. Cardinality(used) \in Nat /\ Cardinality(all \cap used) \in Nat
    BY <1>2, <2>2, FS_CardinalityType
  <2>4. QED
    BY <1>0, <1>1, <1>2, <1>3, <2>0, <2>1, <2>2, <2>3
<1>5. \E N \in SUBSET free : Cardinality(N) = k
  <2>1. Cardinality(free) \in Nat
    BY <1>4, FS_CardinalityType
  <2>2. k \in Nat /\ k <= Cardinality(free)
    BY <1>4, <2>1
  <2> HIDE DEF free
  <2>3. QED
    BY <1>4, <2>2, SubsetOfSize
<1>6. Nums \in SUBSET free /\ Cardinality(Nums) = k
  BY <1>5
<1>7. IsFiniteSet(Nums)
  BY <1>4, <1>6, FS_Subset
<1>8. Fresh(s, stay, k) = {New(n) : n \in Nums}
  BY <1>0 DEF Fresh
<1>9. \A n \in Nums : n \in 1..(2 * MaxPer + 1) /\ \A b \in stay : b.n # n
  BY <1>0, <1>6
<1> HIDE DEF Nums, free, used
<1>10. \A n \in Nums : New(n) \in Container
  <2>1. File(ver).image[s] \in UNION {{Compose[v].image[t] : t \in Compose[v].services} : v \in Versions}
    BY DEF File
  <2>2. s \in Services
    BY ComposeAssumption DEF File
  <2>3. QED
    BY <1>9, <2>1, <2>2 DEF Container
<1>11. \A n \in Nums : /\ New(n).svc = s /\ New(n).n = n /\ New(n).state = "running"
                       /\ New(n).image = File(ver).image[s]
  OBVIOUS
<1> HIDE DEF New
<1>12. IsFiniteSet({New(n) : n \in Nums}) /\ Cardinality({New(n) : n \in Nums}) = k
  <2> DEFINE F == {New(n) : n \in Nums}
             h == [n \in Nums |-> New(n)]
  <2>1. h \in [Nums -> F] /\ \A m, n \in Nums : h[m] = h[n] => m = n
    BY <1>11
  <2>2. \A c \in F : \E n \in Nums : h[n] = c
    OBVIOUS
  <2> HIDE DEF h, F
  <2>3. h \in Bijection(Nums, F)
    BY <2>1, <2>2 DEF Bijection, Injection, Surjection, IsInjective
  <2>4. ExistsBijection(Nums, F)
    BY <2>3 DEF ExistsBijection
  <2>5. IsFiniteSet(F) /\ Cardinality(F) = k
    BY <1>6, <1>7, <2>4, FS_Bijection
  <2>6. QED
    BY <2>5 DEF F
<1>13. QED
  BY <1>8, <1>9, <1>10, <1>11, <1>12 DEF Unique

\* Planned services are services of the file, with the ones that are checked, if
\* there are any: a blank filter plans none.
LEMMA PlannedFacts ==
  ASSUME NEW v \in Versions
  PROVE  /\ Planned(v) \subseteq File(v).services
         /\ Planned(v) # {} => Checked(v) \subseteq Planned(v)
<1> DEFINE asked == IF filter = {} THEN File(v).services ELSE filter \cap File(v).services
           Closed(T) == asked \subseteq T /\ \A s \in T : File(v).deps[s] \subseteq T
<1>1. asked \in SUBSET File(v).services
  OBVIOUS
<1>2. Planned(v) = {s \in File(v).services : \A T \in SUBSET File(v).services : Closed(T) => s \in T}
  BY <1>1 DEF Planned, Expanded
<1>3. asked \subseteq Planned(v)
  BY <1>1, <1>2
<1>4. CASE filter # Blank
  <2>1. Checked(v) = asked
    BY <1>4 DEF Checked
  <2>2. QED
    BY <1>2, <1>3, <2>1
<1>5. CASE filter = Blank
  <2>1. File(v).services \subseteq Services
    BY ComposeAssumption DEF File
  <2>2. asked = {}
    BY <1>5, <2>1, NamesAssumption DEF Blank
  <2>3. Closed({})
    BY <2>2
  <2>4. Planned(v) = {}
    BY <1>2, <2>3
  <2>5. QED
    BY <2>4
<1>6. QED
  BY <1>4, <1>5

\* What is kept and what is created make up the declared replicas.
LEMMA KeptFacts ==
  ASSUME HostOK(conts), NEW v \in Versions, NEW s \in File(v).services, NEW again,
         NEW keep \in Kept(v, s, again)
  PROVE  /\ keep \subseteq Named(s) /\ IsFiniteSet(keep) /\ IsFiniteSet(Named(s))
         /\ \A c \in keep : c.image = File(v).image[s] /\ c.state \in {"running", "paused"}
         /\ File(v).replicas[s] \in 1..MaxPer
         /\ Cardinality(keep) \in Nat /\ Need(v, s, again) \in Nat
         /\ Cardinality(keep) + Need(v, s, again) = File(v).replicas[s]
<1> USE BoundsAssumption
<1>1. s \in Services /\ File(v).replicas[s] \in 1..MaxPer
  BY ComposeAssumption DEF File
<1> DEFINE good == Keepable(v, s, again)
<1>2. /\ good \subseteq Named(s)
      /\ \A c \in good : c.image = File(v).image[s] /\ c.state \in {"running", "paused"}
  BY DEF Keepable
<1>3. IsFiniteSet(Named(s))
  BY <1>1 DEF HostOK, Named, Group
<1>4. IsFiniteSet(good)
  BY <1>2, <1>3, FS_Subset
<1>5. /\ keep \in SUBSET good
      /\ \/ keep = good /\ Cardinality(good) <= File(v).replicas[s]
         \/ Cardinality(keep) = File(v).replicas[s]
  BY DEF Kept
<1>6. Need(v, s, again) = IF Cardinality(good) > File(v).replicas[s] THEN 0
                          ELSE File(v).replicas[s] - Cardinality(good)
  BY DEF Need
<1> HIDE DEF good
<1>7. IsFiniteSet(keep) /\ Cardinality(keep) <= Cardinality(good)
  BY <1>4, <1>5, FS_Subset
<1>8. Cardinality(keep) \in Nat /\ Cardinality(good) \in Nat
  BY <1>4, <1>7, FS_CardinalityType
<1>9. Need(v, s, again) \in Nat /\ Cardinality(keep) + Need(v, s, again) = File(v).replicas[s]
  BY <1>1, <1>5, <1>6, <1>7, <1>8
<1>10. QED
  BY <1>1, <1>2, <1>3, <1>5, <1>7, <1>8, <1>9

-----------------------------------------------------------------------------
(* The inductive invariant. *)

\* Service s is as the compose file of commit v declares it; a job may have ended
\* and a container that was paused stays so.
Settled(v, s) ==
  /\ Cardinality(Named(s)) = File(v).replicas[s]
  /\ \A c \in Named(s) :
       /\ c.image = File(v).image[s]
       /\ c.state \in {"running", "paused"} \/ (c.state = "exited" /\ s \in File(v).once)

\* What a deployment has prepared and the services it is done with, while
\* nothing has changed behind it.
Progress ==
  /\ File(ver).networks \subseteq nets
  /\ Names(ver, DOMAIN File(ver).volumes) \subseteq vols
  /\ \A s \in Planned(ver) \ todo : Settled(ver, s)

DriftInv ==
  /\ TypeOK
  /\ HostOK(conts) /\ HostOK(snap)
  /\ todo \subseteq Planned(ver)
  /\ rotated => touched
  /\ pc \in {"deploy", "done"} => Planned(ver) # {}
  /\ pc \in {"deploy", "done"} /\ ~touched => Progress
  /\ pc = "done" /\ ~touched => ~stale

\* Types follow from the parts.
LEMMA TypesAgain ==
  ASSUME head' \in Versions, ver' \in Versions, filter' \in Filters, HostOK(conts'), HostOK(snap'),
         pc' \in {"idle", "check", "clone", "prepare", "deploy", "done", "stuck"},
         todo' \subseteq Services, todo' # {} => pc' = "deploy",
         stale' \in BOOLEAN, recreate' \in BOOLEAN, rotated' \in BOOLEAN, touched' \in BOOLEAN,
         since' \in 0..2, events' \in 0..MaxEvents, faults' \in 0..MaxFaults
  PROVE  TypeOK'
BY DEF TypeOK, HostOK, Unique

\* The parts of the invariant, one by one.
LEMMA Parts ==
  ASSUME DriftInv
  PROVE  /\ head \in Versions /\ ver \in Versions /\ filter \in Filters
         /\ HostOK(conts) /\ HostOK(snap)
         /\ pc \in {"idle", "check", "clone", "prepare", "deploy", "done", "stuck"}
         /\ todo \subseteq Services /\ (todo # {} => pc = "deploy")
         /\ stale \in BOOLEAN /\ recreate \in BOOLEAN /\ rotated \in BOOLEAN /\ touched \in BOOLEAN
         /\ since \in 0..2 /\ events \in 0..MaxEvents /\ faults \in 0..MaxFaults
         /\ todo \subseteq Planned(ver) /\ (rotated => touched)
BY DEF DriftInv, TypeOK

LEMMA FaultTyped ==
  ASSUME faults \in 0..MaxFaults, Fault \/ UNCHANGED faults
  PROVE  faults' \in 0..MaxFaults
BY BoundsAssumption DEF Fault

LEMMA EventTyped ==
  ASSUME events \in 0..MaxEvents, Event
  PROVE  events' \in 0..MaxEvents
BY BoundsAssumption DEF Event

\* Steps of the loop outside the rollout: the host is left alone.
LEMMA LoopFrame ==
  ASSUME DriftInv, pc # "deploy", pc' \in {"idle", "check", "clone", "prepare", "stuck"},
         UNCHANGED <<head, filter, conts, snap, todo, events, stale>>, ver' \in Versions,
         faults' \in 0..MaxFaults, since' \in 0..2, recreate' \in BOOLEAN,
         UNCHANGED <<rotated, touched>> \/ (rotated' = FALSE /\ touched' = FALSE)
  PROVE  DriftInv'
<1>1. todo' = {}
  BY Parts
<1>2. HostOK(conts)' /\ HostOK(snap)'
  BY Parts DEF HostOK, Unique, Group
<1>3. TypeOK'
  BY <1>1, <1>2, Parts, TypesAgain
<1>4. QED
  BY <1>1, <1>2, <1>3, Parts DEF DriftInv

\* Steps behind the back of the deployment are noted.
LEMMA EventFrame ==
  ASSUME DriftInv, touched' = TRUE, UNCHANGED <<work, filter, head, faults>>, HostOK(conts'),
         events' \in 0..MaxEvents, since' \in 0..2, stale' \in BOOLEAN, rotated' \in BOOLEAN
  PROVE  DriftInv'
<1>0. UNCHANGED <<pc, ver, todo, snap, recreate>>
  BY DEF work
<1>1. HostOK(conts)' /\ HostOK(snap)'
  BY <1>0, Parts DEF HostOK, Unique, Group
<1>2. Planned(ver)' = Planned(ver)
  BY <1>0 DEF Planned
<1>3. TypeOK'
  BY <1>0, <1>1, Parts, TypesAgain
<1>4. QED
  BY <1>0, <1>1, <1>2, <1>3, Parts DEF DriftInv

\* The loop outside Prepare and the services.
LEMMA LoopSteps ==
  ASSUME DriftInv, Fetch \/ InSync \/ Drifted \/ Trigger \/ Reset \/ Clone
  PROVE  DriftInv'
<1>1. CASE Fetch \/ InSync \/ Reset
  <2>1. since' \in 0..2
    BY <1>1, Parts DEF Fetch, InSync, Reset, other
  <2>2. QED
    BY <1>1, <2>1, Parts, LoopFrame DEF Fetch, InSync, Reset, host, other
<1>2. CASE Drifted \/ Trigger
  <2>1. pc # "deploy" /\ LoadSecrets
    BY <1>2 DEF Drifted, Trigger
  <2>2. faults' \in 0..MaxFaults
    BY <2>1, Parts, FaultTyped DEF LoadSecrets
  <2>3. QED
    BY <2>1, <2>2, Parts, LoopFrame DEF LoadSecrets, host, other
<1>3. CASE Clone
  <2>1. faults' \in 0..MaxFaults
    BY <1>3, Parts, FaultTyped DEF Clone
  <2>2. QED
    BY <1>3, <2>1, Parts, LoopFrame DEF Clone, host, other
<1>4. QED
  BY <1>1, <1>2, <1>3

\* Networks and volumes are there before the first service.
LEMMA PrepareStep ==
  ASSUME DriftInv, Prepare
  PROVE  DriftInv'
<1>0. /\ pc = "prepare" /\ todo = {}
      /\ UNCHANGED <<head, filter, since, events, conts, stale, ver, recreate, rotated, touched, faults>>
  BY Parts DEF Prepare, other
<1>1. HostOK(conts)'
  BY <1>0, Parts DEF HostOK, Unique, Group
<1>2. Planned(ver)' = Planned(ver)
  BY <1>0 DEF Planned
<1>3. Planned(ver) \subseteq Services
  BY Parts, PlannedFacts, ComposeAssumption DEF File
<1>4. CASE pc' = "idle" /\ todo' = {} /\ (snap' = {} \/ snap' = snap)
  <2>1. HostOK(snap)'
    BY <1>4, Parts, HostEmpty DEF HostOK, Unique, Group
  <2>2. TypeOK'
    BY <1>0, <1>1, <1>4, <2>1, Parts, TypesAgain
  <2>3. QED
    BY <1>0, <1>1, <1>4, <2>1, <2>2, Parts DEF DriftInv
<1>5. CASE /\ pc' = "deploy" /\ todo' = Planned(ver) /\ snap' = conts /\ Planned(ver) # {}
           /\ Names(ver, External(ver)) \subseteq vols
           /\ nets' = nets \cup File(ver).networks
           /\ vols' = vols \cup Names(ver, DOMAIN File(ver).volumes \ External(ver))
  <2>1. HostOK(snap)'
    BY <1>5, Parts DEF HostOK, Unique, Group
  <2>2. TypeOK'
    BY <1>0, <1>1, <1>3, <1>5, <2>1, Parts, TypesAgain
  <2>3. Names(ver, DOMAIN File(ver).volumes) \subseteq vols'
    BY <1>5 DEF Names
  <2>4. Progress'
    BY <1>0, <1>2, <1>5, <2>3 DEF Progress, Names, resolveVolumeName
  <2>5. QED
    BY <1>0, <1>1, <1>2, <1>5, <2>1, <2>2, <2>4, Parts DEF DriftInv
<1>6. QED
  BY <1>0, <1>4, <1>5 DEF Prepare

\* The hash of the secrets that were applied is stored.
LEMMA FinishStep ==
  ASSUME DriftInv, Finish
  PROVE  DriftInv'
<1>0. /\ pc = "deploy" /\ todo = {} /\ pc' = "done" /\ stale' = rotated /\ snap' = {}
      /\ UNCHANGED <<head, filter, since, events, conts, vols, nets, ver, todo, recreate, rotated, touched,
                     faults>>
  BY DEF Finish, other, host
<1>1. HostOK(conts)' /\ HostOK(snap)'
  BY <1>0, Parts, HostEmpty DEF HostOK, Unique, Group
<1>2. (Progress' <=> Progress) /\ Planned(ver)' = Planned(ver)
  BY <1>0 DEF Progress, Names, Planned, Settled, Named
<1>3. TypeOK'
  BY <1>0, <1>1, Parts, TypesAgain
<1>4. QED
  BY <1>0, <1>1, <1>2, <1>3, Parts DEF DriftInv

\* A service is deployed.
LEMMA DeployStep ==
  ASSUME DriftInv, NEW s \in Services, DeployService(s)
  PROVE  DriftInv'
<1> USE BoundsAssumption
<1>0. /\ pc = "deploy" /\ s \in todo /\ todo' = todo \ {s}
      /\ UNCHANGED <<head, filter, since, events, vols, nets, stale, pc, ver, snap, recreate, rotated>>
  BY DEF DeployService, Upcoming, other
<1>1. s \in File(ver).services /\ s \in Planned(ver)
  BY <1>0, Parts, PlannedFacts
<1> DEFINE need == Need(ver, s, recreate)
<1>2. PICK keep \in Kept(ver, s, recreate), behind \in SUBSET Named(s) :
        /\ behind \cap keep = {}
        /\ IF behind = {} THEN UNCHANGED <<touched, faults>>
                          ELSE Cardinality(behind) = 1 /\ Fault /\ touched' = TRUE
        /\ conts' = (conts \ Named(s)) \cup keep \cup behind
                            \cup Fresh(s, keep \cup behind, need)
  BY DEF DeployService
<1>3. /\ keep \subseteq Named(s) /\ IsFiniteSet(keep) /\ IsFiniteSet(Named(s))
      /\ \A c \in keep : c.image = File(ver).image[s] /\ c.state \in {"running", "paused"}
      /\ File(ver).replicas[s] \in 1..MaxPer
      /\ Cardinality(keep) \in Nat /\ need \in Nat
      /\ Cardinality(keep) + need = File(ver).replicas[s]
  BY <1>1, Parts, KeptFacts
<1>4. /\ IsFiniteSet(behind) /\ Cardinality(behind) \in 0..1
      /\ behind = {} => Cardinality(behind) = 0
  <2>1. IsFiniteSet(behind)
    BY <1>3, FS_Subset
  <2>2. QED
    BY <1>2, <2>1, FS_EmptySet
<1> DEFINE stay == keep \cup behind
           new  == Fresh(s, stay, need)
<1>5. /\ IsFiniteSet(stay) /\ Cardinality(stay) = Cardinality(keep) + Cardinality(behind)
  BY <1>2, <1>3, <1>4, DisjointUnion
<1>6. Named(s) = Group(conts, s) /\ stay \subseteq Named(s)
  BY <1>2, <1>3 DEF Named, Group
<1>7. stay \subseteq Container /\ Unique(stay) /\ \A c \in stay : c.svc = s
  BY <1>6, Parts DEF Group, HostOK, Unique
<1>8. /\ new \subseteq Container /\ Unique(new) /\ IsFiniteSet(new) /\ Cardinality(new) = need
      /\ \A c \in new : /\ c.svc = s /\ c.image = File(ver).image[s] /\ c.state = "running"
                        /\ \A b \in stay : b.n # c.n
  <2>1. Cardinality(stay) <= MaxPer + 1 /\ need \in 0..MaxPer
    BY <1>3, <1>4, <1>5
  <2> HIDE DEF stay, need
  <2>2. QED
    BY <1>1, <1>5, <1>7, <2>1, Parts, FreshFacts
<1>9. conts' = (conts \ Group(conts, s)) \cup (stay \cup new)
  BY <1>2, <1>6
<1> HIDE DEF stay, new, need
<1>10. stay \cap new = {}
  BY <1>8
<1>11. /\ IsFiniteSet(stay \cup new)
       /\ Cardinality(stay \cup new) = Cardinality(keep) + Cardinality(behind) + need
  <2>1. IsFiniteSet(stay \cup new) /\ Cardinality(stay \cup new) = Cardinality(stay) + Cardinality(new)
    BY <1>5, <1>8, <1>10, DisjointUnion
  <2>2. QED
    BY <1>5, <1>8, <2>1
<1>12. Cardinality(stay \cup new) <= MaxPer + 1
  BY <1>3, <1>4, <1>11
<1>13. stay \cup new \subseteq Container /\ Unique(stay \cup new) /\ \A c \in stay \cup new : c.svc = s
  BY <1>7, <1>8 DEF Unique
<1>14. /\ HostOK(conts') /\ Group(conts', s) = stay \cup new
       /\ \A t \in Services \ {s} : Group(conts', t) = Group(conts, t)
  <2>1. PICK N : N = stay \cup new
    OBVIOUS
  <2>2. /\ N \subseteq Container /\ Unique(N) /\ IsFiniteSet(N) /\ Cardinality(N) <= MaxPer + 1
        /\ \A c \in N : c.svc = s
    BY <1>11, <1>12, <1>13, <2>1
  <2>3. /\ HostOK((conts \ Group(conts, s)) \cup N)
        /\ Group((conts \ Group(conts, s)) \cup N, s) = N
        /\ \A t \in Services \ {s} : Group((conts \ Group(conts, s)) \cup N, t) = Group(conts, t)
    BY <2>2, Parts, HostService
  <2>4. QED
    BY <1>9, <2>1, <2>3
<1>15. HostOK(conts)' /\ HostOK(snap)'
  BY <1>0, <1>14, Parts DEF HostOK, Unique, Group
<1>16. touched' \in BOOLEAN /\ (touched => touched') /\ faults' \in 0..MaxFaults
  BY <1>2, Parts, FaultTyped
<1>17. TypeOK'
  BY <1>0, <1>15, <1>16, Parts, TypesAgain
<1>18. Planned(ver)' = Planned(ver) /\ todo' \subseteq Planned(ver)
  BY <1>0, Parts DEF Planned
<1>19. ASSUME ~touched' PROVE Progress'
  <2>1. behind = {} /\ ~touched
    BY <1>2, <1>16, <1>19
  <2>2. Progress
    BY <1>0, <2>1 DEF DriftInv
  <2>3. Settled(ver, s)'
    <3>1. Named(s)' = stay \cup new
      BY <1>14 DEF Named, Group
    <3>2. Cardinality(stay \cup new) = File(ver).replicas[s]
      BY <1>3, <1>4, <1>11, <2>1
    <3>3. \A c \in stay \cup new :
            c.image = File(ver).image[s] /\ c.state \in {"running", "paused"}
      BY <1>3, <1>8, <2>1 DEF stay
    <3>4. QED
      BY <1>0, <3>1, <3>2, <3>3 DEF Settled, File
  <2>4. ASSUME NEW t \in Planned(ver) \ todo, t # s PROVE Settled(ver, t)'
    <3>1. Named(t)' = Named(t)
      <4>1. t \in Services
        BY <2>4, Parts, PlannedFacts, ComposeAssumption DEF File
      <4>2. QED
        BY <1>14, <2>4, <4>1 DEF Named, Group
    <3>2. Settled(ver, t)
      BY <2>2, <2>4 DEF Progress
    <3>3. QED
      BY <1>0, <3>1, <3>2 DEF Settled, File
  <2>5. \A t \in Planned(ver) \ todo' : Settled(ver, t)'
    BY <1>0, <2>3, <2>4
  <2>6. /\ File(ver).networks \subseteq nets' /\ Names(ver, DOMAIN File(ver).volumes) \subseteq vols'
    BY <1>0, <2>2 DEF Progress
  <2>7. QED
    BY <1>0, <1>18, <2>5, <2>6 DEF Progress
<1>20. QED
  BY <1>0, <1>15, <1>16, <1>17, <1>18, <1>19, Parts DEF DriftInv

\* A service fails after some replicas, and the ones before it are put back.
LEMMA FailStep ==
  ASSUME DriftInv, NEW s \in Services, FailService(s)
  PROVE  DriftInv'
<1> USE BoundsAssumption
<1>0. /\ pc = "deploy" /\ s \in todo /\ pc' = "idle" /\ todo' = {} /\ snap' = {}
      /\ UNCHANGED <<head, filter, since, events, vols, nets, stale, ver, recreate, rotated, touched>>
  BY DEF FailService, Upcoming, other
<1>1. s \in File(ver).services /\ s \in Planned(ver)
  BY <1>0, Parts, PlannedFacts
<1> DEFINE need == Need(ver, s, recreate)
           undone == Undone
           put == {b \in snap : b.svc \in undone}
<1>2. PICK keep \in Kept(ver, s, recreate), made \in 0..need, gone \in SUBSET Named(s),
           restored \in SUBSET Restarted(put) :
        /\ Fault \/ UNCHANGED faults
        /\ gone \cap keep = {}
        /\ Cardinality(gone) = IF Cardinality(Named(s) \ keep) < made
                               THEN Cardinality(Named(s) \ keep) ELSE made
        /\ conts' = restored \cup {c \in (conts \ gone) \cup Fresh(s, Named(s) \ gone, made) :
                                    c.svc \notin undone}
  BY DEF FailService, Restarted, Recreated
<1>3. /\ keep \subseteq Named(s) /\ IsFiniteSet(keep) /\ IsFiniteSet(Named(s))
      /\ File(ver).replicas[s] \in 1..MaxPer
      /\ Cardinality(keep) \in Nat /\ need \in Nat
      /\ Cardinality(keep) + need = File(ver).replicas[s]
  BY <1>1, Parts, KeptFacts
<1> HIDE DEF need
<1>4. Named(s) = Group(conts, s) /\ Cardinality(Named(s)) <= MaxPer + 1
  BY Parts DEF Named, Group, HostOK
<1> DEFINE stay == Named(s) \ gone
           new  == Fresh(s, stay, made)
\* What is left and what is new are together no more than there were, or than
\* there should be.
<1>5. /\ IsFiniteSet(stay) /\ Cardinality(stay) \in Nat /\ made \in 0..MaxPer
      /\ Cardinality(stay) + made <= MaxPer + 1
  <2>1. /\ IsFiniteSet(gone) /\ IsFiniteSet(stay) /\ Cardinality(Named(s)) \in Nat
        /\ Cardinality(gone) \in Nat /\ Cardinality(stay) \in Nat
        /\ Cardinality(stay) = Cardinality(Named(s)) - Cardinality(gone)
    BY <1>2, <1>3, WithoutPart
  <2>2. /\ Cardinality(Named(s) \ keep) \in Nat
        /\ Cardinality(Named(s) \ keep) = Cardinality(Named(s)) - Cardinality(keep)
    BY <1>3, WithoutPart
  <2>3. made \in 0..need /\ made \in 0..MaxPer
    BY <1>2, <1>3
  <2>4. CASE Cardinality(Named(s) \ keep) < made
    BY <1>2, <1>3, <2>1, <2>2, <2>3, <2>4
  <2>5. CASE ~(Cardinality(Named(s) \ keep) < made)
    BY <1>2, <1>4, <2>1, <2>2, <2>3, <2>5
  <2>6. QED
    BY <2>1, <2>3, <2>4, <2>5
<1>6. stay \subseteq Container /\ Unique(stay) /\ \A c \in stay : c.svc = s
  BY <1>4, Parts DEF Group, HostOK, Unique
<1>7. /\ new \subseteq Container /\ Unique(new) /\ IsFiniteSet(new) /\ Cardinality(new) = made
      /\ \A c \in new : c.svc = s /\ \A b \in stay : b.n # c.n
  <2>1. Cardinality(stay) <= MaxPer + 1
    BY <1>5
  <2> HIDE DEF stay
  <2>2. QED
    BY <1>1, <1>5, <1>6, <2>1, Parts, FreshFacts
<1>8. PICK N : N = stay \cup new
  OBVIOUS
<1>9. IsFiniteSet(N) /\ Cardinality(N) <= MaxPer + 1
  <2> HIDE DEF stay, new
  <2>1. stay \cap new = {}
    BY <1>7
  <2>2. IsFiniteSet(stay \cup new) /\ Cardinality(stay \cup new) = Cardinality(stay) + Cardinality(new)
    BY <1>5, <1>7, <2>1, DisjointUnion
  <2>3. QED
    BY <1>5, <1>7, <1>8, <2>2
<1>10. N \subseteq Container /\ Unique(N) /\ \A c \in N : c.svc = s
  BY <1>6, <1>7, <1>8 DEF Unique
<1>11. PICK H : H = (conts \ Group(conts, s)) \cup N
  OBVIOUS
<1>12. HostOK(H)
  BY <1>9, <1>10, <1>11, Parts, HostService
<1>13. (conts \ gone) \cup new = H
  <2> HIDE DEF new
  <2>1. Named(s) \subseteq conts /\ gone \subseteq Named(s)
    BY <1>2 DEF Named
  <2>2. QED
    BY <1>4, <1>8, <1>11, <2>1
<1>14. HostOK(Restarted(put)) /\ \A c \in Restarted(put) : c.svc \in undone
  <2>1. put \in SUBSET snap
    OBVIOUS
  <2>2. HostOK(put)
    BY <2>1, Parts, HostSubset
  <2>3. \A c \in put : [c EXCEPT !.state = "running"].svc = c.svc
    BY <2>1, Parts DEF HostOK, Container
  <2>4. QED
    BY <2>2, <2>3, HostRestarted DEF Restarted
<1>15. HostOK(conts')
  <2>1. PICK rest : rest = {c \in H : c.svc \notin undone}
    OBVIOUS
  <2>2. HostOK(rest)
    BY <1>12, <2>1, HostSubset
  <2>3. HostOK(restored) /\ \A c \in restored : c.svc \in undone
    BY <1>2, <1>14, HostSubset
  <2>4. \A c \in restored, b \in rest : c.svc # b.svc
    BY <2>1, <2>3
  <2>5. conts' = restored \cup rest
    BY <1>2, <1>13, <2>1
  <2>6. QED
    BY <2>2, <2>3, <2>4, <2>5, HostUnion
<1>16. HostOK(conts)' /\ HostOK(snap)' /\ HostOK(snap')
  BY <1>0, <1>15, Parts, HostEmpty DEF HostOK, Unique, Group
<1>17. faults' \in 0..MaxFaults
  BY <1>2, Parts, FaultTyped
<1>18. TypeOK'
  BY <1>0, <1>15, <1>16, <1>17, Parts, TypesAgain
<1>19. QED
  BY <1>0, <1>16, <1>18, Parts DEF DriftInv

\* What happens to the host meanwhile.
LEMMA EventSteps ==
  ASSUME DriftInv, Breaks \/ Resumes \/ VolumeChanges \/ Rotate \/ Prune
  PROVE  DriftInv'
<1>0. /\ events' \in 0..MaxEvents /\ since' \in 0..2 /\ touched' = TRUE
      /\ UNCHANGED <<work, filter, head, faults>>
  BY Parts, EventTyped DEF Breaks, Resumes, VolumeChanges, Rotate, Prune, quiet
<1>1. CASE Breaks \/ Resumes
  <2>1. PICK c \in conts :
          \/ conts' = conts \ {c}
          \/ \E x \in {"crashed", "paused", "unhealthy", "running"} :
               conts' = (conts \ {c}) \cup {[c EXCEPT !.state = x]}
    BY <1>1 DEF Breaks, Resumes
  <2>2. CASE conts' = conts \ {c}
    <3>1. HostOK(conts')
      BY <2>2, Parts, HostSubset
    <3>2. QED
      BY <1>0, <1>1, <3>1, Parts, EventFrame DEF Breaks, Resumes
  <2>3. ASSUME NEW x \in {"crashed", "paused", "unhealthy", "running"},
               conts' = (conts \ {c}) \cup {[c EXCEPT !.state = x]}
        PROVE DriftInv'
    <3>1. PICK e : e = [c EXCEPT !.state = x]
      OBVIOUS
    <3>2. e \in Container /\ e.svc = c.svc /\ e.n = c.n
      BY <3>1, Parts DEF HostOK, Container
    <3>3. HostOK(conts')
      BY <2>3, <3>1, <3>2, Parts, HostState
    <3>4. QED
      BY <1>0, <1>1, <3>3, Parts, EventFrame DEF Breaks, Resumes
  <2>4. QED
    BY <2>1, <2>2, <2>3
<1>2. CASE VolumeChanges \/ Rotate
  <2>1. conts' = conts /\ HostOK(conts') /\ stale' \in BOOLEAN /\ rotated' \in BOOLEAN
    BY <1>2, Parts DEF VolumeChanges, Rotate, host
  <2>2. QED
    BY <1>0, <2>1, EventFrame
<1>3. CASE Prune
  <2>1. conts' \in SUBSET conts
    BY <1>3 DEF Prune
  <2>2. HostOK(conts')
    BY <2>1, Parts, HostSubset
  <2>3. QED
    BY <1>0, <1>3, <2>2, Parts, EventFrame DEF Prune
<1>4. QED
  BY <1>1, <1>2, <1>3

\* A push only moves the branch.
LEMMA PushStep ==
  ASSUME DriftInv, Push
  PROVE  DriftInv'
<1>0. /\ head' \in Versions /\ events' \in 0..MaxEvents
      /\ UNCHANGED <<filter, conts, vols, nets, stale, pc, ver, todo, snap, recreate, rotated,
                     touched, since, faults>>
  BY Parts, EventTyped DEF Push, host, quiet, work
<1>1. HostOK(conts)' /\ HostOK(snap)' /\ HostOK(conts') /\ HostOK(snap')
  BY <1>0, Parts DEF HostOK, Unique, Group
<1>2. TypeOK'
  BY <1>0, <1>1, Parts, TypesAgain
<1>3. (Progress' <=> Progress) /\ Planned(ver)' = Planned(ver)
  BY <1>0 DEF Progress, Names, Planned, Settled, Named
<1>4. QED
  BY <1>0, <1>1, <1>2, <1>3, Parts DEF DriftInv

\* A job that ends is still the replica it was.
LEMMA JobStep ==
  ASSUME DriftInv, NEW s \in Services, JobEnds(s)
  PROVE  DriftInv'
<1>0. /\ s \in File(ver).once
      /\ UNCHANGED <<head, filter, vols, nets, stale, pc, ver, todo, snap, recreate, rotated,
                     touched, since, events, faults>>
  BY DEF JobEnds, quiet, work
<1>1. PICK c \in conts : c.svc = s /\ conts' = (conts \ {c}) \cup {[c EXCEPT !.state = "exited"]}
  BY DEF JobEnds, Labelled
<1>2. PICK e : e = [c EXCEPT !.state = "exited"]
  OBVIOUS
<1>3. /\ e \in Container /\ e.svc = c.svc /\ e.n = c.n /\ e.state = "exited" /\ e.image = c.image
  BY <1>2, Parts DEF HostOK, Container
<1>4. /\ HostOK(conts') /\ conts' = (conts \ {c}) \cup {e}
      /\ \A t \in Services : Cardinality(Group(conts', t)) = Cardinality(Group(conts, t))
  <2>1. PICK D : D = (conts \ {c}) \cup {e}
    OBVIOUS
  <2>2. HostOK(D) /\ \A t \in Services : Cardinality(Group(D, t)) = Cardinality(Group(conts, t))
    BY <1>3, <2>1, Parts, HostState
  <2>3. QED
    BY <1>1, <1>2, <2>1, <2>2
<1>5. HostOK(conts)' /\ HostOK(snap)' /\ HostOK(snap')
  BY <1>0, <1>4, Parts DEF HostOK, Unique, Group
<1>6. TypeOK'
  BY <1>0, <1>4, <1>5, Parts, TypesAgain
<1>7. Planned(ver)' = Planned(ver)
  BY <1>0 DEF Planned
<1>8. ASSUME Progress PROVE Progress'
  <2>1. ASSUME NEW t \in Planned(ver) \ todo PROVE Settled(ver, t)'
    <3>1. Settled(ver, t) /\ t \in Services
      BY <1>8, <2>1, Parts, PlannedFacts, ComposeAssumption DEF Progress, File
    <3>2. Named(t)' = Group(conts', t) /\ Named(t) = Group(conts, t)
      BY DEF Named, Group
    <3>3. Cardinality(Named(t)') = File(ver).replicas[t]
      BY <1>4, <3>1, <3>2 DEF Settled
    <3>4. \A b \in Named(t)' : /\ b.image = File(ver).image[t]
                               /\ \/ b.state \in {"running", "paused"}
                                  \/ (b.state = "exited" /\ t \in File(ver).once)
      BY <1>0, <1>1, <1>3, <1>4, <3>1 DEF Settled, Named
    <3>5. QED
      BY <1>0, <3>3, <3>4 DEF Settled, File
  <2>2. QED
    BY <1>0, <1>7, <1>8, <2>1 DEF Progress, Names
<1>9. QED
  BY <1>0, <1>5, <1>6, <1>7, <1>8, Parts DEF DriftInv

(* Between two drift checks a deployment prepares networks and volumes and *)
(* settles one planned service after the other, and keeps what it settled  *)
(* as long as nothing changes behind it; containers stay few and apart.    *)
THEOREM DriftInvariant == Spec => []DriftInv
<1>1. Init => DriftInv
  <2> SUFFICES ASSUME Init PROVE DriftInv
    OBVIOUS
  <2>1. HostOK(conts) /\ HostOK(snap)
    BY HostEmpty DEF Init
  <2>2. TypeOK
    <3>1. events \in 0..MaxEvents /\ faults \in 0..MaxFaults
      BY BoundsAssumption DEF Init
    <3>2. {stale, recreate, rotated, touched} \subseteq BOOLEAN
      BY DEF Init
    <3>3. QED
      BY <3>1, <3>2 DEF Init, TypeOK
  <2>3. QED
    BY <2>1, <2>2 DEF Init, DriftInv
<1>2. DriftInv /\ [Next]_vars => DriftInv'
  <2> SUFFICES ASSUME DriftInv, [Next]_vars PROVE DriftInv'
    OBVIOUS
  <2>1. CASE Loop
    BY <2>1, LoopSteps, PrepareStep, FinishStep, DeployStep, FailStep DEF Loop
  <2>2. CASE Trigger \/ Reset \/ Push \/ Breaks \/ Resumes \/ VolumeChanges \/ Rotate \/ Prune
    BY <2>2, LoopSteps, PushStep, EventSteps
  <2>3. CASE \E s \in Services : JobEnds(s)
    BY <2>3, JobStep
  <2>4. CASE UNCHANGED vars
    <3>1. UNCHANGED <<head, filter, conts, vols, nets, stale, pc, ver, todo, snap, recreate, rotated,
                      touched, since, events, faults>>
      BY <2>4 DEF vars, work, host
    <3>2. /\ HostOK(conts)' /\ HostOK(snap)' /\ HostOK(conts') /\ HostOK(snap')
          /\ (Progress' <=> Progress) /\ Planned(ver)' = Planned(ver)
      BY <3>1, Parts DEF HostOK, Unique, Group, Progress, Names, Planned, Settled, Named
    <3>3. TypeOK'
      BY <3>1, <3>2, Parts, TypesAgain
    <3>4. QED
      BY <3>1, <3>2, <3>3, Parts DEF DriftInv
  <2>5. QED
    BY <2>1, <2>2, <2>3, <2>4 DEF Next
<1>3. QED
  BY <1>1, <1>2, PTL DEF Spec

(* Every variable keeps its type, and no two containers of a service share *)
(* a name, whichever step of a rollout or a rollback failed.               *)
THEOREM TypeCorrect == Spec => []TypeOK
<1>1. DriftInv => TypeOK
  BY DEF DriftInv
<1>2. QED
  BY <1>1, DriftInvariant, PTL

-----------------------------------------------------------------------------
(* The reconciler's report. *)

Few(v)      == {s \in Checked(v) : Cardinality(Labelled(s)) < File(v).replicas[s]}
Many(v)     == {s \in Checked(v) : Cardinality(Labelled(s)) > File(v).replicas[s]}
Mismatch(v) == {s \in Checked(v) : \E c \in Labelled(s) : ~imagesMatch(File(v).image[s], c.image)}
Stopped(v)  == {s \in Checked(v) : \E c \in Labelled(s) : c.state \in {"exited", "crashed", "paused"}}
Sick(v)     == {s \in Checked(v) : \E c \in Labelled(s) : c.state = "unhealthy"}
Lost(v)     == {l \in DOMAIN File(v).volumes :
                  resolveDriftVolumeName(l, File(v).volumes[l]) \notin vols}
Outer(v)    == {l \in Lost(v) : File(v).volumes[l].external}
Secret      == {"secrets" : x \in {y \in {1} : stale}}

\* The report, part by part.
LEMMA ReportParts ==
  ASSUME NEW v
  PROVE  Report(v) = UNION {Item(Few(v), "missing"), Item(Many(v), "extra"),
           Item(Mismatch(v), "image_mismatch"), Item(Stopped(v), "stopped"),
           Item(Sick(v), "unhealthy"), Item({c.svc : c \in conts} \ Checked(v), "extra"),
           Item(File(v).networks \ nets, "missing"), Item(Lost(v) \ Outer(v), "missing"),
           Item(Outer(v), "missing_external"), Item(Secret, "secrets_changed")}
BY Zenon DEF Report, Few, Many, Mismatch, Stopped, Sick, Lost, Outer, Secret

\* Each part of the report on its own.
LEMMA Parted ==
  ASSUME NEW v
  PROVE  /\ \A s \in Few(v) : <<s, "missing">> \in Report(v)
         /\ \A s \in Many(v) : <<s, "extra">> \in Report(v)
         /\ \A s \in Mismatch(v) : <<s, "image_mismatch">> \in Report(v)
         /\ \A s \in Stopped(v) : <<s, "stopped">> \in Report(v)
         /\ \A s \in Sick(v) : <<s, "unhealthy">> \in Report(v)
         /\ \A s \in File(v).networks \ nets : <<s, "missing">> \in Report(v)
         /\ \A l \in Lost(v) \ Outer(v) : <<l, "missing">> \in Report(v)
         /\ \A l \in Outer(v) : <<l, "missing_external">> \in Report(v)
         /\ stale => <<"secrets", "secrets_changed">> \in Report(v)
<1>1. stale => "secrets" \in Secret
  BY DEF Secret
<1>2. QED
  BY <1>1, ReportParts, Zenon DEF Item

\* The reconciler and the deployer name a volume alike.
LEMMA VolumeNamesAgree ==
  ASSUME NEW v \in Versions, NEW l \in DOMAIN File(v).volumes
  PROVE  resolveDriftVolumeName(l, File(v).volumes[l]) = resolveVolumeName(l, File(v).volumes[l])
<1>1. File(v).volumes[l].external \in BOOLEAN
  BY ComposeAssumption DEF File
<1>2. CASE File(v).volumes[l].name # ""
  BY <1>2 DEF resolveDriftVolumeName, resolveVolumeName
<1>3. CASE File(v).volumes[l].name = "" /\ File(v).volumes[l].external
  BY <1>3 DEF resolveDriftVolumeName, resolveVolumeName
<1>4. CASE File(v).volumes[l].name = "" /\ ~File(v).volumes[l].external
  BY <1>4 DEF resolveDriftVolumeName, resolveVolumeName
<1>5. QED
  BY <1>1, <1>2, <1>3, <1>4

-----------------------------------------------------------------------------
\* After a successful deployment behind which nothing changed.
LEMMA ClearedReport ==
  ASSUME DriftInv
  PROVE  DeployClears
<1>1. SUFFICES ASSUME pc = "done", ~touched
               PROVE  Report(ver) \subseteq Undeployable(ver)
  BY DEF DeployClears
<1>2. todo = {} /\ ~stale /\ Progress /\ HostOK(conts) /\ ver \in Versions
  BY <1>1, Parts DEF DriftInv
<1>3. \A s \in Checked(ver) : Settled(ver, s)
  <2>1. Planned(ver) # {}
    BY <1>1 DEF DriftInv
  <2>2. QED
    BY <1>2, <2>1, PlannedFacts DEF Progress
<1>4. \A s : Labelled(s) = Named(s)
  BY DEF Labelled, Named
<1>5. \A s \in Checked(ver) : s \in File(ver).services /\ File(ver).replicas[s] \in Nat
  <2>1. TAKE s \in Checked(ver)
  <2>2. s \in File(ver).services
    BY DEF Checked
  <2>3. File(ver).replicas[s] \in 1..MaxPer
    BY <1>2, <2>2, ComposeAssumption DEF File
  <2>4. QED
    BY <2>2, <2>3, BoundsAssumption
<1>6. Few(ver) = {} /\ Many(ver) = {}
  BY <1>3, <1>4, <1>5 DEF Few, Many, Settled
<1>7. Mismatch(ver) = {}
  BY <1>3, <1>4 DEF Mismatch, Settled, imagesMatch
<1>8. Sick(ver) = {}
  BY <1>3, <1>4 DEF Sick, Settled
<1>9. Stopped(ver) \subseteq File(ver).once \cup {c.svc : c \in {b \in conts : b.state = "paused"}}
  BY <1>3, <1>4 DEF Stopped, Settled, Labelled
<1>10. Lost(ver) = {}
  BY <1>2, VolumeNamesAgree DEF Lost, Progress, Names
<1>11. File(ver).networks \ nets = {}
  BY <1>2 DEF Progress
<1>12. Secret = {}
  BY <1>2 DEF Secret
<1>13. {c.svc : c \in conts} \subseteq Services
  BY <1>2 DEF HostOK, Container
<1>14. SUFFICES ASSUME NEW x \in Report(ver) PROVE x \in Undeployable(ver)
  OBVIOUS
<1>15. \/ x \in Item(Stopped(ver), "stopped")
       \/ x \in Item({c.svc : c \in conts} \ Checked(ver), "extra")
  <2>1. Outer(ver) = {} /\ Lost(ver) \ Outer(ver) = {}
    BY <1>10 DEF Outer
  <2>2. \A t : Item({}, t) = {}
    BY DEF Item
  <2>3. QED
    BY <1>6, <1>7, <1>8, <1>10, <1>11, <1>12, <1>14, <2>1, <2>2, ReportParts
<1>16. QED
  BY <1>9, <1>13, <1>15 DEF Undeployable, Item

(* A deployment that succeeds, with nothing changed behind it, leaves only *)
(* drift that no deployment removes: checkDrift and executeDeploy agree on *)
(* images, replicas, states, volumes, networks and the secrets hash.       *)
THEOREM DeploymentClearsDrift == Spec => []DeployClears
<1>1. DriftInv => DeployClears
  BY ClearedReport
<1>2. QED
  BY <1>1, DriftInvariant, PTL

-----------------------------------------------------------------------------
\* Images equal in what is compared and in how they are spelled are equal.
LEMMA SameImage ==
  ASSUME HostOK(conts), NEW c \in conts, NEW v \in Versions, NEW s \in File(v).services,
         c.image.ref = File(v).image[s].ref, c.image.spelling = File(v).image[s].spelling
  PROVE  c.image = File(v).image[s]
<1>1. c.image \in UNION {{Compose[w].image[t] : t \in Compose[w].services} : w \in Versions}
  BY DEF HostOK, Container
<1>2. PICK w \in Versions : c.image \in {Compose[w].image[t] : t \in Compose[w].services}
  BY <1>1
<1>3. PICK t \in Compose[w].services : c.image = Compose[w].image[t]
  BY <1>2
<1>4. c.image = [ref |-> c.image.ref, spelling |-> c.image.spelling]
  BY <1>3, ComposeAssumption
<1>5. File(v).image[s] = [ref |-> File(v).image[s].ref, spelling |-> File(v).image[s].spelling]
  BY ComposeAssumption DEF File
<1>6. QED
  BY <1>4, <1>5

\* An empty report: a deployment would keep every container of a checked service.
LEMMA NothingToDeploy ==
  ASSUME HostOK(conts), stale \in BOOLEAN, NEW v \in Versions, Report(v) = {},
         NEW s \in Checked(v),
         \A c \in Named(s) : c.image.spelling = File(v).image[s].spelling
  PROVE  Named(s) \in Kept(v, s, stale) /\ Need(v, s, stale) = 0
<1>1. s \in File(v).services
  BY DEF Checked
<1>2. Labelled(s) = Named(s)
  BY DEF Labelled, Named
<1>3. ~stale /\ s \notin Few(v) /\ s \notin Many(v) /\ s \notin Mismatch(v)
             /\ s \notin Stopped(v) /\ s \notin Sick(v)
  BY Parted
<1>4. File(v).replicas[s] \in Nat
  <2>1. File(v).replicas[s] \in 1..MaxPer
    BY <1>1, ComposeAssumption DEF File
  <2>2. QED
    BY <2>1, BoundsAssumption
<1>5. Cardinality(Named(s)) \in Nat
  <2>1. IsFiniteSet(Named(s))
    <3>1. s \in Services /\ Named(s) = Group(conts, s)
      BY <1>1, ComposeAssumption DEF File, Named, Group
    <3>2. QED
      BY <3>1 DEF HostOK
  <2>2. QED
    BY <2>1, FS_CardinalityType
<1>6. Cardinality(Named(s)) = File(v).replicas[s]
  BY <1>2, <1>3, <1>4, <1>5 DEF Few, Many
<1>7. \A c \in Named(s) : c.image = File(v).image[s] /\ c.state = "running"
  <2>1. TAKE c \in Named(s)
  <2>2. c \in conts /\ c \in Container
    BY DEF Named, HostOK
  <2>3. c.state \in {"running", "paused", "exited", "crashed", "unhealthy"}
    BY <2>2 DEF Container
  <2>4. c.state = "running"
    BY <1>2, <1>3, <2>3 DEF Stopped, Sick
  <2>5. c.image.ref = File(v).image[s].ref
    BY <1>2, <1>3 DEF Mismatch, imagesMatch
  <2>6. QED
    BY <1>1, <2>2, <2>4, <2>5, SameImage
<1>8. Keepable(v, s, stale) = Named(s)
  BY <1>3, <1>7 DEF Keepable
<1>9. QED
  BY <1>4, <1>6, <1>8 DEF Kept, Need

LEMMA EmptyReport ==
  ASSUME DriftInv
  PROVE  NothingMissed
<1>1. SUFFICES ASSUME Report(head) = {}
               PROVE  /\ Names(head, DOMAIN File(head).volumes) \subseteq vols
                      /\ File(head).networks \subseteq nets
                      /\ \A s \in Checked(head) :
                           (\A c \in Named(s) : c.image.spelling = File(head).image[s].spelling)
                             => Named(s) \in Kept(head, s, stale) /\ Need(head, s, stale) = 0
  BY DEF NothingMissed
<1>2. head \in Versions /\ HostOK(conts) /\ stale \in BOOLEAN
  BY Parts
<1>3. Lost(head) = {}
  BY <1>1, Parted
<1>4. Names(head, DOMAIN File(head).volumes) \subseteq vols
  BY <1>2, <1>3, VolumeNamesAgree DEF Lost, Names
<1>5. File(head).networks \subseteq nets
  BY <1>1, Parted
<1>6. QED
  BY <1>1, <1>2, <1>4, <1>5, NothingToDeploy

(* Where checkDrift reports nothing, deployService would keep every        *)
(* container of every checked service, create none, and find the networks  *)
(* and volumes there: the reconciler misses nothing a deployment does.     *)
THEOREM ReportMissesNothing == Spec => []NothingMissed
<1>1. DriftInv => NothingMissed
  BY EmptyReport
<1>2. QED
  BY <1>1, DriftInvariant, PTL
=============================================================================
