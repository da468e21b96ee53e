---------------------------- MODULE SessionsProofs ----------------------------
(***************************************************************************)
(* Proofs about Sessions, for any number of requests and hosts: requests   *)
(* on one host share one open client, a stack on a deleted host means that *)
(* its save overlapped the deletion, and an exec's end is recorded before  *)
(* its client is told.                                                     *)
(***************************************************************************)
EXTENDS Sessions, TLAPS

\* Positions before a request has its client, and after that.
Early == {"idle", "counted", "saving", "lookup", "install"}
Waiting == Early \cup {"ready"}
Serving == {"upgrade", "attach", "refused", "pipe", "inspect", "copy", "closing", "leaving",
            "extract", "serving", "join", "done"}
Session == [pc : Waiting \cup Serving, kind : Kinds \cup {"none", "create", "update"},
            host : HostIds \cup {None}, client : Reqs \cup {None}, peer : BOOLEAN, ctx : BOOLEAN,
            up : {"none", "open", "ended"}, cmd : {"none", "running", "zero", "nonzero"},
            in : BOOLEAN, out : BOOLEAN, stuck : BOOLEAN, helper : {"none", "there"},
            trail : {"none", "started", "success", "failure"}, told : BOOLEAN]

TypeInv ==
  /\ hosts \in SUBSET HostIds /\ unused \in SUBSET HostIds /\ hosts \cap unused = {}
  /\ stack \in HostIds \cup {None}
  /\ cache \in [HostIds -> Reqs \cup {None}]
  /\ closed \in SUBSET (HostIds \X Reqs)
  /\ raced \in SUBSET HostIds
  /\ req \in [Reqs -> Session]

\* Before a request has its client it has nothing else.
Empty(x) ==
  /\ x.up = "none" /\ x.cmd = "none" /\ ~x.in /\ ~x.out
  /\ x.helper = "none" /\ x.trail = "none" /\ ~x.told

\* After that, its kind says what it has and which positions it passes.
SessionOK(x) ==
  /\ x.pc \in Waiting => Empty(x)
  /\ x.pc \in {"upgrade", "refused", "pipe", "inspect"} => x.kind = "exec"
  /\ x.pc \in {"attach", "closing", "leaving"} => x.kind \in {"exec", "logs"}
  /\ x.pc \in {"upgrade", "attach"} => ~x.in /\ ~x.out
  /\ x.pc = "copy" => x.kind \in Follows
  /\ x.pc \in {"extract", "serving", "join"} => x.kind \in Volumes
  /\ x.in => x.up # "none" /\ x.kind \in {"exec", "logs"}
  /\ x.kind = "events" => ~x.out
  /\ x.pc = "done" /\ x.kind # "exec" => ~x.out
  /\ x.helper # "none" => x.kind \in Volumes
  /\ x.trail # "none" \/ x.cmd # "none" => x.kind = "exec"

\* What an exec has recorded, and what its client knows, at each position.
TrailOK(x) ==
  x.kind = "exec" =>
    /\ x.pc \in {"upgrade", "attach", "refused"} => x.cmd = "none"
    /\ x.pc \in {"upgrade", "attach", "pipe", "inspect"} => ~x.told
    /\ x.pc \in {"closing", "leaving"} => x.trail # "started"
    /\ x.told /\ x.cmd # "none" => x.trail # "started"
    /\ x.pc = "done" /\ x.trail = "started" => ~x.told /\ x.cmd = "none"

\* The client of a host never changes; who is still building one has not built
\* the one in the cache.
ClientInv ==
  /\ \A r \in Reqs : req[r].client # None =>
       req[r].host # None /\ req[r].client = cache[req[r].host]
  /\ \A r \in Reqs : req[r].pc \in Early => req[r].client = None
  /\ \A r \in Reqs : req[r].pc \in {"lookup", "install"} =>
       req[r].host # None /\ cache[req[r].host] # r
  /\ \A h \in HostIds : cache[h] # None => <<h, cache[h]>> \notin closed

\* A save of a stack and a deletion of its host that have both begun.
OrphanInv ==
  \A r \in Reqs :
    /\ At(r, "saving") => req[r].host # None /\ (req[r].host \in hosts \/ req[r].host \in raced)
    /\ At(r, "counted") => req[r].host # None /\ (req[r].host = stack => stack \in raced)

IInv ==
  /\ TypeInv
  /\ \A r \in Reqs : SessionOK(req[r]) /\ TrailOK(req[r])
  /\ ClientInv /\ OrphanInv
  /\ OrphansOverlap

-----------------------------------------------------------------------------
\* A request slot that serves nobody is in order.
LEMMA FreshOK == Fresh \in Session /\ SessionOK(Fresh) /\ TrailOK(Fresh)
BY DEF Fresh, Session, SessionOK, TrailOK, Empty, Early, Waiting, Serving, Kinds, Follows, Volumes

\* A step of one request that keeps to what it has and moves on to a position
\* where it builds no client and changes no host or stack.
Own(r) ==
  /\ UNCHANGED shared
  /\ req' \in [Reqs -> Session] /\ \A q \in Reqs \ {r} : req'[q] = req[q]
  /\ SessionOK(req'[r]) /\ TrailOK(req'[r])
  /\ \/ req'[r] = Fresh
     \/ /\ req'[r].host = req[r].host /\ req'[r].client = req[r].client
        /\ req'[r].pc = req[r].pc \/ req'[r].pc \notin Early

\* Such a step leaves the other requests, clients, hosts and the stack alone.
LEMMA OwnStep == ASSUME IInv, NEW r \in Reqs, Own(r) PROVE IInv'
<1> USE DEF Own, shared, registry
<1>1. TypeInv'
  BY DEF IInv, TypeInv
<1>2. \A q \in Reqs : SessionOK(req'[q]) /\ TrailOK(req'[q])
  BY DEF IInv
<1>3. ClientInv'
  BY DEF IInv, ClientInv, Fresh, Early
<1>4. OrphanInv'
  BY DEF IInv, OrphanInv, At, Fresh, Early
<1>5. OrphansOverlap'
  BY DEF IInv, OrphansOverlap
<1>6. QED
  BY <1>1, <1>2, <1>3, <1>4, <1>5 DEF IInv

\* Replacing a request's record by one that is in order.
LEMMA Replaced ==
  ASSUME IInv, NEW r \in Reqs, NEW y \in Session, req' = [req EXCEPT ![r] = y], UNCHANGED shared,
         SessionOK(y), TrailOK(y), y.host = req[r].host, y.client = req[r].client,
         y.pc = req[r].pc \/ y.pc \notin Early
  PROVE  Own(r)
BY DEF Own, IInv, TypeInv

\* A request that loses its client, its context or a goroutine stays in order.
LEMMA Weakened ==
  ASSUME IInv, NEW r \in Reqs, UNCHANGED shared,
         NEW p \in BOOLEAN, NEW c \in BOOLEAN, NEW i \in BOOLEAN, NEW o \in BOOLEAN, NEW k \in BOOLEAN,
         i => req[r].in, o => req[r].out,
         req' = [req EXCEPT ![r] = [req[r] EXCEPT !.peer = p, !.ctx = c, !.in = i, !.out = o, !.stuck = k]]
  PROVE  Own(r)
<1> DEFINE x == req[r]  y == [x EXCEPT !.peer = p, !.ctx = c, !.in = i, !.out = o, !.stuck = k]
<1>1. x \in Session /\ SessionOK(x) /\ TrailOK(x)
  BY DEF IInv, TypeInv
<1>2. y \in Session
  BY <1>1 DEF Session
<1>3. /\ y.pc = x.pc /\ y.kind = x.kind /\ y.host = x.host /\ y.client = x.client
      /\ y.up = x.up /\ y.cmd = x.cmd /\ y.helper = x.helper /\ y.trail = x.trail
      /\ (y.told <=> x.told) /\ (y.in => x.in) /\ (y.out => x.out)
  BY <1>1 DEF Session
<1>0. req' = [req EXCEPT ![r] = y]
  OBVIOUS
<1> HIDE DEF y
<1>4. SessionOK(y) /\ TrailOK(y)
  BY <1>1, <1>3 DEF SessionOK, TrailOK, Empty
<1>5. QED
  BY <1>0, <1>2, <1>3, <1>4, Replaced

\* Clients leave, timeouts pass and goroutines end.
LEMMA EndStep ==
  ASSUME IInv, NEW r \in Reqs,
         \/ PeerLeaves(r) \/ Timeout(r) \/ ExecReaderEnds(r) \/ StdinBlocks(r) \/ StdinFails(r) \/ CopierEnds(r)
         \/ FollowReaderEnds(r) \/ PingerEnds(r) \/ WriterEnds(r)
  PROVE  Own(r)
<1> DEFINE x == req[r]
           Set(p, c, i, o, k) ==
             req' = [req EXCEPT ![r] = [x EXCEPT !.peer = p, !.ctx = c, !.in = i, !.out = o, !.stuck = k]]
<1>1. x \in Session /\ req \in [Reqs -> Session] /\ UNCHANGED shared
  BY DEF IInv, TypeInv, PeerLeaves, Timeout, ExecReaderEnds, StdinBlocks, StdinFails, CopierEnds, FollowReaderEnds,
     PingerEnds, WriterEnds
<1>2. x.peer \in BOOLEAN /\ x.ctx \in BOOLEAN /\ x.in \in BOOLEAN /\ x.out \in BOOLEAN /\ x.stuck \in BOOLEAN
  BY <1>1 DEF Session
<1>3. ASSUME NEW p \in BOOLEAN, NEW c \in BOOLEAN, NEW i \in BOOLEAN, NEW o \in BOOLEAN, NEW k \in BOOLEAN,
             i => x.in, o => x.out, Set(p, c, i, o, k)
      PROVE  Own(r)
  BY <1>1, <1>3, Weakened
<1>4. CASE PeerLeaves(r)
  <2>1. Set(FALSE, x.ctx /\ x.kind \in {"exec", "logs"}, x.in, x.out, x.stuck)
    BY <1>1, <1>2, <1>4 DEF PeerLeaves, Session
  <2>2. QED
    BY <1>2, <1>3, <2>1
<1>5. CASE Timeout(r)
  <2>1. Set(x.peer, FALSE, x.in, x.out, x.stuck)
    BY <1>1, <1>2, <1>5 DEF Timeout, Session
  <2>2. QED
    BY <1>2, <1>3, <2>1
<1>6. CASE ExecReaderEnds(r) \/ StdinFails(r)
  <2>1. req' = [req EXCEPT ![r].in = FALSE, ![r].stuck = FALSE]
    BY <1>6 DEF ExecReaderEnds, StdinFails
  <2>2. Set(x.peer, x.ctx, FALSE, x.out, FALSE)
    BY <1>1, <1>2, <2>1 DEF Session
  <2>3. QED
    BY <1>2, <1>3, <2>2
<1>10. CASE StdinBlocks(r)
  <2>1. Set(x.peer, x.ctx, x.in, x.out, ~x.stuck)
    BY <1>1, <1>2, <1>10 DEF StdinBlocks, Session
  <2>2. QED
    BY <1>2, <1>3, <2>1
<1>7. CASE CopierEnds(r) \/ PingerEnds(r) \/ WriterEnds(r)
  <2>1. req' = [req EXCEPT ![r].out = FALSE]
    BY <1>7 DEF CopierEnds, PingerEnds, WriterEnds
  <2>2. Set(x.peer, x.ctx, x.in, FALSE, x.stuck)
    BY <1>1, <1>2, <2>1 DEF Session
  <2>3. QED
    BY <1>2, <1>3, <2>2
<1>8. CASE FollowReaderEnds(r)
  <2>1. Set(x.peer, FALSE, FALSE, x.out, x.stuck)
    BY <1>1, <1>2, <1>8 DEF FollowReaderEnds, Session
  <2>2. QED
    BY <1>2, <1>3, <2>1
<1>9. QED
  BY <1>4, <1>5, <1>6, <1>7, <1>8, <1>10

\* A request that moves on, with another trail or a client that has been told.
Like(y, x, p, t, d) ==
  /\ y.pc = p /\ y.trail = t /\ (y.told <=> d)
  /\ y.kind = x.kind /\ y.host = x.host /\ y.client = x.client
  /\ y.up = x.up /\ y.cmd = x.cmd /\ y.helper = x.helper
  /\ (y.in <=> x.in) /\ (y.out <=> x.out)
Trails == {"none", "started", "success", "failure"}

LEMMA Moved ==
  ASSUME IInv, NEW r \in Reqs, UNCHANGED shared,
         NEW p \in Serving, NEW c \in BOOLEAN, NEW t \in Trails, NEW d \in BOOLEAN,
         req' = [req EXCEPT ![r] = [req[r] EXCEPT !.pc = p, !.ctx = c, !.trail = t, !.told = d]],
         \A y \in Session : Like(y, req[r], p, t, d) => SessionOK(y) /\ TrailOK(y)
  PROVE  Own(r)
<1> DEFINE y == [req[r] EXCEPT !.pc = p, !.ctx = c, !.trail = t, !.told = d]
<1>1. req[r] \in Session
  BY DEF IInv, TypeInv
<1>2. y \in Session /\ Like(y, req[r], p, t, d)
  <2>1. y \in Session
    BY <1>1 DEF Session, Trails
  <2>2. Like(y, req[r], p, t, d)
    BY <1>1 DEF Session, Like
  <2>3. QED
    BY <2>1, <2>2
<1>3. req' = [req EXCEPT ![r] = y]
  OBVIOUS
<1> HIDE DEF y
<1>4. y.pc \notin Early
  BY <1>2 DEF Early, Serving, Like
<1>5. QED
  BY <1>2, <1>3, <1>4, Replaced DEF Like

\* The other steps of the sessions and of the volume browser.
LEMMA SessionStep ==
  ASSUME IInv, NEW r \in Reqs,
         \/ GiveUp(r) \/ Recycle(r) \/ ExecCreate(r) \/ ExecAttach(r) \/ CommandExits(r) \/ StreamEnds(r)
         \/ PipeReturns(r) \/ FollowOpens(r) \/ CancelEndsStream(r) \/ CopyEnds(r) \/ Leave(r) \/ CreateHelper(r)
         \/ Transfer(r) \/ Serve(r) \/ RemoveHelper(r) \/ Upgrade(r) \/ Refuse(r) \/ RecordEnd(r)
         \/ SendClose(r) \/ OutputFails(r)
  PROVE  Own(r)
<1> DEFINE x == req[r]
<1>1. x \in Session /\ SessionOK(x) /\ TrailOK(x) /\ req \in [Reqs -> Session]
  BY DEF IInv, TypeInv
<1>2. CASE GiveUp(r)
  BY <1>1, <1>2, FreshOK DEF GiveUp, Own, Session, SessionOK, TrailOK, Empty, Early, Waiting, Serving, Kinds, Follows, Volumes, At, Is, Goto
<1>3. CASE Recycle(r)
  BY <1>1, <1>3, FreshOK DEF Recycle, Own, Session, SessionOK, TrailOK, Empty, Early, Waiting, Serving, Kinds, Follows, Volumes, At, Is, Goto
<1>4. CASE ExecCreate(r)
  BY <1>1, <1>4, FreshOK DEF ExecCreate, Own, Session, SessionOK, TrailOK, Empty, Early, Waiting, Serving, Kinds, Follows, Volumes, At, Is, Goto
<1>5. CASE ExecAttach(r)
  BY <1>1, <1>5, FreshOK DEF ExecAttach, Own, Session, SessionOK, TrailOK, Empty, Early, Waiting, Serving, Kinds, Follows, Volumes, At, Is, Goto
<1>6. CASE CommandExits(r)
  BY <1>1, <1>6, FreshOK DEF CommandExits, Own, Session, SessionOK, TrailOK, Empty, Early, Waiting, Serving, Kinds, Follows, Volumes, At, Is, Goto
<1>7. CASE StreamEnds(r)
  BY <1>1, <1>7, FreshOK DEF StreamEnds, Own, Session, SessionOK, TrailOK, Empty, Early, Waiting, Serving, Kinds, Follows, Volumes, At, Is, Goto
<1>8. CASE PipeReturns(r)
  BY <1>1, <1>8, FreshOK DEF PipeReturns, Own, Session, SessionOK, TrailOK, Empty, Early, Waiting, Serving, Kinds, Follows, Volumes, At, Is, Goto
<1>9. CASE FollowOpens(r)
  BY <1>1, <1>9, FreshOK DEF FollowOpens, Own, Session, SessionOK, TrailOK, Empty, Early, Waiting, Serving, Kinds, Follows, Volumes, At, Is, Goto
<1>10. CASE CancelEndsStream(r)
  BY <1>1, <1>10, FreshOK DEF CancelEndsStream, Own, Session, SessionOK, TrailOK, Empty, Early, Waiting, Serving, Kinds, Follows, Volumes, At, Is, Goto
<1>11. CASE CopyEnds(r)
  BY <1>1, <1>11, FreshOK DEF CopyEnds, Own, Session, SessionOK, TrailOK, Empty, Early, Waiting, Serving, Kinds, Follows, Volumes, At, Is, Goto
<1>12. CASE Leave(r)
  BY <1>1, <1>12, FreshOK DEF Leave, Own, Session, SessionOK, TrailOK, Empty, Early, Waiting, Serving, Kinds, Follows, Volumes, At, Is, Goto
<1>13. CASE CreateHelper(r)
  BY <1>1, <1>13, FreshOK DEF CreateHelper, Own, Session, SessionOK, TrailOK, Empty, Early, Waiting, Serving, Kinds, Follows, Volumes, At, Is, Goto
<1>14. CASE Transfer(r)
  BY <1>1, <1>14, FreshOK DEF Transfer, Own, Session, SessionOK, TrailOK, Empty, Early, Waiting, Serving, Kinds, Follows, Volumes, At, Is, Goto
<1>15. CASE Serve(r)
  BY <1>1, <1>15, FreshOK DEF Serve, Own, Session, SessionOK, TrailOK, Empty, Early, Waiting, Serving, Kinds, Follows, Volumes, At, Is, Goto
<1>16. CASE RemoveHelper(r)
  BY <1>1, <1>16, FreshOK DEF RemoveHelper, Own, Session, SessionOK, TrailOK, Empty, Early, Waiting, Serving, Kinds, Follows, Volumes, At, Is, Goto
<1> DEFINE Set(p, c, t, d) ==
             req' = [req EXCEPT ![r] = [x EXCEPT !.pc = p, !.ctx = c, !.trail = t, !.told = d]]
<1>17. x.ctx \in BOOLEAN /\ x.told \in BOOLEAN /\ x.trail \in Trails
  BY <1>1 DEF Session, Trails
<1>18. CASE Upgrade(r)
  <2>1. PICK p \in {"attach", "done"} : req' = [req EXCEPT ![r].pc = p]
    BY <1>18 DEF Upgrade, Goto, At, Is
  <2>2. Set(p, x.ctx, x.trail, x.told) /\ UNCHANGED shared /\ p \in Serving
    BY <1>1, <1>17, <1>18, <2>1 DEF Session, Upgrade, Serving
  <2>3. \A y \in Session : Like(y, x, p, x.trail, x.told) => SessionOK(y) /\ TrailOK(y)
    BY <1>1, <1>18 DEF Upgrade, Like, SessionOK, TrailOK, Empty, Early, Waiting, At, Is, Follows, Volumes
  <2>4. QED
    BY <1>17, <2>2, <2>3, Moved
<1>19. CASE RecordEnd(r)
  <2>1. PICK t \in {"success", "failure"} : req' = [req EXCEPT ![r].pc = "closing", ![r].trail = t]
    BY <1>19 DEF RecordEnd, InspectedExit
  <2>2. Set("closing", x.ctx, t, x.told) /\ UNCHANGED shared /\ "closing" \in Serving /\ t \in Trails
    <3>1. req' = [req EXCEPT ![r] = [x EXCEPT !.pc = "closing", !.trail = t]]
      BY <1>1, <2>1
    <3>2. Set("closing", x.ctx, t, x.told)
      BY <1>1, <3>1 DEF Session
    <3>3. QED
      BY <1>19, <3>2 DEF RecordEnd, Serving, Trails
  <2>3. \A y \in Session : Like(y, x, "closing", t, x.told) => SessionOK(y) /\ TrailOK(y)
    BY <1>1, <1>19 DEF RecordEnd, Like, SessionOK, TrailOK, Empty, Early, Waiting, At, Is
  <2>4. QED
    BY <1>17, <2>2, <2>3, Moved
<1>20. CASE Refuse(r)
  <2>1. CASE x.told
    <3>1. Set("leaving", x.ctx, "failure", x.told) /\ UNCHANGED shared
          /\ "leaving" \in Serving /\ "failure" \in Trails
      <4>1. req' = [req EXCEPT ![r].pc = "leaving", ![r].trail = "failure"] /\ UNCHANGED shared
        BY <1>20, <2>1 DEF Refuse
      <4>2. req' = [req EXCEPT ![r] = [x EXCEPT !.pc = "leaving", !.trail = "failure"]]
        BY <1>1, <4>1
      <4>3. Set("leaving", x.ctx, "failure", x.told)
        BY <1>1, <4>2 DEF Session
      <4>4. QED
        BY <4>1, <4>3 DEF Serving, Trails
    <3>2. \A y \in Session : Like(y, x, "leaving", "failure", x.told) => SessionOK(y) /\ TrailOK(y)
      BY <1>1, <1>20 DEF Refuse, Like, SessionOK, TrailOK, Empty, Early, Waiting, At, Is
    <3>3. QED
      BY <1>17, <3>1, <3>2, Moved
  <2>2. CASE ~x.told
    <3>1. Set("refused", x.ctx, x.trail, TRUE) /\ UNCHANGED shared /\ "refused" \in Serving
      <4>1. x.pc = "refused" /\ req' = [req EXCEPT ![r].told = TRUE] /\ UNCHANGED shared
        BY <1>20, <2>2 DEF Refuse, At
      <4>2. req' = [req EXCEPT ![r] = [x EXCEPT !.told = TRUE]]
        BY <1>1, <4>1
      <4>3. Set(x.pc, x.ctx, x.trail, TRUE)
        BY <1>1, <4>2 DEF Session
      <4>4. QED
        BY <4>1, <4>3 DEF Serving
    <3>2. \A y \in Session : Like(y, x, "refused", x.trail, TRUE) => SessionOK(y) /\ TrailOK(y)
      BY <1>1, <1>20 DEF Refuse, Like, SessionOK, TrailOK, Empty, Early, Waiting, At, Is
    <3>3. QED
      BY <1>17, <3>1, <3>2, Moved
  <2>3. QED
    BY <2>1, <2>2
<1>21. CASE SendClose(r)
  <2> DEFINE c == x.ctx /\ x.kind = "exec"  d == x.kind = "exec"
  <2>1. Set("leaving", c, x.trail, d) /\ UNCHANGED shared /\ "leaving" \in Serving
    <3>1. req' = [req EXCEPT ![r].pc = "leaving", ![r].told = d, ![r].ctx = c] /\ UNCHANGED shared
      BY <1>1, <1>21 DEF SendClose, Is
    <3>2. req' = [req EXCEPT ![r] = [x EXCEPT !.pc = "leaving", !.told = d, !.ctx = c]]
      BY <1>1, <3>1
    <3>3. Set("leaving", c, x.trail, d)
      BY <1>1, <3>2 DEF Session
    <3>4. QED
      BY <3>1, <3>3 DEF Serving
  <2>2. \A y \in Session : Like(y, x, "leaving", x.trail, d) => SessionOK(y) /\ TrailOK(y)
    BY <1>1, <1>21 DEF SendClose, Like, SessionOK, TrailOK, Empty, Early, Waiting, At, Is
  <2>3. c \in BOOLEAN /\ d \in BOOLEAN
    OBVIOUS
  <2> HIDE DEF c, d
  <2>4. QED
    BY <1>17, <2>1, <2>2, <2>3, Moved
<1>22. CASE OutputFails(r)
  <2>1. CASE x.kind = "exec"
    <3>1. req' = [req EXCEPT ![r].out = FALSE] /\ UNCHANGED shared
      BY <1>22, <2>1 DEF OutputFails, Is
    <3>2. req' = [req EXCEPT ![r] = [x EXCEPT !.peer = x.peer, !.ctx = x.ctx, !.in = x.in, !.out = FALSE,
                                                      !.stuck = x.stuck]]
      BY <1>1, <3>1 DEF Session
    <3>3. x.peer \in BOOLEAN /\ x.ctx \in BOOLEAN /\ x.in \in BOOLEAN /\ x.stuck \in BOOLEAN
      BY <1>1 DEF Session
    <3>4. QED
      BY <3>1, <3>2, <3>3, Weakened
  <2>2. CASE x.kind # "exec"
    <3>1. x.kind = "logs" /\ x.pc = "copy" /\ req' = [req EXCEPT ![r].pc = "closing"] /\ UNCHANGED shared
      BY <1>22, <2>2 DEF OutputFails, Goto, At, Is
    <3>2. Set("closing", x.ctx, x.trail, x.told) /\ "closing" \in Serving
      BY <1>1, <1>17, <3>1 DEF Session, Serving
    <3>3. \A y \in Session : Like(y, x, "closing", x.trail, x.told) => SessionOK(y) /\ TrailOK(y)
      BY <1>1, <3>1 DEF Like, SessionOK, TrailOK, Empty, Early, Waiting
    <3>4. QED
      BY <1>17, <3>1, <3>2, <3>3, Moved
  <2>3. QED
    BY <2>1, <2>2
<1>23. QED
  BY <1>2, <1>3, <1>4, <1>5, <1>6, <1>7, <1>8, <1>9, <1>10, <1>11, <1>12, <1>13, <1>14, <1>15, <1>16,
     <1>18, <1>19, <1>20, <1>21, <1>22

-----------------------------------------------------------------------------
(* Steps that change what requests share, or build a client. *)

\* A host is registered; the cleanup loop removes stopped containers.
LEMMA RegistryStep ==
  ASSUME IInv, \E h \in HostIds : RegisterHost(h) \/ Prune(h) PROVE IInv'
<1>1. ASSUME NEW h \in HostIds, RegisterHost(h) PROVE IInv'
  <2>1. TypeInv'
    BY <1>1 DEF IInv, TypeInv, RegisterHost
  <2>2. (ClientInv /\ OrphanInv /\ OrphansOverlap)'
    BY <1>1 DEF IInv, ClientInv, OrphanInv, OrphansOverlap, RegisterHost, At
  <2>3. QED
    BY <1>1, <2>1, <2>2 DEF IInv, RegisterHost
<1>2. ASSUME NEW h \in HostIds, Prune(h) PROVE IInv'
  <2>1. \A r \in Reqs : req'[r] \in {req[r], [req[r] EXCEPT !.helper = "none"]}
    BY <1>2 DEF Prune
  <2>2. ASSUME NEW r \in Reqs
        PROVE  /\ req'[r] \in Session /\ SessionOK(req'[r]) /\ TrailOK(req'[r])
               /\ req'[r].pc = req[r].pc /\ req'[r].host = req[r].host /\ req'[r].client = req[r].client
    <3>1. req[r] \in Session /\ SessionOK(req[r]) /\ TrailOK(req[r])
      BY DEF IInv, TypeInv
    <3>2. CASE req'[r] = req[r]
      BY <3>1, <3>2
    <3>3. CASE req'[r] = [req[r] EXCEPT !.helper = "none"]
      BY <3>1, <3>3 DEF Session, SessionOK, TrailOK, Empty
    <3>4. QED
      BY <2>1, <3>2, <3>3
  <2>3. req' \in [Reqs -> Session]
    BY <1>2, <2>2 DEF Prune
  <2>4. TypeInv'
    BY <1>2, <2>3 DEF IInv, TypeInv, Prune, shared, registry
  <2>5. (ClientInv /\ OrphanInv /\ OrphansOverlap)'
    BY <1>2, <2>2 DEF IInv, ClientInv, OrphanInv, OrphansOverlap, Prune, shared, registry, At
  <2>6. QED
    BY <2>2, <2>4, <2>5 DEF IInv
<1>3. QED
  BY <1>1, <1>2

\* Requests that count, delete, resolve or save: the ones a host and its stack
\* may be left inconsistent by.
LEMMA HostStep ==
  ASSUME IInv, NEW r \in Reqs,
         \/ DeleteHost(r) \/ SaveStack(r) \/ DeleteStack(r)
         \/ \E h \in HostIds : \/ CountStacks(r, h)
                               \/ ResolveHost(r, "create", h) \/ ResolveHost(r, "update", h)
  PROVE  IInv'
<1>1. req[r] \in Session /\ SessionOK(req[r]) /\ TrailOK(req[r]) /\ req \in [Reqs -> Session]
  BY DEF IInv, TypeInv
<1>2. CASE DeleteHost(r)
  <2>1. /\ req' \in [Reqs -> Session] /\ req'[r] = Fresh
        /\ \A q \in Reqs \ {r} : req'[q] = req[q]
        /\ UNCHANGED <<unused, stack, cache, closed>> /\ hosts' = hosts \ {req[r].host}
        /\ raced' = raced \cup {g \in {req[r].host} : \E q \in Reqs : At(q, "saving") /\ req[q].host = g}
        /\ req[r].host \in HostIds
    BY <1>1, <1>2, FreshOK DEF DeleteHost, IInv, OrphanInv, At, Session
  <2>2. TypeInv'
    BY <2>1 DEF IInv, TypeInv
  <2>3. ClientInv'
    BY <2>1 DEF IInv, ClientInv, Fresh, Early
  <2>4. (OrphanInv /\ OrphansOverlap)'
    BY <1>2, <2>1 DEF DeleteHost, IInv, OrphanInv, OrphansOverlap, At, Fresh
  <2>5. QED
    BY <2>1, <2>2, <2>3, <2>4, FreshOK DEF IInv
<1>3. CASE SaveStack(r)
  <2>1. /\ req' \in [Reqs -> Session] /\ req'[r] = Fresh
        /\ \A q \in Reqs \ {r} : req'[q] = req[q]
        /\ UNCHANGED <<hosts, unused, cache, closed>> /\ stack' \in {stack, req[r].host}
        /\ raced' = raced \cup {g \in {req[r].host} : \E q \in Reqs : At(q, "counted") /\ req[q].host = g}
        /\ req[r].host \in HostIds
    BY <1>1, <1>3, FreshOK DEF SaveStack, registry, IInv, OrphanInv, At, Session
  <2>2. TypeInv'
    BY <2>1 DEF IInv, TypeInv
  <2>3. ClientInv'
    BY <2>1 DEF IInv, ClientInv, Fresh, Early
  <2>4. (OrphanInv /\ OrphansOverlap)'
    BY <1>3, <2>1 DEF SaveStack, IInv, OrphanInv, OrphansOverlap, At, Fresh
  <2>5. QED
    BY <2>1, <2>2, <2>3, <2>4, FreshOK DEF IInv
<1>4. CASE DeleteStack(r)
  <2>1. UNCHANGED <<hosts, unused, cache, closed, req, raced>> /\ stack' = None
    BY <1>4 DEF DeleteStack, registry
  <2>2. (TypeInv /\ ClientInv /\ OrphanInv /\ OrphansOverlap)'
    BY <2>1 DEF IInv, TypeInv, ClientInv, OrphanInv, OrphansOverlap, At
  <2>3. QED
    BY <2>1, <2>2 DEF IInv
<1>5. ASSUME NEW h \in HostIds,
             CountStacks(r, h) \/ ResolveHost(r, "create", h) \/ ResolveHost(r, "update", h)
      PROVE  IInv'
  <2>1. PICK p \in {"counted", "saving"}, k \in {req[r].kind, "create", "update"} :
          /\ req' = [req EXCEPT ![r] = [req[r] EXCEPT !.pc = p, !.kind = k, !.host = h]]
          /\ p = "counted" => stack # h
          /\ p = "saving" => h \in hosts \/ h = stack
          /\ req[r].pc = "idle" /\ UNCHANGED shared
    <3>1. CASE CountStacks(r, h)
      <4>1. req' = [req EXCEPT ![r] = [req[r] EXCEPT !.pc = "counted", !.kind = req[r].kind, !.host = h]]
        BY <1>1, <3>1 DEF CountStacks, Session
      <4>2. QED
        BY <3>1, <4>1 DEF CountStacks, At
    <3>2. ASSUME NEW k \in {"create", "update"}, ResolveHost(r, k, h)
          PROVE  /\ req' = [req EXCEPT ![r] = [req[r] EXCEPT !.pc = "saving", !.kind = k, !.host = h]]
                 /\ h \in hosts \/ h = stack
                 /\ req[r].pc = "idle" /\ UNCHANGED shared
      BY <1>1, <3>2 DEF ResolveHost, At
    <3>3. QED
      BY <1>5, <3>1, <3>2
  <2> DEFINE y == [req[r] EXCEPT !.pc = p, !.kind = k, !.host = h]
  <2>2. y \in Session
    BY <1>1, <2>1 DEF Session, Early, Waiting
  <2>3. SessionOK(y) /\ TrailOK(y) /\ y.pc = p /\ y.host = h /\ y.client = req[r].client
    BY <1>1, <2>1 DEF Session, SessionOK, TrailOK, Empty, Early, Waiting
  <2>4. req' = [req EXCEPT ![r] = y]
    BY <2>1
  <2> HIDE DEF y
  <2>5. /\ req'[r] = y /\ req' \in [Reqs -> Session]
        /\ \A q \in Reqs \ {r} : req'[q] = req[q]
    BY <1>1, <2>2, <2>4
  <2>6. TypeInv'
    BY <2>1, <2>5 DEF IInv, TypeInv, shared, registry
  <2>7. req[r].client = None /\ h # None
    BY <2>1, ConstantsAssumption DEF IInv, ClientInv, Early
  <2>8. ClientInv'
    BY <2>1, <2>3, <2>5, <2>7 DEF IInv, ClientInv, shared, registry
  <2>9. (OrphanInv /\ OrphansOverlap)'
    BY <2>1, <2>3, <2>5, <2>7 DEF IInv, OrphanInv, OrphansOverlap, shared, registry, At
  <2>10. QED
    BY <2>3, <2>5, <2>6, <2>8, <2>9 DEF IInv
<1>6. QED
  BY <1>2, <1>3, <1>4, <1>5

\* ClientFor: who finds no client builds one, and the first one to land stays.
LEMMA ClientStep ==
  ASSUME IInv, NEW r \in Reqs,
         \/ \E h \in HostIds : \E kind \in Serves[r] : Begin(r, kind, h)
         \/ Lookup(r) \/ Install(r)
  PROVE  IInv'
<1>1. req[r] \in Session /\ SessionOK(req[r]) /\ TrailOK(req[r]) /\ req \in [Reqs -> Session]
  BY DEF IInv, TypeInv
<1>2. ASSUME NEW h \in HostIds, NEW kind \in Kinds, Begin(r, kind, h) PROVE IInv'
  <2> DEFINE p == IF cache[h] # None THEN "ready" ELSE "lookup"
             y == [Fresh EXCEPT !.pc = p, !.kind = kind, !.host = h, !.client = cache[h]]
  <2>1. req' = [req EXCEPT ![r] = y] /\ UNCHANGED <<hosts, unused, stack, cache, closed, raced>>
    BY <1>2 DEF Begin, shared, registry
  <2>2. cache[h] \in Reqs \cup {None} /\ h # None
    BY ConstantsAssumption DEF IInv, TypeInv
  <2>3. y \in Session
    BY <2>2 DEF Fresh, Session, Early, Waiting
  <2>4. /\ SessionOK(y) /\ TrailOK(y)
        /\ y.pc = p /\ y.host = h /\ y.client = cache[h]
    BY DEF Fresh, SessionOK, TrailOK, Empty, Early, Waiting
  <2> HIDE DEF y
  <2>5. /\ req'[r] = y /\ req' \in [Reqs -> Session]
        /\ \A q \in Reqs \ {r} : req'[q] = req[q]
    BY <1>1, <2>1, <2>3
  <2>6. TypeInv'
    BY <2>1, <2>5 DEF IInv, TypeInv
  <2>7. ClientInv'
    BY <2>1, <2>2, <2>4, <2>5, ConstantsAssumption DEF IInv, ClientInv, Early
  <2>8. (OrphanInv /\ OrphansOverlap)'
    BY <2>1, <2>4, <2>5 DEF IInv, OrphanInv, OrphansOverlap, At
  <2>9. QED
    BY <2>4, <2>5, <2>6, <2>7, <2>8 DEF IInv
<1>3. CASE Lookup(r)
  <2>1. UNCHANGED <<hosts, unused, stack, cache, closed, raced>> /\ req[r].pc = "lookup"
    BY <1>3 DEF Lookup, shared, registry, At
  <2>2. PICK y \in Session : /\ req' = [req EXCEPT ![r] = y] /\ SessionOK(y) /\ TrailOK(y)
                             /\ \/ y = Fresh
                                \/ y.pc = "install" /\ y.host = req[r].host /\ y.client = req[r].client
    <3>1. CASE req' = [req EXCEPT ![r] = Fresh]
      BY <3>1, FreshOK
    <3>2. CASE Goto(r, "install")
      <4> DEFINE y == [req[r] EXCEPT !.pc = "install"]
      <4>1. y \in Session /\ req' = [req EXCEPT ![r] = y]
        BY <1>1, <3>2 DEF Goto, Session, Early, Waiting
      <4>2. /\ SessionOK(y) /\ TrailOK(y)
            /\ y.pc = "install" /\ y.host = req[r].host /\ y.client = req[r].client
        BY <1>1, <2>1 DEF Session, SessionOK, TrailOK, Empty, Early, Waiting
      <4>3. QED
        BY <4>1, <4>2
    <3>3. QED
      BY <1>3, <3>1, <3>2 DEF Lookup
  <2>3. /\ req'[r] = y /\ req' \in [Reqs -> Session]
        /\ \A q \in Reqs \ {r} : req'[q] = req[q]
    BY <1>1, <2>2
  <2>4. TypeInv'
    BY <2>1, <2>3 DEF IInv, TypeInv
  <2>5. ClientInv'
    BY <2>1, <2>2, <2>3 DEF IInv, ClientInv, Early, Fresh
  <2>6. (OrphanInv /\ OrphansOverlap)'
    BY <2>1, <2>2, <2>3 DEF IInv, OrphanInv, OrphansOverlap, At, Fresh
  <2>7. QED
    BY <2>2, <2>3, <2>4, <2>5, <2>6 DEF IInv
<1>4. CASE Install(r)
  <2>1. PICK h \in HostIds : req[r].host = h
    BY <1>1, <1>4 DEF Install, At, IInv, ClientInv, Session
  <2>2. /\ UNCHANGED <<hosts, unused, stack, raced>> /\ req[r].pc = "install" /\ cache[h] # r
        /\ \/ cache[h] # None /\ closed' = closed \cup {<<h, r>>} /\ cache' = cache
           \/ cache[h] = None /\ cache' = [cache EXCEPT ![h] = r] /\ closed' = closed \ {<<h, r>>}
    BY <1>4, <2>1 DEF Install, registry, At, IInv, ClientInv
  <2>3. /\ cache' \in [HostIds -> Reqs \cup {None}] /\ cache'[h] # None
        /\ \A g \in HostIds : cache[g] # None => cache'[g] = cache[g]
        /\ \A g \in HostIds : cache'[g] \in {cache[g], r}
    BY <2>2, ConstantsAssumption DEF IInv, TypeInv
  <2>4. \A g \in HostIds : cache'[g] # None => <<g, cache'[g]>> \notin closed'
    BY <2>2, ConstantsAssumption DEF IInv, TypeInv, ClientInv
  <2> DEFINE z == cache'[h]
             y == [req[r] EXCEPT !.pc = "ready", !.client = z]
  <2>5. req' = [req EXCEPT ![r] = y]
    BY <1>1, <1>4, <2>1 DEF Install
  <2>6. z \in Reqs \cup {None}
    BY <2>3
  <2>7. y \in Session
    BY <1>1, <2>6 DEF Session, Early, Waiting
  <2>8. SessionOK(y) /\ TrailOK(y) /\ y.pc = "ready" /\ y.host = h /\ y.client = z
    BY <1>1, <2>1, <2>2 DEF Session, SessionOK, TrailOK, Empty, Early, Waiting
  <2> HIDE DEF y
  <2>9. /\ req'[r] = y /\ req' \in [Reqs -> Session]
        /\ \A q \in Reqs \ {r} : req'[q] = req[q]
    BY <1>1, <2>5, <2>7
  <2>10. TypeInv'
    BY <2>2, <2>3, <2>9 DEF IInv, TypeInv
  <2>11. ASSUME NEW q \in Reqs \ {r}
         PROVE  /\ req[q].client # None => req[q].host # None /\ req[q].client = cache'[req[q].host]
                /\ req[q].pc \in {"lookup", "install"} => cache'[req[q].host] # q
    <3>1. req[q].host # None => req[q].host \in HostIds
      BY DEF IInv, TypeInv, Session
    <3>2. QED
      BY <2>3, <3>1 DEF IInv, ClientInv
  <2>12. ClientInv'
    BY <2>1, <2>3, <2>4, <2>8, <2>9, <2>11, ConstantsAssumption DEF IInv, ClientInv, Early
  <2>13. (OrphanInv /\ OrphansOverlap)'
    BY <2>2, <2>8, <2>9 DEF IInv, OrphanInv, OrphansOverlap, At
  <2>14. QED
    BY <2>8, <2>9, <2>10, <2>12, <2>13 DEF IInv
<1>5. QED
  BY <1>2, <1>3, <1>4, ConstantsAssumption

-----------------------------------------------------------------------------
\* The inductive invariant: what a request holds at each position, the one client
\* of a host, and the saves and deletions that are under way.
THEOREM SessionsInvariant == Spec => []IInv
<1>1. Init => IInv
  <2> SUFFICES ASSUME Init PROVE IInv
    OBVIOUS
  <2>1. \A r \in Reqs : req[r] = Fresh
    BY DEF Init
  <2>2. TypeInv
    BY FreshOK DEF Init, TypeInv
  <2>3. ClientInv /\ OrphanInv /\ OrphansOverlap
    BY <2>1 DEF Init, ClientInv, OrphanInv, OrphansOverlap, At, Fresh
  <2>4. QED
    BY <2>1, <2>2, <2>3, FreshOK DEF IInv
<1>2. IInv /\ [Next]_vars => IInv'
  <2> SUFFICES ASSUME IInv, [Next]_vars PROVE IInv'
    OBVIOUS
  <2>1. CASE UNCHANGED vars
    BY <2>1 DEF vars, IInv, TypeInv, ClientInv, OrphanInv, OrphansOverlap, At
  <2>2. ASSUME NEW r \in Reqs, Own(r) PROVE IInv'
    BY <2>2, OwnStep
  <2>3. QED
    BY <2>1, <2>2, EndStep, SessionStep, RegistryStep, HostStep, ClientStep DEF Next, Progress, Goroutines
<1>3. QED
  BY <1>1, <1>2, PTL DEF Spec

\* Every request holds only what its kind may hold.
THEOREM TypeCorrect == Spec => []TypeOK
<1>1. IInv => TypeOK
  BY DEF IInv, TypeInv, TypeOK, SessionOK, At, Is
<1>2. QED
  BY <1>1, SessionsInvariant, PTL

\* All requests on one host share one client, and it is open.
THEOREM ClientAlwaysOpen == Spec => []SharedClientOpen
<1>1. IInv => SharedClientOpen
  <2> SUFFICES ASSUME IInv PROVE SharedClientOpen
    OBVIOUS
  <2>1. \A r \in Reqs : req[r].client # None =>
          req[r].host \in HostIds /\ req[r].client = cache[req[r].host]
    BY DEF IInv, TypeInv, ClientInv, Session
  <2>2. QED
    BY <2>1 DEF IInv, ClientInv, SharedClientOpen
<1>2. QED
  BY <1>1, SessionsInvariant, PTL

\* A stack on a deleted host was saved while the host was being deleted.
THEOREM OrphansAlwaysOverlap == Spec => []OrphansOverlap
<1>1. IInv => OrphansOverlap
  BY DEF IInv
<1>2. QED
  BY <1>1, SessionsInvariant, PTL

\* The client of an exec session is told of its end after that was recorded.
THEOREM TrailAlwaysFirst == Spec => []TrailBeforeClose
<1>1. IInv => TrailBeforeClose
  BY DEF IInv, TrailOK, TrailBeforeClose, At, Is
<1>2. QED
  BY <1>1, SessionsInvariant, PTL
=============================================================================
