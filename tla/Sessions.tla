------------------------------ MODULE Sessions ------------------------------
(***************************************************************************)
(* Requests that hold a Docker client while they run: exec sessions        *)
(* (ExecStackContainer with the two goroutines of execPipe), log and stats *)
(* streams (a reader and a pinger beside the handler), the event stream,   *)
(* and the volume browser, whose helper container outlives no request that *)
(* ends well.  They take their client from dockerhost.Manager, so the      *)
(* registered hosts, the cache of clients and the stack's host_id are here *)
(* too, with the requests that change them and the cleanup loop that       *)
(* prunes stopped containers on every host.                                *)
(*                                                                         *)
(* A request is one member of Reqs; when it and its goroutines have ended  *)
(* the member serves the next one.  A goroutine that has not ended keeps   *)
(* it.  The default host is never looked up and never closed, so every     *)
(* request here is for a registered host.                                  *)
(***************************************************************************)
EXTENDS Naturals, FiniteSets

CONSTANTS Reqs, HostIds, None,
          Serves       \* the kinds of long requests a member of Reqs stands for

Follows == {"logs", "events"}
Volumes == {"read", "write"}   \* a listing or a download, and an upload
Kinds   == {"exec"} \cup Follows \cup Volumes

ASSUME ConstantsAssumption ==
    None \notin HostIds /\ None \notin Reqs /\ Serves \in [Reqs -> SUBSET Kinds]

VARIABLES hosts,    \* rows of docker_hosts
          unused,   \* ids that no host has been given yet
          stack,    \* host_id of the stack, None when there is no stack
          cache,    \* byHost: the client of a host, named by the request that built it
          closed,   \* clients that have been closed, <<host, builder>>
          req,      \* the requests
          raced     \* history: hosts whose deletion overlapped a save of a stack on them

vars == <<hosts, unused, stack, cache, closed, req, raced>>

\* What one request holds.  host and client: what ClientFor was asked and gave;
\* peer: the other end of its connection; ctx: its context; up: the daemon's
\* stream; cmd: the command of an exec; in, out: its goroutines (socket reader;
\* output copier, pinger or tar writer); stuck: the reader is held up in a write;
\* helper: its helper container; trail: the audit entries of an exec, told: its
\* client was told of the end.
Fresh == [pc |-> "idle", kind |-> "none", host |-> None, client |-> None, peer |-> TRUE,
          ctx |-> TRUE, up |-> "none", cmd |-> "none", in |-> FALSE, out |-> FALSE, stuck |-> FALSE,
          helper |-> "none", trail |-> "none", told |-> FALSE]

Init == /\ hosts = {} /\ unused = HostIds
        /\ stack = None
        /\ cache = [h \in HostIds |-> None]
        /\ closed = {}
        /\ req = [r \in Reqs |-> Fresh]
        /\ raced = {}

At(r, pc)   == req[r].pc = pc
Is(r, kind) == req[r].kind = kind
Goto(r, pc) == req' = [req EXCEPT ![r].pc = pc]
registry    == <<hosts, unused>>
shared      == <<registry, stack, cache, closed, raced>>

-----------------------------------------------------------------------------
(* The registry of hosts and the stack's host.                             *)

\* CreateDockerHost, after a probe that keeps no client: a row with a fresh id.
RegisterHost(h) == /\ h \in unused
                   /\ unused' = unused \ {h} /\ hosts' = hosts \cup {h}
                   /\ UNCHANGED <<stack, cache, closed, req, raced>>

\* A variant that deletes without looking at the count.
CountStacksAnyway(r, h) == /\ At(r, "idle")
                           /\ req' = [req EXCEPT ![r].pc = "counted", ![r].host = h]
                           /\ UNCHANGED shared

\* DeleteDockerHost, first statement: refused while a stack targets the host.
CountStacks(r, h) == /\ At(r, "idle") /\ stack # h
                     /\ req' = [req EXCEPT ![r].pc = "counted", ![r].host = h]
                     /\ UNCHANGED shared

\* DeleteDockerHost, second statement.  The cached client stays.
DeleteHost(r) ==
    LET h == req[r].host IN
    /\ At(r, "counted")
    /\ hosts' = hosts \ {h}
    /\ raced' = raced \cup {g \in {h} : \E q \in Reqs : At(q, "saving") /\ req[q].host = g}
    /\ req' = [req EXCEPT ![r] = Fresh]
    /\ UNCHANGED <<unused, stack, cache, closed>>

\* CreateStack resolves the host it is given; UpdateStack too, or it keeps the
\* host_id of the row it has read, as every whole-row write of a deployment does.
ResolveHost(r, kind, h) ==
    /\ At(r, "idle")
    /\ kind = "create" => stack = None
    /\ kind = "update" => stack # None
    /\ h \in hosts \cup (IF kind = "update" THEN {stack} ELSE {})
    /\ req' = [req EXCEPT ![r].pc = "saving", ![r].kind = kind, ![r].host = h]
    /\ UNCHANGED shared

\* The row is written: an INSERT, or an UPDATE that may match no row.
SaveStack(r) ==
    LET h == req[r].host  writes == Is(r, "create") <=> stack = None IN
    /\ At(r, "saving")
    /\ stack' = IF writes THEN h ELSE stack
    /\ raced' = raced \cup {g \in {h} : \E q \in Reqs : At(q, "counted") /\ req[q].host = g}
    /\ req' = [req EXCEPT ![r] = Fresh]
    /\ UNCHANGED <<registry, cache, closed>>

DeleteStack(r) == /\ At(r, "idle") /\ stack # None
                  /\ stack' = None
                  /\ UNCHANGED <<registry, cache, closed, req, raced>>

-----------------------------------------------------------------------------
(* dockerhost.Manager.ClientFor.  Deployments, reconcile loops and the     *)
(* cleanup take their clients in the same way: a request that gives up     *)
(* once it is ready stands for them.                                       *)

\* resolveStack and dockerForStack, or resolveVolumeHost: which host is meant,
\* and the look into the cache under the lock.
Begin(r, kind, h) ==
    /\ At(r, "idle")
    /\ IF kind \in Volumes THEN h \in hosts ELSE h = stack
    /\ h # None
    /\ req' = [req EXCEPT ![r] = [Fresh EXCEPT
                 !.pc = IF cache[h] # None THEN "ready" ELSE "lookup",
                 !.kind = kind, !.host = h, !.client = cache[h]]]
    /\ UNCHANGED shared

\* lookup and newClient, outside the lock; a host without a row, an unreadable
\* row or a bad certificate is a 502.
Lookup(r) == /\ At(r, "lookup")
             /\ \/ req[r].host \in hosts /\ Goto(r, "install")
                \/ req' = [req EXCEPT ![r] = Fresh]
             /\ UNCHANGED shared

\* A variant that keeps the client that landed last.
InstallReplaces(r) ==
    LET h == req[r].host IN
    /\ At(r, "install")
    /\ closed' = IF cache[h] = None THEN closed ELSE closed \cup {<<h, cache[h]>>}
    /\ cache' = [cache EXCEPT ![h] = r]
    /\ req' = [req EXCEPT ![r].pc = "ready", ![r].client = r]
    /\ UNCHANGED <<registry, stack, raced>>

\* The lock again: the client that landed first is kept, the other one closed.
Install(r) ==
    LET h == req[r].host IN
    /\ At(r, "install")
    /\ IF cache[h] # None
       THEN closed' = closed \cup {<<h, r>>} /\ UNCHANGED cache
       ELSE cache' = [cache EXCEPT ![h] = r] /\ closed' = closed \ {<<h, r>>}
    /\ req' = [req EXCEPT ![r].pc = "ready", ![r].client = cache'[h]]
    /\ UNCHANGED <<registry, stack, raced>>

\* A step that needs the daemon fails before anything was started: an error
\* response, nothing to undo.
GiveUp(r) == /\ At(r, "ready")
             /\ req' = [req EXCEPT ![r] = Fresh]
             /\ UNCHANGED shared

\* The client goes away.  A hijacked connection (exec, logs) notices only when
\* it is read or written; net/http cancels the context of the others.
PeerLeaves(r) == /\ req[r].peer /\ req[r].kind \in Kinds
                 /\ req' = [req EXCEPT ![r].peer = FALSE,
                                       ![r].ctx = @ /\ req[r].kind \in {"exec", "logs"}]
                 /\ UNCHANGED shared

-----------------------------------------------------------------------------
(* ExecStackContainer.                                                     *)

\* ExecCreate, and the exec_start entry.
ExecCreate(r) == /\ At(r, "ready") /\ Is(r, "exec")
                 /\ req' = [req EXCEPT ![r].pc = "upgrade", ![r].trail = "started"]
                 /\ UNCHANGED shared

\* A failed Upgrade returns, without an exec_end.
Upgrade(r) == /\ \/ At(r, "upgrade")
                 \/ At(r, "ready") /\ Is(r, "logs")
              /\ Goto(r, "attach") \/ Goto(r, "done")
              /\ UNCHANGED shared

ExecAttach(r) ==
    /\ At(r, "attach") /\ Is(r, "exec")
    /\ \/ req' = [req EXCEPT ![r].pc = "pipe", ![r].up = "open", ![r].cmd = "running",
                             ![r].in = TRUE, ![r].out = TRUE]
       \/ Goto(r, "refused")
    /\ UNCHANGED shared

\* The close frame of a failed attach goes out before its exec_end.
Refuse(r) == /\ At(r, "refused")
             /\ \/ ~req[r].told /\ req' = [req EXCEPT ![r].told = TRUE]
                \/ req[r].told /\ req' = [req EXCEPT ![r].pc = "leaving", ![r].trail = "failure"]
             /\ UNCHANGED shared

\* The command ends; later than the inspection nothing here sees it.
CommandExits(r) == /\ req[r].cmd = "running" /\ req[r].pc \in {"pipe", "inspect"}
                   /\ \E code \in {"zero", "nonzero"} :
                        req' = [req EXCEPT ![r].cmd = code, ![r].up = "ended"]
                   /\ UNCHANGED shared

\* The daemon drops a stream: a lost connection, or the container's end.
StreamEnds(r) == /\ req[r].up = "open" /\ req[r].pc \in {"pipe", "copy"}
                 /\ req' = [req EXCEPT ![r].up = "ended"]
                 /\ UNCHANGED shared

\* WS -> exec.  ReadMessage fails when the peer left (at the latest at the read
\* deadline, which only a pong moves) or when the handler closed the socket.
ReaderFails(r) == ~req[r].peer \/ At(r, "done")

\* The reader ends, unless it is held up in a write: that one fails only when the
\* handler has returned and closed the exec connection.
ExecReaderEnds(r) == /\ Is(r, "exec") /\ req[r].in /\ ReaderFails(r)
                     /\ ~req[r].stuck \/ At(r, "done")
                     /\ req' = [req EXCEPT ![r].in = FALSE, ![r].stuck = FALSE]
                     /\ UNCHANGED shared

\* Input is written to the exec connection without a deadline: a command that
\* does not read its input holds the reader up once the buffers are full ...
StdinBlocks(r) == /\ Is(r, "exec") /\ req[r].in /\ req[r].up = "open" /\ ~At(r, "done")
                  /\ req' = [req EXCEPT ![r].stuck = ~@]
                  /\ UNCHANGED shared

\* ... and a byte cannot be written at all when the stream has ended.
StdinFails(r) == /\ Is(r, "exec") /\ req[r].in /\ req[r].up = "ended"
                 /\ req' = [req EXCEPT ![r].in = FALSE, ![r].stuck = FALSE]
                 /\ UNCHANGED shared

\* exec -> WS.  The read fails when the stream ended or was closed ...
CopierEnds(r) == /\ Is(r, "exec") /\ req[r].out
                 /\ req[r].up = "ended" \/ At(r, "done")
                 /\ req' = [req EXCEPT ![r].out = FALSE]
                 /\ UNCHANGED shared

\* ... or output arrives that cannot be written to the socket.
OutputFails(r) == /\ req[r].up = "open" /\ ~req[r].peer
                  /\ \/ Is(r, "exec") /\ req[r].out /\ req' = [req EXCEPT ![r].out = FALSE]
                     \/ Is(r, "logs") /\ At(r, "copy") /\ Goto(r, "closing")
                  /\ UNCHANGED shared

\* A variant that sends the close frame first and leaves the record to a defer.
PipeReturnsToClose(r) == /\ At(r, "pipe") /\ ~(req[r].in /\ req[r].out)
                         /\ Goto(r, "closing")
                         /\ UNCHANGED shared

\* The select of execPipe: one goroutine sent on done, whose buffer of two never
\* blocks them.  Its context is cancelled only after the handler returned.
PipeReturns(r) == /\ At(r, "pipe") /\ ~(req[r].in /\ req[r].out)
                  /\ Goto(r, "inspect")
                  /\ UNCHANGED shared

\* ExecInspect does not look at Running, so a running command counts as 0; when
\* the call fails the guess of execPipe stands, also 0.
InspectedExit(r) == IF req[r].cmd = "nonzero" THEN {"failure", "success"} ELSE {"success"}

RecordEnd(r) == /\ At(r, "inspect")
                /\ \E outcome \in InspectedExit(r) :
                     req' = [req EXCEPT ![r].pc = "closing", ![r].trail = outcome]
                /\ UNCHANGED shared

-----------------------------------------------------------------------------
(* StreamStackContainerLogs, StreamStackContainerStats, StreamStackEvents.  *)

FollowOpens(r) ==
    /\ \/ At(r, "attach") /\ Is(r, "logs")
       \/ At(r, "ready") /\ Is(r, "events")
    /\ \/ req' = [req EXCEPT ![r].pc = "copy", ![r].up = "open",
                             ![r].in = Is(r, "logs"), ![r].out = Is(r, "logs")]
       \/ Is(r, "logs") /\ Goto(r, "closing")
    /\ UNCHANGED shared

\* The reader cancels the context, which tears the daemon's stream down.
FollowReaderEnds(r) == /\ Is(r, "logs") /\ req[r].in /\ ReaderFails(r)
                       /\ req' = [req EXCEPT ![r].in = FALSE, ![r].ctx = FALSE]
                       /\ UNCHANGED shared

CancelEndsStream(r) == /\ req[r].up = "open" /\ ~req[r].ctx /\ req[r].kind \in Follows
                       /\ req' = [req EXCEPT ![r].up = "ended"]
                       /\ UNCHANGED shared

CopyEnds(r) == /\ At(r, "copy") /\ req[r].up = "ended"
               /\ Goto(r, IF Is(r, "logs") THEN "closing" ELSE "done")
               /\ UNCHANGED shared

PingerEnds(r) == /\ Is(r, "logs") /\ req[r].out /\ ~req[r].ctx
                 /\ req' = [req EXCEPT ![r].out = FALSE]
                 /\ UNCHANGED shared


\* The close frame, and for a log stream cancel().
SendClose(r) == /\ At(r, "closing")
                /\ req' = [req EXCEPT ![r].pc = "leaving", ![r].told = Is(r, "exec"),
                                      ![r].ctx = @ /\ Is(r, "exec")]
                /\ UNCHANGED shared

\* A variant that does not wait for the pinger.
LeaveAtOnce(r) == At(r, "leaving") /\ Goto(r, "done") /\ UNCHANGED shared

\* <-pingDone, then the deferred calls close the stream and the socket.
Leave(r) == /\ At(r, "leaving")
            /\ Is(r, "logs") => ~req[r].out
            /\ Goto(r, "done")
            /\ UNCHANGED shared

-----------------------------------------------------------------------------
(* The volume browser and its helper container.                            *)

\* createHelper, createHelperRW: created and never started.  When the context
\* ends during the call, the daemon may still create a container whose ID the
\* handler never learns.
CreateHelper(r) ==
    /\ At(r, "ready") /\ req[r].kind \in Volumes
    /\ IF req[r].ctx
       THEN req' = [req EXCEPT ![r].pc = "extract", ![r].helper = "there",
                               ![r].out = Is(r, "write")]
       ELSE \E helper \in {"none", "there"} :
              req' = [req EXCEPT ![r].pc = "done", ![r].helper = helper]
    /\ UNCHANGED shared

\* CopyFromContainer and the tar, or CopyToContainer: a listing or a file was
\* transferred, or the call failed.  The body of a download is sent meanwhile.
Transfer(r) == /\ At(r, "extract")
               /\ \/ req[r].helper = "there" /\ req[r].ctx
                     /\ Is(r, "read") /\ Goto(r, "serving")
                  \/ Goto(r, "join")
               /\ UNCHANGED shared

\* The body is copied to the client, or the client left; Close tears down.
Serve(r) == At(r, "serving") /\ Goto(r, "join") /\ UNCHANGED shared

\* writeVolumeTar ends when its pipe was drained or closed with an error.
WriterEnds(r) == /\ Is(r, "write") /\ req[r].out /\ At(r, "join")
                 /\ req' = [req EXCEPT ![r].out = FALSE]
                 /\ UNCHANGED shared

\* removeHelper, with the context of the request: best effort.
RemoveHelper(r) == /\ At(r, "join") /\ ~req[r].out
                   /\ \/ req[r].ctx /\ req' = [req EXCEPT ![r].pc = "done", ![r].helper = "none"]
                      \/ Goto(r, "done")
                   /\ UNCHANGED shared

\* The 30 or 60 seconds of a volume request are over.
Timeout(r) == /\ req[r].pc \in {"ready", "extract", "serving", "join"}
              /\ req[r].kind \in Volumes /\ req[r].ctx
              /\ req' = [req EXCEPT ![r].ctx = FALSE]
              /\ UNCHANGED shared

\* cleanupLoop on one host: allHostClients lists the rows, ContainerPrune removes
\* what is labelled and not running, the helpers that are in use among them.
Prune(h) == /\ h \in hosts
            /\ req' = [r \in Reqs |-> IF req[r].host = h /\ req[r].helper = "there"
                                      THEN [req[r] EXCEPT !.helper = "none"] ELSE req[r]]
            /\ UNCHANGED shared

-----------------------------------------------------------------------------
\* The request has returned, its goroutines too; a helper left behind is kept
\* in mind until it is gone or nothing will remove it.
Recycle(r) == /\ At(r, "done") /\ ~req[r].in /\ ~req[r].out
              /\ req[r].helper = "there" => req[r].host \notin hosts
              /\ req' = [req EXCEPT ![r] = Fresh]
              /\ UNCHANGED shared

\* What the scheduler and the daemon are bound to do.
Progress(r) ==
    \/ Lookup(r) \/ Install(r) \/ ExecCreate(r) \/ Upgrade(r) \/ ExecAttach(r) \/ Refuse(r)
    \/ PipeReturns(r) \/ RecordEnd(r) \/ FollowOpens(r)
    \/ CopyEnds(r) \/ SendClose(r) \/ Leave(r)
    \/ CreateHelper(r) \/ Transfer(r) \/ RemoveHelper(r)
    \/ ~req[r].peer /\ Serve(r)

Goroutines(r) ==
    \/ ExecReaderEnds(r) \/ CopierEnds(r) \/ FollowReaderEnds(r) \/ PingerEnds(r)
    \/ WriterEnds(r) \/ CancelEndsStream(r)

Next ==
    \/ \E r \in Reqs :
         \/ Progress(r) \/ Goroutines(r) \/ Recycle(r)
         \/ GiveUp(r) \/ PeerLeaves(r) \/ CommandExits(r) \/ StreamEnds(r)
         \/ StdinBlocks(r) \/ StdinFails(r) \/ OutputFails(r) \/ Serve(r) \/ Timeout(r)
         \/ DeleteHost(r) \/ SaveStack(r) \/ DeleteStack(r)
         \/ \E h \in HostIds : \/ CountStacks(r, h)
                               \/ ResolveHost(r, "create", h) \/ ResolveHost(r, "update", h)
                               \/ \E kind \in Serves[r] : Begin(r, kind, h)
    \/ \E h \in HostIds : RegisterHost(h) \/ Prune(h)

\* Goroutines and loops are scheduled, the daemon answers a call, and the cleanup
\* ticker ticks.  Clients, commands and streams owe nothing.
Fairness == /\ \A r \in Reqs : WF_vars(Progress(r) \/ Goroutines(r))
            /\ \A h \in HostIds : WF_vars(Prune(h))

Spec == Init /\ [][Next]_vars /\ Fairness

-----------------------------------------------------------------------------
TypeOK ==
    /\ hosts \subseteq HostIds /\ unused \subseteq HostIds \ hosts
    /\ stack \in HostIds \cup {None}
    /\ cache \in [HostIds -> Reqs \cup {None}]
    /\ closed \subseteq HostIds \X Reqs
    /\ raced \subseteq HostIds
    /\ \A r \in Reqs : /\ req[r].trail # "none" => Is(r, "exec")
                       /\ req[r].helper # "none" => req[r].kind \in Volumes
                       /\ req[r].in => req[r].up # "none"
                       /\ At(r, "done") /\ ~Is(r, "exec") => ~req[r].out

\* All requests on one host share one client, and nobody closes a client a
\* request holds ("keep whichever landed first", manager.go:88), whoever of two
\* concurrent builders comes first.
SharedClientOpen ==
    \A q, r \in Reqs :
        /\ req[r].client # None => <<req[r].host, req[r].client>> \notin closed
        /\ req[q].client # None /\ req[r].client # None /\ req[q].host = req[r].host
              => req[q].client = req[r].client

\* DeleteDockerHost refuses while a stack targets the host: a stack is left on a
\* deleted host only if a save of that stack overlapped the two statements.
OrphansOverlap == stack # None /\ stack \notin hosts => stack \in raced

\* An exec that was attached has its exec_end before its client can see the
\* session end, and every exec that was upgraded has one when it returns
\* (the policy at handler.go:2588).
TrailBeforeClose ==
    \A r \in Reqs : Is(r, "exec") =>
        /\ req[r].told /\ req[r].cmd # "none" => req[r].trail # "started"
        /\ At(r, "done") /\ req[r].trail = "started" => ~req[r].told /\ req[r].cmd = "none"

\* A command that reads none of the input it was sent holds up the reader.
HeldUp(r) == req[r].stuck /\ req[r].up = "open"

Released(r) == /\ req[r].pc \in {"idle", "done"} /\ ~req[r].in /\ ~req[r].out
               /\ req[r].helper = "there" => req[r].host \notin hosts

=============================================================================
