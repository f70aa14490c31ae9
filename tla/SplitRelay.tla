----------------------------- MODULE SplitRelay -----------------------------
(***************************************************************************)
(* One run of the three-device split (scripts/split_cluster.py): the       *)
(* coordinator that waits for the workers, generates over them and judges  *)
(* the result; the relay between the native probe and the workers; and the *)
(* workers themselves (the phone apps, and Worker for one in the           *)
(* coordinator's own process).                                             *)
(*                                                                         *)
(* A worker keeps one control connection, over which it sends heartbeats   *)
(* and is asked to open channels.  The probe connects to a port of the     *)
(* relay per worker; forward asks the worker for a channel, the worker     *)
(* dials back, accept hands that data connection to forward, and forward   *)
(* bridges the two.  A tunnel is one such forward with its future, its     *)
(* data connection and the worker's end of it.                             *)
(*                                                                         *)
(* Everything in the coordinator runs on one event loop, so an action is   *)
(* the code between two awaits.  Time is not counted: a timeout may happen *)
(* whenever what it waits for has not.  Payloads are abstracted to whether *)
(* bytes crossed, and graph_calls is the only telemetry counter.           *)
(***************************************************************************)
EXTENDS Naturals, FiniteSets

CONSTANTS
  Nodes,          \* NODES, the workers of the pairing
  MaxConns,       \* bound: the control connections attempted during the run
  MaxTunnels,     \* bound: the connections the probe makes to endpoints
  ChannelLimit,   \* the channels of one worker (4 in the code)
  Earlier,        \* the workers whose native counter is not zero to begin with
  NoNode          \* the node of a connection that has not said hello

ASSUME RelayAssumption ==
  /\ IsFiniteSet(Nodes)
  /\ MaxConns \in Nat /\ MaxTunnels \in Nat
  /\ ChannelLimit \in Nat
  /\ Earlier \subseteq Nodes
  /\ NoNode \notin Nodes

Conns == 1..MaxConns
Tunnels == 1..MaxTunnels

VARIABLES
  phase,      \* where run_coordinator is
  verdict,    \* report['status'] once it is decided
  failure,    \* relay.failure
  nodes,      \* the keys of relay.nodes
  ctl,        \* ctl[c]: a control connection and the accept task that serves it
  tun,        \* tun[t]: a tunnel
  bytes,      \* the nodes whose record counts bytes in both directions
  computed,   \* the nodes that computed a graph during this run
  stats,      \* stats[n]: graph_calls in the last heartbeat read from n
  before,     \* before[n]: the snapshot validate_proof subtracts
  fresh       \* history: the nodes heard from before that snapshot

run == <<phase, verdict>>
telemetry == <<computed, stats, before, fresh>>
vars == <<run, failure, nodes, ctl, tun, bytes, telemetry>>

Phases == {"joining", "preparing", "split", "settling", "closing", "draining",
           "done"}

\* handshake: TLS is being negotiated and no task exists yet.  hello: an accept
\* task waits for the first line.  left: the worker has ended the session, the
\* relay has not read that.  lost: the relay has.  over: refused or cancelled.
ControlStates == {"unused", "handshake", "hello", "serving", "left", "lost",
                  "over"}
Controls == [node : Nodes \cup {NoNode}, state : ControlStates]

\* forward: the task of the relay.  future: what forward waits on.  data: the
\* worker's data connection and the accept task that holds it; cut is one that
\* was refused after its acknowledgement.  worker: the task at the worker's
\* end.  completed: the event that releases accept.
TunnelRecords ==
  [node : Nodes \cup {NoNode},
   forward : {"unused", "waiting", "bridged", "over"},
   future : {"none", "pending", "set", "cancelled"},
   data : {"none", "dialling", "acking", "parked", "cut", "over"},
   worker : {"none", "asked", "busy"},
   completed : BOOLEAN]

Closing == phase \in {"closing", "draining", "done"}
Listening == phase \notin {"draining", "done"}

-----------------------------------------------------------------------------
(* Relay.fail.                                                             *)

Fail == failure' = (failure \/ ~Closing)

-----------------------------------------------------------------------------
(* Control connections: the worker's side.                                 *)

\* A worker that was given the pairing connects.
Dial(c, n) ==
  /\ Listening
  /\ ctl[c].state = "unused" /\ \A d \in 1..c-1 : ctl[d].state # "unused"
  /\ ctl' = [ctl EXCEPT ![c] = [node |-> n, state |-> "handshake"]]
  /\ UNCHANGED <<run, failure, nodes, tun, bytes, telemetry>>

\* The sessions a worker believes it has.
Session(n) == {c \in Conns : ctl[c] = [node |-> n, state |-> "serving"]}

\* Ending a session closes its sockets and cancels its tunnels.
Abandoned(n) ==
  [t \in Tunnels |->
     IF tun[t].node = n THEN [tun[t] EXCEPT !.worker = "none"] ELSE tun[t]]

\* The app is closed, locked or off the network, or its native worker exits.
WorkerLeaves(c) ==
  /\ ctl[c].state = "serving"
  /\ ctl' = [ctl EXCEPT ![c].state = "left"]
  /\ tun' = Abandoned(ctl[c].node)
  /\ UNCHANGED <<run, failure, nodes, bytes, telemetry>>

\* graph_calls is the counter of the native worker, which on a phone lives as
\* long as the app and not as long as the session or the run.  A unit is what
\* one run adds to it.
GraphCalls(n) == (IF n \in Earlier THEN 1 ELSE 0) + (IF n \in computed THEN 1 ELSE 0)

Heartbeat(c) ==
  LET n == ctl[c].node
  IN  /\ ctl[c].state = "serving"
      /\ stats' = [stats EXCEPT ![n] = GraphCalls(n)]
      /\ fresh' = IF phase \in {"joining", "preparing"} THEN fresh \cup {n}
                                                        ELSE fresh
      /\ UNCHANGED <<run, failure, nodes, ctl, tun, bytes, computed, before>>

-----------------------------------------------------------------------------
(* Control connections: Relay.accept.                                      *)

\* The handshake ends and the accept task starts, or it fails or takes too long.
Handshake(c) ==
  /\ ctl[c].state = "handshake"
  /\ \E s \in {"hello", "over"} : ctl' = [ctl EXCEPT ![c].state = s]
  /\ UNCHANGED <<run, failure, nodes, tun, bytes, telemetry>>

\* A second connection of a node that is in the table already is refused, and
\* so is one whose token, runtime or budget is wrong or that stays silent.
Reject(c) ==
  /\ ctl[c].state = "hello"
  /\ ctl' = [ctl EXCEPT ![c].state = "over"]
  /\ UNCHANGED <<run, failure, nodes, tun, bytes, telemetry>>

\* A bug variant: the record is stored before the hello has named the worker.
JoinUnnamed(c) ==
  /\ ctl[c].state = "hello"
  /\ nodes' = nodes \cup {NoNode}
  /\ ctl' = [ctl EXCEPT ![c].state = "serving"]
  /\ UNCHANGED <<run, failure, tun, bytes, telemetry>>

\* A bug variant: a second connection of a worker takes the place of the first.
JoinAgain(c) ==
  LET n == ctl[c].node
  IN  /\ ctl[c].state = "hello"
      /\ nodes' = nodes \cup {n}
      /\ ctl' = [ctl EXCEPT ![c].state = "serving"]
      /\ UNCHANGED <<run, failure, tun, bytes, telemetry>>

Join(c) ==
  LET n == ctl[c].node
  IN  /\ ctl[c].state = "hello"
      /\ n \notin nodes
      /\ nodes' = nodes \cup {n}
      /\ ctl' = [ctl EXCEPT ![c].state = "serving"]
      /\ UNCHANGED <<run, failure, tun, bytes, telemetry>>

\* End of file, ten seconds without a heartbeat or invalid telemetry.  The
\* record stays in the table.
Lose(c) ==
  /\ ctl[c].state \in {"serving", "left"}
  /\ ctl' = [ctl EXCEPT ![c].state = "lost"]
  /\ tun' = Abandoned(ctl[c].node)
  /\ Fail
  /\ UNCHANGED <<run, nodes, bytes, telemetry>>

-----------------------------------------------------------------------------
(* Tunnels: Relay.forward, the data half of Relay.accept, and the worker.  *)

\* The keys (n, _) of relay.pending.  An entry goes when its forward ends, so
\* it counts established tunnels too.
Pending(n) == {t \in Tunnels : tun[t].node = n
                                 /\ tun[t].forward \in {"waiting", "bridged"}}

\* The probe connects to the endpoint of n.
Forward(t, n) ==
  /\ phase = "split"
  /\ n \in nodes
  /\ tun[t].forward = "unused" /\ \A u \in 1..t-1 : tun[u].forward # "unused"
  /\ IF Cardinality(Pending(n)) >= ChannelLimit
       THEN /\ tun' = [tun EXCEPT ![t].node = n, ![t].forward = "over"]
            /\ Fail
       ELSE /\ tun' = [tun EXCEPT ![t].node = n, ![t].forward = "waiting",
                                  ![t].future = "pending",
                                  ![t].worker = IF Session(n) = {} THEN "none"
                                                                   ELSE "asked"]
            /\ UNCHANGED failure
  /\ UNCHANGED <<run, nodes, ctl, bytes, telemetry>>

\* The worker's own count of its channels; a tunnel of it may still be closing
\* when the relay has already taken its own off the count.
Busy(n) == {t \in Tunnels : tun[t].node = n /\ tun[t].worker = "busy"}

\* The worker reads the open command: it dials back, or it has too many
\* channels and ends the session.
Open(t) ==
  LET n == tun[t].node
  IN  /\ tun[t].worker = "asked"
      /\ IF Cardinality(Busy(n)) >= ChannelLimit
           THEN /\ ctl' = [c \in Conns |-> IF c \in Session(n)
                             THEN [ctl[c] EXCEPT !.state = "left"] ELSE ctl[c]]
                /\ tun' = Abandoned(n)
           ELSE /\ tun' = [tun EXCEPT ![t].worker = "busy", ![t].data = "dialling"]
                /\ UNCHANGED ctl
      /\ UNCHANGED <<run, failure, nodes, bytes, telemetry>>

\* accept reads the hello of a data connection; the worker may have gone.
AcceptData(t) ==
  /\ tun[t].data = "dialling"
  /\ \/ /\ tun[t].future = "pending" /\ tun[t].forward = "waiting"
        /\ tun' = [tun EXCEPT ![t].data = "acking"]
     \/ tun' = [tun EXCEPT ![t].data = "over"]
  /\ UNCHANGED <<run, failure, nodes, ctl, bytes, telemetry>>

\* The acknowledgement is sent, and the future may have been cancelled while it
\* was: setting it then raises, which refuses the connection.
Resolve(t) ==
  /\ tun[t].data = "acking"
  /\ \/ /\ tun[t].future = "pending"
        /\ tun' = [tun EXCEPT ![t].data = "parked", ![t].future = "set"]
     \/ /\ tun[t].future = "cancelled" \/ tun[t].worker = "none"
        /\ tun' = [tun EXCEPT ![t].data = "cut"]
  /\ UNCHANGED <<run, failure, nodes, ctl, bytes, telemetry>>

Bridge(t) ==
  /\ tun[t].forward = "waiting" /\ tun[t].future = "set"
  /\ tun' = [tun EXCEPT ![t].forward = "bridged"]
  /\ UNCHANGED <<run, failure, nodes, ctl, bytes, telemetry>>

\* A bug variant: a future that was set in time is not counted as a failure.
TimeOutQuietly(t) ==
  /\ tun[t].forward = "waiting"
  /\ tun' = [tun EXCEPT ![t].forward = "over",
                        ![t].future = IF @ = "pending" THEN "cancelled" ELSE @]
  /\ IF tun[t].future = "pending" THEN Fail ELSE UNCHANGED failure
  /\ UNCHANGED <<run, nodes, ctl, bytes, telemetry>>

\* wait_for gives up after ten seconds.  It may do so when the future was set a
\* moment ago and the task has not resumed: the result is lost, and completed
\* with it.
TimeOut(t) ==
  /\ tun[t].forward = "waiting"
  /\ tun' = [tun EXCEPT ![t].forward = "over",
                        ![t].future = IF @ = "pending" THEN "cancelled" ELSE @]
  /\ Fail
  /\ UNCHANGED <<run, nodes, ctl, bytes, telemetry>>

\* Either side reaches its end of file, or the copy fails.
Unbridge(t) ==
  /\ tun[t].forward = "bridged"
  /\ tun' = [tun EXCEPT ![t].forward = "over", ![t].completed = TRUE]
  /\ (UNCHANGED failure \/ Fail)
  /\ UNCHANGED <<run, nodes, ctl, bytes, telemetry>>

\* accept was waiting for completed and closes the data connection.
Release(t) ==
  /\ tun[t].data = "parked" /\ tun[t].completed
  /\ tun' = [tun EXCEPT ![t].data = "over"]
  /\ UNCHANGED <<run, failure, nodes, ctl, bytes, telemetry>>

\* The worker sees its tunnel closed.  With the acknowledgement in hand an end
\* of file ends the tunnel only; a connection refused before it, or one that
\* broke, ends the whole session.
WorkerTunnelEnds(t) ==
  LET n == tun[t].node
  IN  /\ tun[t].worker = "busy"
      /\ tun[t].data \in {"cut", "over"} \/ tun[t].completed
      /\ \/ /\ tun[t].data = "cut" \/ tun[t].completed
            /\ tun' = [tun EXCEPT ![t].worker = "none"]
            /\ UNCHANGED ctl
         \/ /\ ctl' = [c \in Conns |-> IF c \in Session(n)
                         THEN [ctl[c] EXCEPT !.state = "left"] ELSE ctl[c]]
            /\ tun' = Abandoned(n)
      /\ UNCHANGED <<run, failure, nodes, bytes, telemetry>>

\* While the probe runs bytes cross a bridge both ways, with or without a graph
\* computed for them.
Exchange(t) ==
  LET n == tun[t].node
  IN  /\ phase = "split"
      /\ tun[t].forward = "bridged" /\ tun[t].worker = "busy"
      /\ bytes' = bytes \cup {n}
      /\ computed' \in {computed, computed \cup {n}}
      /\ UNCHANGED <<run, failure, nodes, ctl, tun, stats, before, fresh>>

-----------------------------------------------------------------------------
(* run_coordinator.                                                        *)

Decide(v) == phase' = "closing" /\ verdict' = v

\* The loop looks at the failure only while a worker is missing.
AllJoined ==
  /\ phase = "joining" /\ nodes = Nodes
  /\ phase' = "preparing"
  /\ UNCHANGED <<verdict, failure, nodes, ctl, tun, bytes, telemetry>>

\* A bug variant: the loop looks at the failure and has no deadline.
JoinFailsOnFailure ==
  /\ phase = "joining" /\ nodes # Nodes
  /\ failure
  /\ Decide("FAIL")
  /\ UNCHANGED <<failure, nodes, ctl, tun, bytes, telemetry>>

\* A worker is missing and one that joined has failed, or the deadline is over.
JoinFails ==
  /\ phase = "joining" /\ nodes # Nodes
  /\ Decide("FAIL")
  /\ UNCHANGED <<failure, nodes, ctl, tun, bytes, telemetry>>

\* A bug variant: the counters are taken for those of this run alone.
PreparedFromZero ==
  /\ phase = "preparing"
  /\ phase' = "split"
  /\ before' = [n \in Nodes |-> 0]
  /\ UNCHANGED <<verdict, failure, nodes, ctl, tun, bytes, computed, stats, fresh>>

\* The checksum and the baseline: a local generation stops when the relay
\* fails, a pinned reference is read without a look at it.
Prepared ==
  /\ phase = "preparing"
  /\ phase' = "split"
  /\ before' = stats
  /\ UNCHANGED <<verdict, failure, nodes, ctl, tun, bytes, computed, stats, fresh>>

\* The model, the reference or a local baseline is not as expected.
PreparationFails ==
  /\ phase = "preparing"
  /\ Decide("FAIL")
  /\ UNCHANGED <<failure, nodes, ctl, tun, bytes, telemetry>>

\* The probe exits with a generation.  If the relay has failed in the same
\* turn of the loop the generation is taken all the same.
ProbeEnds ==
  /\ phase = "split"
  /\ phase' = "settling"
  /\ UNCHANGED <<verdict, failure, nodes, ctl, tun, bytes, telemetry>>

\* It exits without one, the relay fails first, or the time is over.
ProbeFails ==
  /\ phase = "split"
  /\ Decide("FAIL")
  /\ UNCHANGED <<failure, nodes, ctl, tun, bytes, telemetry>>

Evidence(n) == stats[n] > before[n] /\ n \in bytes

\* A bug variant: the generation is complete, so nobody asks about the devices.
JudgeResultOnly ==
  /\ phase = "settling"
  /\ \/ /\ \A n \in Nodes : Evidence(n)
        /\ Decide("PASS")
     \/ Decide("FAIL")
  /\ UNCHANGED <<failure, nodes, ctl, tun, bytes, telemetry>>

\* After the counters have settled: the failure is looked at once more, and
\* validate_proof may refuse a result for reasons of its own.
Judge ==
  /\ phase = "settling"
  /\ \/ /\ ~failure
        /\ \A n \in Nodes : Evidence(n)
        /\ Decide("PASS")
     \/ Decide("FAIL")
  /\ UNCHANGED <<failure, nodes, ctl, tun, bytes, telemetry>>

-----------------------------------------------------------------------------
(* Relay.stop.                                                             *)

\* A bug variant: the server is waited for before its connections are closed.
StopServerFirst ==
  /\ phase = "closing"
  /\ phase' = "draining"
  /\ tun' = [t \in Tunnels |->
               [tun[t] EXCEPT
                  !.forward = IF @ = "unused" THEN @ ELSE "over",
                  !.future = IF @ = "pending" THEN "cancelled" ELSE @,
                  !.data = IF @ \in {"acking", "parked"} THEN "over" ELSE @,
                  !.worker = "none",
                  !.completed = @ \/ tun[t].forward = "bridged"]]
  /\ UNCHANGED <<verdict, failure, nodes, ctl, bytes, telemetry>>

\* The listeners are closed and the tasks known at that moment cancelled.  A
\* handshake is not a task yet.  A data connection that is dialling may be
\* either, and finds no future whichever it is.
Stop ==
  /\ phase = "closing"
  /\ phase' = "draining"
  /\ ctl' = [c \in Conns |->
               IF ctl[c].state \in {"hello", "serving", "left"}
                 THEN [ctl[c] EXCEPT !.state = "over"] ELSE ctl[c]]
  /\ tun' = [t \in Tunnels |->
               [tun[t] EXCEPT
                  !.forward = IF @ = "unused" THEN @ ELSE "over",
                  !.future = IF @ = "pending" THEN "cancelled" ELSE @,
                  !.data = IF @ \in {"acking", "parked"} THEN "over" ELSE @,
                  !.worker = "none",
                  !.completed = @ \/ tun[t].forward = "bridged"]]
  /\ UNCHANGED <<verdict, failure, nodes, bytes, telemetry>>

Live(c) == ctl[c].state \in {"handshake", "hello", "serving", "left"}

\* wait_closed returns when no accepted connection is left; then the report is
\* written.
Stopped ==
  /\ phase = "draining"
  /\ \A c \in Conns : ~Live(c)
  /\ \A t \in Tunnels : tun[t].data \in {"none", "cut", "over"}
  /\ phase' = "done"
  /\ UNCHANGED <<verdict, failure, nodes, ctl, tun, bytes, telemetry>>

-----------------------------------------------------------------------------
Init ==
  /\ phase = "joining" /\ verdict = "none"
  /\ failure = FALSE
  /\ nodes = {}
  /\ ctl = [c \in Conns |-> [node |-> NoNode, state |-> "unused"]]
  /\ tun = [t \in Tunnels |->
              [node |-> NoNode, forward |-> "unused", future |-> "none",
               data |-> "none", worker |-> "none", completed |-> FALSE]]
  /\ bytes = {}
  /\ computed = {}
  /\ stats = [n \in Nodes |-> 0]
  /\ before = [n \in Nodes |-> 0]
  /\ fresh = {}

Controlling(c) ==
  \/ \E n \in Nodes : Dial(c, n)
  \/ WorkerLeaves(c) \/ Heartbeat(c)
  \/ Handshake(c) \/ Reject(c) \/ Join(c) \/ Lose(c)

Tunnelling(t) ==
  \/ \E n \in Nodes : Forward(t, n)
  \/ Open(t) \/ AcceptData(t) \/ Resolve(t) \/ Bridge(t) \/ TimeOut(t)
  \/ Unbridge(t) \/ Release(t) \/ WorkerTunnelEnds(t) \/ Exchange(t)

Coordinating ==
  \/ AllJoined \/ JoinFails \/ Prepared \/ PreparationFails
  \/ ProbeEnds \/ ProbeFails \/ Judge \/ Stop \/ Stopped

Next ==
  \/ \E c \in Conns : Controlling(c)
  \/ \E t \in Tunnels : Tunnelling(t)
  \/ Coordinating

Spec == Init /\ [][Next]_vars

\* The event loop never idles while a task of it can run, and every wait in it
\* has a time limit.  Nothing is assumed of the workers.
LoopStep ==
  \/ \E c \in Conns : \/ Handshake(c) \/ Join(c) \/ Reject(c)
                       \/ (ctl[c].state = "left" /\ Lose(c))
  \/ \E t \in Tunnels : \/ AcceptData(t) \/ Resolve(t) \/ Bridge(t) \/ TimeOut(t)
                         \/ Release(t)
  \/ Coordinating

FairSpec == Spec /\ WF_vars(LoopStep)

-----------------------------------------------------------------------------
TypeOK ==
  /\ phase \in Phases /\ verdict \in {"none", "PASS", "FAIL"}
  /\ failure \in BOOLEAN
  /\ nodes \subseteq Nodes
  /\ ctl \in [Conns -> Controls]
  /\ tun \in [Tunnels -> TunnelRecords]
  /\ bytes \subseteq Nodes /\ computed \subseteq Nodes /\ fresh \subseteq Nodes
  /\ stats \in [Nodes -> 0..2] /\ before \in [Nodes -> 0..2]

Holds(c, n) == ctl[c].node = n /\ ctl[c].state \in {"serving", "left"}

\* A worker in the relay's table has one control session, the one it joined
\* with, for as long as the run is not failed or over: the record forward sends
\* through, and the telemetry the verdict rests on, are of a single session.
OneSessionPerWorker ==
  /\ \A c, d \in Conns : \A n \in Nodes : Holds(c, n) /\ Holds(d, n) => c = d
  /\ \A n \in nodes : failure \/ Closing \/ \E c \in Conns : Holds(c, n)

\* A data connection whose accept task waits to be released has a forward that
\* will release it, or the run has failed and stop will; and a forward bridges
\* to a connection that is still held.
HandOverIsKept ==
  \A t \in Tunnels :
    /\ tun[t].data = "parked" /\ ~tun[t].completed =>
         tun[t].forward \in {"waiting", "bridged"} \/ failure \/ Closing
    /\ tun[t].forward = "bridged" => tun[t].data = "parked"

Passes == verdict # "PASS" /\ verdict' = "PASS"

\* A run is only recorded as a PASS when every worker joined, none has been seen
\* to go since, however late, and no tunnel was given up.
PassIsClean ==
  [][Passes => /\ \A n \in Nodes : \E c \in Conns : Holds(c, n)
               /\ \A c \in Conns : ctl[c].state # "lost"
               /\ \A t \in Tunnels : tun[t].future # "cancelled"]_vars

\* A PASS credits a worker with graphs it computed for this run, although its
\* counter runs on from earlier ones; provided a heartbeat of it had been read
\* when the counters were taken down.
CreditIsForThisRun ==
  [][Passes => fresh \subseteq computed]_vars

\* Every run is judged: no worker that never joins, falls silent or never
\* answers keeps the coordinator waiting.
RunIsJudged == <>(verdict # "none")

\* Once judged, the relay stops and the report is written, unless a worker is
\* still connecting.
StopEndsWhenNobodyConnects ==
  (phase = "closing" /\ \A c \in Conns : ctl[c].state \notin {"unused", "handshake"})
    ~> phase = "done"

\* stop() says that it disconnects the workers before it waits for the server:
\* so it ends.  Violated by a handshake that is under way when it begins.
StopEnds == phase = "draining" ~> phase = "done"
=============================================================================
