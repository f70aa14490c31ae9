---------------------------- MODULE RingElection ----------------------------
(***************************************************************************)
(* How the devices of an app ring find a coordinator and form the ring     *)
(* (RingCoordinator.swift): an election in the manner of Chang and         *)
(* Roberts, in which a message is passed on for more memory rather than a  *)
(* larger identity, then the coordinator's announcement, and on every      *)
(* device that hears it a task that starts the MLX group.                  *)
(*                                                                         *)
(* A device discovers the others one after another, and elects as soon as  *)
(* it knows of one.  A message is an HTTP post made by a task of its own:  *)
(* it waits at the sender until that has a successor, is delivered in any  *)
(* order, and may be lost; two copies that wait in the same place are one. *)
(* Nothing isolates the coordinator: the observation of Bonjour's list,    *)
(* the user's buttons and every message run as tasks of their own, in      *)
(* parallel, and what a task writes it writes statement by statement.      *)
(***************************************************************************)
EXTENDS Integers, Sequences, SequencesExt

CONSTANTS
  IdOrder,    \* the devices, in the order of their identities
  Scenarios,  \* [memory, budget]: what the devices that run the app have, and
              \*   how often the user or the network interferes
  None        \* nil

Devices == Range(IdOrder)

Jobs == {"current", "earlier", "cancelled"}

\* What a task may still have to do.
Todos ==
  {<<"initiate">>, <<"cancel", "initiate">>,
   <<"cancel", "restate">>, <<"restate">>, <<"appoint", "restate">>,
   <<"appoint", "restate", "build", "launch">>, <<"restate", "build", "launch">>,
   <<"build", "launch">>, <<"launch">>,
   <<"cancel", "leave", "rest">>, <<"leave", "rest">>, <<"rest">>}

ASSUME ElectionAssumption ==
  /\ IdOrder \in Seq(Devices) /\ IsInjective(IdOrder)
  /\ None \notin Devices
  /\ \A s \in Scenarios :
       /\ DOMAIN s.memory \subseteq Devices
       /\ \A d \in DOMAIN s.memory : s.memory[d] \in Nat
       /\ s.budget \in Nat

VARIABLES
  memory,       \* recommendedUsageRAM of the devices that run the app
  budget,       \* how often the user or the network may still interfere
  listed,       \* the peers a device has discovered
  searching,    \* whether its browser runs
  state, coordinator,
  ring,         \* currentRing: its members and its coordinator
  sends,        \* messages a device is about to send
  wire,         \* messages on their way, with their destination
  tasks,        \* what runs on the devices: where, for which message, and the
                \*   statements still to execute
  jobs,         \* mlxInitTask while it runs, the tasks it named before that
                \*   still run, and cancelled ones that still fetch profiles
  group         \* the hosts the MLX group was made with

elections == <<state, coordinator, ring>>
messages == <<sends, wire, tasks>>
formation == <<jobs, group>>
discovery == <<listed, searching>>
vars == <<memory, budget, discovery, elections, messages, formation>>

Present == DOMAIN memory

\* A bug variant: the browser reports the own service too.
PresentPeers(n) == Present

\* The others that run the app: the browser leaves its own service out.
Peers(n) == Present \ {n}

Messages == [type : {"election", "coordinator"}, candidate : Present]

Election(n)     == [type |-> "election", candidate |-> n]
Announcement(n) == [type |-> "coordinator", candidate |-> n]

-----------------------------------------------------------------------------
Position(d) == CHOOSE i \in DOMAIN IdOrder : IdOrder[i] = d

\* How far d comes after n on the circle of all identities, itself a whole turn.
Ahead(n, d) == LET gap == Position(d) - Position(n)
               IN  IF gap > 0 THEN gap ELSE gap + Len(IdOrder)

\* The device after n, cyclically, of those n has discovered.
Successor(n) ==
  CHOOSE d \in listed[n] : \A e \in listed[n] : Ahead(n, d) <= Ahead(n, e)

Send(n, m) == sends' = [sends EXCEPT ![n] = @ \cup {m}]

\* buildRing.  Ranks follow the identities from the coordinator on, so the
\* members and the coordinator determine them.
Built(n, c) ==
  IF c \in listed[n] \cup {n}
    THEN [members |-> listed[n] \cup {n}, coordinator |-> c]
    ELSE ring[n]

\* mlxInitTask?.cancel(): the task never initialises MLX, but an answer it is
\* waiting for still makes it build the ring.
Cancel(n) ==
  jobs' = [jobs EXCEPT ![n] =
             IF "current" \in @ THEN (@ \ {"current"}) \cup {"cancelled"} ELSE @]

Task(n, m, todo) == [at |-> n, msg |-> m, todo |-> todo]

\* A task of the device itself.
Own(n, todo) == Task(n, Election(n), todo)

Interfere == budget > 0 /\ budget' = budget - 1

-----------------------------------------------------------------------------
(* Discovery.                                                              *)

\* updatePeers: a device without a ring goes on to start an election when it
\* has peers.
UpdatePeers(n, peers) ==
  /\ listed' = [listed EXCEPT ![n] = peers]
  /\ tasks' = IF peers # {} /\ ring[n] = None /\ state[n] = "inactive"
                THEN tasks \cup {Own(n, <<"initiate">>)}
                ELSE tasks
  /\ UNCHANGED <<memory, searching, elections, sends, wire, formation>>

\* Another device is resolved; the observation may report several together.
Finds(n) ==
  /\ searching[n]
  /\ \E found \in (SUBSET Peers(n)) \ {listed[n]} :
       listed[n] \subseteq found /\ UpdatePeers(n, found)
  /\ UNCHANGED budget

LosesSight(n, p) ==
  /\ searching[n] /\ p \in listed[n]
  /\ UpdatePeers(n, listed[n] \ {p})
  /\ Interfere

-----------------------------------------------------------------------------
(* The user.                                                               *)

\* The button is disabled while an election is in progress.
StartFormation(n) ==
  /\ state[n] # "candidate"
  /\ searching' = [searching EXCEPT ![n] = TRUE]
  /\ tasks' = tasks \cup {Own(n, <<"initiate">>)}
  /\ Interfere
  /\ UNCHANGED <<memory, listed, elections, sends, wire, formation>>

StopFormation(n) ==
  /\ tasks' = tasks \cup {Own(n, <<"cancel", "leave", "rest">>)}
  /\ Interfere
  /\ UNCHANGED <<memory, discovery, elections, sends, wire, formation>>

-----------------------------------------------------------------------------
(* Sending (sendToSuccessor).                                              *)

Departs(n, m) ==
  /\ m \in sends[n] /\ listed[n] # {}
  /\ sends' = [sends EXCEPT ![n] = @ \ {m}]
  /\ wire' = wire \cup {[to |-> Successor(n), msg |-> m]}
  /\ UNCHANGED <<memory, budget, discovery, elections, tasks, formation>>

\* After five looks in four seconds without a successor the device gives up.
FindsNoSuccessor(n, m) ==
  /\ m \in sends[n] /\ listed[n] = {}
  /\ sends' = [sends EXCEPT ![n] = @ \ {m}]
  /\ state' = [state EXCEPT ![n] = "inactive"]
  /\ Interfere
  /\ UNCHANGED <<memory, discovery, coordinator, ring, wire, tasks, formation>>

IsLost(packet) ==
  /\ wire' = wire \ {packet}
  /\ Interfere
  /\ UNCHANGED <<memory, discovery, elections, sends, tasks, formation>>

-----------------------------------------------------------------------------
(* Receiving (processElectionMessage).                                     *)

\* A bug variant: another's message is passed on for equal memory as well.
OutrankedOrEqual(n, m) == m.candidate # n /\ memory[n] <= memory[m.candidate]

Outranked(n, m) == memory[n] < memory[m.candidate]

\* A stronger candidate's message is passed on; a weaker or equal candidate is
\* overtaken, unless that is under way; the own message has come back; or a
\* coordinator is announced.
Statements(n, m) ==
  CASE m.type = "coordinator" -> <<"appoint", "restate", "build", "launch">>
    [] m.type = "election" /\ Outranked(n, m) -> <<"cancel", "restate">>
    [] m.type = "election" /\ ~Outranked(n, m) /\ m.candidate = n ->
         <<"appoint", "restate">>
    [] m.type = "election" /\ ~Outranked(n, m) /\ m.candidate # n ->
         IF state[n] = "candidate" THEN <<>> ELSE <<"cancel", "initiate">>

Receives(packet) ==
  LET n == packet.to
      todo == Statements(n, packet.msg)
  IN  /\ wire' = wire \ {packet}
      /\ tasks' = tasks \cup (IF todo = <<>> THEN {} ELSE {Task(n, packet.msg, todo)})
      /\ UNCHANGED <<memory, budget, discovery, elections, sends, formation>>

-----------------------------------------------------------------------------
(* The statements.                                                         *)

\* The task executes its next statement.
Executes(task, statement) ==
  /\ task.todo # <<>> /\ Head(task.todo) = statement
  /\ tasks' = (tasks \ {task}) \cup
                (IF Len(task.todo) = 1 THEN {}
                 ELSE {Task(task.at, task.msg, Tail(task.todo))})
  /\ UNCHANGED <<memory, budget, listed, wire>>

Cancels(task) ==
  /\ Executes(task, "cancel")
  /\ Cancel(task.at)
  /\ UNCHANGED <<searching, elections, sends, group>>

\* initiateElection
Initiates(task) ==
  /\ Executes(task, "initiate")
  /\ state' = [state EXCEPT ![task.at] = "candidate"]
  /\ Send(task.at, Election(task.at))
  /\ UNCHANGED <<searching, coordinator, ring, formation>>

\* coordinatorID = the one announced, or oneself (becomeCoordinator).
Appoints(task) ==
  /\ Executes(task, "appoint")
  /\ coordinator' = [coordinator EXCEPT ![task.at] = task.msg.candidate]
  /\ UNCHANGED <<searching, state, ring, sends, formation>>

\* A candidate whose message has come back announces itself, and a weaker
\* device passes the message on.
Restates(task) ==
  LET n == task.at
      m == task.msg
  IN  /\ Executes(task, "restate")
      /\ state' = [state EXCEPT ![n] = IF m.candidate = n THEN "coordinator" ELSE "follower"]
      /\ CASE m.type = "coordinator" -> UNCHANGED sends
           [] m.type = "election" /\ m.candidate = n -> Send(n, Announcement(n))
           [] m.type = "election" /\ m.candidate # n -> Send(n, m)
      /\ UNCHANGED <<searching, coordinator, ring, formation>>

\* buildRing, with the coordinator and the devices there are by now.
Builds(task) ==
  /\ Executes(task, "build")
  /\ ring' = [ring EXCEPT ![task.at] = Built(task.at, coordinator[task.at])]
  /\ UNCHANGED <<searching, state, coordinator, sends, formation>>

\* mlxInitTask, started without stopping the one before.
StartTask(n) ==
  jobs' = [jobs EXCEPT ![n] =
             @ \cup {"current"} \cup (IF "current" \in @ THEN {"earlier"} ELSE {})]

\* A bug variant: the announcement is not passed on.
LaunchesOnly(task) ==
  /\ Executes(task, "launch")
  /\ StartTask(task.at)
  /\ UNCHANGED <<searching, elections, sends, group>>

\* Pass the announcement on, and start the task that initialises MLX.
Launches(task) ==
  /\ Executes(task, "launch")
  /\ IF task.msg.candidate = task.at THEN UNCHANGED sends ELSE Send(task.at, task.msg)
  /\ StartTask(task.at)
  /\ UNCHANGED <<searching, elections, group>>

\* currentRing = nil
Leaves(task) ==
  /\ Executes(task, "leave")
  /\ ring' = [ring EXCEPT ![task.at] = None]
  /\ UNCHANGED <<searching, state, coordinator, sends, formation>>

\* state = .inactive, and the browser stops.
Rests(task) ==
  /\ Executes(task, "rest")
  /\ state' = [state EXCEPT ![task.at] = "inactive"]
  /\ searching' = [searching EXCEPT ![task.at] = FALSE]
  /\ UNCHANGED <<coordinator, ring, sends, formation>>

Handles(task) ==
  \/ Cancels(task) \/ Initiates(task) \/ Appoints(task) \/ Restates(task)
  \/ Builds(task) \/ Launches(task) \/ Leaves(task) \/ Rests(task)

-----------------------------------------------------------------------------
(* The task that starts MLX.                                               *)

\* requestMissingProfiles: when a profile was missing and arrives, the ring is
\* built again from the devices discovered by then.
FetchesProfiles(n, job) ==
  /\ job \in jobs[n] /\ listed[n] # {}
  /\ ring' = [ring EXCEPT ![n] = Built(n, coordinator[n])]
  /\ jobs' = [jobs EXCEPT ![n] = @ \ {"cancelled"}]
  /\ UNCHANGED <<memory, budget, discovery, state, coordinator, messages, group>>

\* A cancelled task ends at its sleep.
EndsCancelled(n) ==
  /\ "cancelled" \in jobs[n]
  /\ jobs' = [jobs EXCEPT ![n] = @ \ {"cancelled"}]
  /\ UNCHANGED <<memory, budget, discovery, elections, messages, group>>

\* initMLX with the devices of the ring as it is by then.  MLX makes its group
\* once and returns that one whenever it is asked again.
InitialisesMLX(n, job) ==
  /\ job \in jobs[n] \ {"cancelled"}
  /\ jobs' = [jobs EXCEPT ![n] = @ \ {job}]
  /\ group' = [group EXCEPT ![n] =
                 IF @ # {} THEN @
                 ELSE IF ring[n] = None THEN {n} ELSE ring[n].members]
  /\ UNCHANGED <<memory, budget, discovery, elections, messages>>

-----------------------------------------------------------------------------
Init ==
  /\ \E s \in Scenarios : memory = s.memory /\ budget = s.budget
  /\ listed = [n \in Present |-> {}]
  /\ searching = [n \in Present |-> TRUE]
  /\ state = [n \in Present |-> "inactive"]
  /\ coordinator = [n \in Present |-> None]
  /\ ring = [n \in Present |-> None]
  /\ sends = [n \in Present |-> {}]
  /\ wire = {}
  /\ tasks = {}
  /\ jobs = [n \in Present |-> {}]
  /\ group = [n \in Present |-> {}]

Progress ==
  \/ \E n \in Present : Finds(n)
  \/ \E n \in Present : \E m \in sends[n] : Departs(n, m)
  \/ \E packet \in wire : Receives(packet)
  \/ \E task \in tasks : Handles(task)
  \/ \E n \in Present, job \in Jobs : FetchesProfiles(n, job) \/ InitialisesMLX(n, job)
  \/ \E n \in Present : EndsCancelled(n)

Interference ==
  \/ \E n, p \in Present : LosesSight(n, p)
  \/ \E n \in Present : StartFormation(n) \/ StopFormation(n)
  \/ \E n \in Present : \E m \in sends[n] : FindsNoSuccessor(n, m)
  \/ \E packet \in wire : IsLost(packet)

Next == Progress \/ Interference

Spec == Init /\ [][Next]_vars

\* Bonjour reports every peer that stays, a post is answered or fails, and a
\* task that runs goes on.
FairSpec ==
  /\ Spec
  /\ WF_vars(Progress)

-----------------------------------------------------------------------------
TypeOK ==
  /\ \E s \in Scenarios : memory = s.memory /\ budget \in 0..s.budget
  /\ listed \in [Present -> SUBSET Present]
  /\ \A n \in Present : n \notin listed[n]
  /\ searching \in [Present -> BOOLEAN]
  /\ state \in [Present -> {"inactive", "candidate", "coordinator", "follower"}]
  /\ coordinator \in [Present -> Present \cup {None}]
  /\ ring \in [Present -> [members : SUBSET Present, coordinator : Present]
                            \cup {None}]
  /\ sends \in [Present -> SUBSET Messages]
  /\ wire \subseteq [to : Present, msg : Messages]
  /\ tasks \subseteq [at : Present, msg : Messages, todo : Todos]
  /\ jobs \in [Present -> SUBSET Jobs]
  /\ group \in [Present -> SUBSET Present]

\* isLeader
Leads(n) == ring[n] # None /\ coordinator[n] = n

Strongest(n) == \A m \in Present \ {n} : memory[m] < memory[n]

APair == \E d, e \in Devices : Present \subseteq {d, e}

\* Two devices never both lead: only the leader loads models and starts
\* generations on the other.  Here announcements that are late, lost or
\* repeated, new elections, resets and handlers that run in parallel race each
\* other.  Among three devices, which learn of each other one after another, a
\* message may go round without passing the strongest, and two may lead.
OneLeader ==
  APair => \A m, n \in Present : Leads(m) /\ Leads(n) => m = n

\* Two devices of the same memory never form a ring, whatever they and their
\* users do: neither outranks the other, so no message comes back to its
\* candidate.  (Apps/InferRing/README.md: devices, "even two phones", "connect
\* automatically and combine their memory".)
AlikeStayApart ==
  APair /\ (\A n \in Present : ~Strongest(n)) =>
    \A n \in Present : coordinator[n] = None /\ ring[n] = None

Settled(n) ==
  \A m \in Present : /\ ring[m] = [members |-> Present, coordinator |-> n]
                     /\ group[m] = Present

\* When nothing interferes, the stronger of two devices ends up as the
\* coordinator of a ring of both, and each has an MLX group of both, whatever
\* elections the other started and however messages and handlers overtake each
\* other.
RingForms ==
  \A n \in Devices :
    APair /\ budget = 0 /\ n \in Present /\ Strongest(n) => <>[]Settled(n)
=============================================================================
