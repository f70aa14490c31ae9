------------------------ MODULE RingElectionProofs -------------------------
(***************************************************************************)
(* Theorems about RingElection: its types, for any number of devices, and  *)
(* for two devices that they never both lead, and never lead at all when   *)
(* they are alike; with any memory, however their handlers and messages    *)
(* overtake each other, and whatever the user and the network do.          *)
(*                                                                         *)
(* The argument is what is left of the one of Chang and Roberts: a message *)
(* that comes back to its candidate was passed on by the other device, and *)
(* only a weaker one passes it on; what follows from it follows in tasks   *)
(* that carry the message.                                                 *)
(***************************************************************************)
EXTENDS RingElection, FiniteSetTheorems, WellFoundedInduction, TLAPS

-----------------------------------------------------------------------------
(* The circle.                                                             *)

\* A place on the circle is one of it, and no two devices share one.
LEMMA Positions ==
  ASSUME ElectionAssumption
  PROVE  /\ Len(IdOrder) \in Nat
         /\ \A d \in Devices : Position(d) \in 1..Len(IdOrder)
         /\ \A d, e \in Devices : Position(d) = Position(e) => d = e
<1>1. Len(IdOrder) \in Nat /\ DOMAIN IdOrder = 1..Len(IdOrder)
  BY DEF ElectionAssumption
<1>2. ASSUME NEW d \in Devices
      PROVE  Position(d) \in DOMAIN IdOrder /\ IdOrder[Position(d)] = d
  <2>1. \E i \in DOMAIN IdOrder : IdOrder[i] = d
    BY <1>2 DEF Devices, Range
  <2>2. QED
    BY <2>1 DEF Position
<1>3. QED
  BY <1>1, <1>2

\* The way from n to another device is shorter than a whole turn.
LEMMA AheadRange ==
  ASSUME ElectionAssumption, NEW n \in Devices, NEW d \in Devices
  PROVE  /\ Ahead(n, d) \in 1..Len(IdOrder)
         /\ Ahead(n, n) = Len(IdOrder)
         /\ n # d => Ahead(n, d) < Len(IdOrder)
<1> DEFINE L == Len(IdOrder)
           x == Position(n)
           y == Position(d)
<1>1. L \in Nat /\ x \in 1..L /\ y \in 1..L /\ (n # d => x # y)
  BY Positions
<1>2. /\ Ahead(n, d) = IF y - x > 0 THEN y - x ELSE (y - x) + L
      /\ Ahead(n, n) = IF x - x > 0 THEN x - x ELSE (x - x) + L
  BY DEF Ahead
<1> HIDE DEF L, x, y
<1>3. /\ Ahead(n, d) \in 1..L /\ Ahead(n, n) = L
      /\ n # d => Ahead(n, d) < L
  BY <1>1, <1>2
<1>4. QED
  BY <1>3 DEF L

\* Every distance is a natural number.
LEMMA AheadNat ==
  ASSUME ElectionAssumption, NEW n \in Devices, NEW d \in Devices
  PROVE  Ahead(n, d) \in Nat
<1>1. Ahead(n, d) \in 1..Len(IdOrder) /\ Len(IdOrder) \in Nat
  BY AheadRange, Positions
<1>2. QED
  BY <1>1

\* A set of natural numbers that is not empty has a least one.
LEMMA NatMin ==
  ASSUME NEW S \in SUBSET Nat, S # {}
  PROVE  \E n \in S : \A m \in S : n <= m
<1>1. PICK n \in S : \A m \in Nat : <<m, n>> \in OpToRel(<, Nat) => m \notin S
  BY NatLessThanWellFounded, WFMin
<1>2. \A m \in S : ~(m < n)
  BY <1>1 DEF OpToRel
<1>3. QED
  BY <1>2

\* The successor has been discovered, and no device that has is between.
LEMMA SuccessorIsNext ==
  ASSUME ElectionAssumption, NEW n \in Devices, listed[n] \subseteq Devices, listed[n] # {}
  PROVE  /\ Successor(n) \in listed[n]
         /\ \A e \in listed[n] : Ahead(n, Successor(n)) <= Ahead(n, e)
<1> DEFINE Ways == {Ahead(n, d) : d \in listed[n]}
<1>1. Ways \in SUBSET Nat /\ Ways # {}
  BY AheadNat
<1>2. PICK w \in Ways : \A v \in Ways : w <= v
  BY <1>1, NatMin
<1>3. \E d \in listed[n] : \A e \in listed[n] : Ahead(n, d) <= Ahead(n, e)
  BY <1>2
<1>4. QED
  BY <1>3 DEF Successor

-----------------------------------------------------------------------------
(* The types.                                                              *)

\* The devices that run the app are known ones and None is not among them.
LEMMA PresentAreDevices ==
  ASSUME ElectionAssumption, TypeOK
  PROVE  /\ Present \subseteq Devices
         /\ None \notin Present
         /\ \A d \in Present : memory[d] \in Nat
  BY DEF ElectionAssumption, TypeOK, Present

\* A message put down to be sent joins the others that wait there.
LEMMA SendKeeps ==
  ASSUME TypeOK, NEW n \in Present, NEW m \in Messages, Send(n, m)
  PROVE  sends' \in [Present -> SUBSET Messages]
  BY DEF TypeOK, Send

\* Cancelling leaves a set of jobs.
LEMMA CancelKeeps ==
  ASSUME TypeOK, NEW n \in Present, Cancel(n)
  PROVE  jobs' \in [Present -> SUBSET Jobs]
  BY DEF TypeOK, Cancel, Jobs

\* buildRing makes a ring of devices, or leaves the one there was.
LEMMA BuiltKeeps ==
  ASSUME TypeOK, NEW n \in Present, NEW c \in Present \cup {None},
         ElectionAssumption, ring' = [ring EXCEPT ![n] = Built(n, c)]
  PROVE  ring' \in [Present -> [members : SUBSET Present, coordinator : Present]
                               \cup {None}]
<1>1. listed[n] \subseteq Present
  BY DEF TypeOK
<1>2. c \in listed[n] \cup {n} => c \in Present
  BY <1>1
<1>3. Built(n, c) \in [members : SUBSET Present, coordinator : Present] \cup {None}
  BY <1>1, <1>2 DEF TypeOK, Built
<1>4. QED
  BY <1>3 DEF TypeOK

\* The scenario does not change, and what is left of its budget shrinks.
Scenario == \E s \in Scenarios : memory = s.memory /\ budget \in 0..s.budget

\* Only the budget is spent, and never more of it than there is.
LEMMA ScenarioStep ==
  ASSUME ElectionAssumption, Scenario, UNCHANGED memory, UNCHANGED budget \/ Interfere
  PROVE  Scenario'
<1>1. PICK s \in Scenarios : memory = s.memory /\ budget \in 0..s.budget
  BY DEF Scenario
<1>2. s.budget \in Nat
  BY DEF ElectionAssumption
<1>3. budget' \in 0..s.budget
  BY <1>1, <1>2 DEF Interfere
<1>4. QED
  BY <1>1, <1>3 DEF Scenario

\* What a task does for its message; the others act for the device alone.
Passing ==
  {<<"cancel", "restate">>, <<"restate">>, <<"appoint", "restate">>,
   <<"appoint", "restate", "build", "launch">>, <<"restate", "build", "launch">>,
   <<"build", "launch">>, <<"launch">>}

\* The rest of a list of statements is one too, and serves the same purpose.
LEMMA Remainders ==
  ASSUME NEW todo \in Todos, Len(todo) # 1
  PROVE  /\ Tail(todo) \in Todos
         /\ Tail(todo) \in Passing => todo \in Passing
<1>1. /\ Tail(<<"cancel", "initiate">>) = <<"initiate">>
      /\ Tail(<<"cancel", "restate">>) = <<"restate">>
      /\ Tail(<<"appoint", "restate">>) = <<"restate">>
      /\ Tail(<<"build", "launch">>) = <<"launch">>
      /\ Tail(<<"leave", "rest">>) = <<"rest">>
  OBVIOUS
<1>2. /\ Tail(<<"restate", "build", "launch">>) = <<"build", "launch">>
      /\ Tail(<<"cancel", "leave", "rest">>) = <<"leave", "rest">>
  OBVIOUS
<1>3. Tail(<<"appoint", "restate", "build", "launch">>) = <<"restate", "build", "launch">>
  OBVIOUS
<1>4. <<"initiate">> \notin Passing /\ <<"rest">> \notin Passing /\ <<"leave", "rest">> \notin Passing
  BY DEF Passing
<1>5. /\ Len(<<"initiate">>) = 1 /\ Len(<<"restate">>) = 1
      /\ Len(<<"launch">>) = 1 /\ Len(<<"rest">>) = 1
  OBVIOUS
<1>6. CASE todo \in {<<"cancel", "initiate">>, <<"cancel", "leave", "rest">>, <<"leave", "rest">>}
  BY <1>1, <1>2, <1>4, <1>6 DEF Todos
<1>7. CASE todo \in {<<"cancel", "restate">>, <<"appoint", "restate">>, <<"build", "launch">>,
                     <<"restate", "build", "launch">>,
                     <<"appoint", "restate", "build", "launch">>}
  BY <1>1, <1>2, <1>3, <1>7 DEF Todos, Passing
<1>8. QED
  BY <1>5, <1>6, <1>7 DEF Todos

\* What the statements do for a message they do in a list that passes it on.
LEMMA PassingHeads ==
  ASSUME NEW todo \in Todos, Head(todo) \in {"appoint", "restate", "build", "launch"}
  PROVE  todo \in Passing
<1>1. /\ Head(<<"initiate">>) = "initiate" /\ Head(<<"cancel", "initiate">>) = "cancel"
      /\ Head(<<"cancel", "leave", "rest">>) = "cancel"
      /\ Head(<<"leave", "rest">>) = "leave" /\ Head(<<"rest">>) = "rest"
  OBVIOUS
<1>2. QED
  BY <1>1 DEF Todos, Passing

Tasks == [at : Present, msg : Messages, todo : Todos]

\* Executing a statement leaves a set of tasks, for the same messages.
LEMMA ExecutesKeeps ==
  ASSUME tasks \subseteq Tasks, NEW task \in tasks, NEW st, Executes(task, st)
  PROVE  /\ task.at \in Present /\ task.msg \in Messages /\ task.todo \in Todos
         /\ Head(task.todo) = st
         /\ tasks' \subseteq Tasks
         /\ \A t \in tasks' \ tasks : /\ t.msg = task.msg
                                      /\ t.todo \in Passing => task.todo \in Passing
<1>1. task.at \in Present /\ task.msg \in Messages /\ task.todo \in Todos
  BY DEF Tasks
<1>2. Head(task.todo) = st
  BY DEF Executes
<1>3. CASE Len(task.todo) = 1
  <2>1. tasks' = tasks \ {task}
    BY <1>3 DEF Executes
  <2>2. QED
    BY <1>1, <1>2, <2>1
<1>4. CASE Len(task.todo) # 1
  <2> DEFINE left == Tail(task.todo)
  <2>1. left \in Todos /\ (left \in Passing => task.todo \in Passing)
    BY <1>1, <1>4, Remainders
  <2>2. tasks' = (tasks \ {task}) \cup {Task(task.at, task.msg, left)}
    BY <1>4 DEF Executes
  <2> HIDE DEF left
  <2>3. tasks' \subseteq Tasks
    BY <1>1, <2>1, <2>2 DEF Tasks, Task
  <2>4. QED
    BY <1>1, <1>2, <2>1, <2>2, <2>3 DEF Task
<1>5. QED
  BY <1>3, <1>4

\* What a device does with a message is a list of statements.
LEMMA StatementsTodo ==
  ASSUME NEW n \in Present, NEW m \in Messages, Statements(n, m) # <<>>
  PROVE  Statements(n, m) \in Todos
<1>1. m.type \in {"election", "coordinator"} /\ ~(m.type = "election" /\ m.type = "coordinator")
  BY DEF Messages
<1>2. CASE m.type = "coordinator"
  BY <1>2 DEF Statements, Todos
<1>3. CASE m.type = "election" /\ Outranked(n, m)
  BY <1>3 DEF Statements, Todos
<1>4. CASE m.type = "election" /\ ~Outranked(n, m) /\ m.candidate = n
  BY <1>4 DEF Statements, Todos
<1>5. CASE m.type = "election" /\ ~Outranked(n, m) /\ m.candidate # n
  BY <1>5 DEF Statements, Todos
<1>6. QED
  BY <1>1, <1>2, <1>3, <1>4, <1>5

\* The memories never change, and the budget is only spent.
LEMMA MemoryStays ==
  ASSUME [Next]_vars
  PROVE  UNCHANGED memory /\ (UNCHANGED budget \/ Interfere)
  BY DEF Next, Progress, Interference, vars, discovery, elections, messages, formation,
     Finds, UpdatePeers, LosesSight, StartFormation, StopFormation, Departs,
     FindsNoSuccessor, IsLost, Receives, FetchesProfiles, EndsCancelled, InitialisesMLX,
     Handles, Executes, Cancels, Initiates, Appoints, Restates, Builds, Launches, Leaves,
     Rests

\* Each kind of step keeps what the state is made of.
LEMMA TypeStep ==
  ASSUME ElectionAssumption, TypeOK, [Next]_vars
  PROVE  TypeOK'
<1>a. Scenario
  BY DEF Scenario, TypeOK
<1>b. UNCHANGED memory /\ (UNCHANGED budget \/ Interfere)
  BY MemoryStays
<1>c. Scenario'
  BY <1>a, <1>b, ScenarioStep
<1>d. UNCHANGED <<Present, Messages, Tasks>>
  BY <1>b DEF Present, Messages, Tasks
<1> DEFINE States == {"inactive", "candidate", "coordinator", "follower"}
           Rings  == [members : SUBSET Present, coordinator : Present] \cup {None}
           Rest ==
             /\ listed \in [Present -> SUBSET Present]
             /\ \A n \in Present : n \notin listed[n]
             /\ searching \in [Present -> BOOLEAN]
             /\ state \in [Present -> States]
             /\ coordinator \in [Present -> Present \cup {None}]
             /\ ring \in [Present -> Rings]
             /\ sends \in [Present -> SUBSET Messages]
             /\ wire \subseteq [to : Present, msg : Messages]
             /\ tasks \subseteq Tasks
             /\ jobs \in [Present -> SUBSET Jobs]
             /\ group \in [Present -> SUBSET Present]
<1>r. Rest
  BY DEF TypeOK, Tasks
<1>t. ASSUME Rest' PROVE TypeOK'
  BY <1>c, <1>t DEF TypeOK, Scenario, Tasks
<1>e. \A n \in Present : Election(n) \in Messages /\ Announcement(n) \in Messages
  BY DEF Election, Announcement, Messages
<1>o. ASSUME NEW n \in Present, NEW todo \in Todos
      PROVE  Own(n, todo) \in Tasks
  BY <1>e DEF Own, Task, Tasks
<1>p. /\ <<"initiate">> \in Todos
      /\ <<"cancel", "leave", "rest">> \in Todos
  BY DEF Todos
<1>u. ASSUME NEW n \in Present, NEW peers \in SUBSET Peers(n), UpdatePeers(n, peers)
      PROVE  Rest'
  <2>1. tasks' \subseteq Tasks
    BY <1>u, <1>o, <1>p, <1>r DEF UpdatePeers
  <2>2. listed' \in [Present -> SUBSET Present] /\ \A q \in Present : q \notin listed'[q]
    BY <1>u DEF UpdatePeers, TypeOK, Peers
  <2>3. UNCHANGED <<searching, elections, sends, wire, formation>>
    BY <1>u DEF UpdatePeers
  <2>4. QED
    BY <1>r, <1>d, <2>1, <2>2, <2>3 DEF elections, formation
<1>1. CASE UNCHANGED vars
  BY <1>1, <1>r, <1>d, <1>t DEF vars, discovery, elections, messages, formation
<1>2. ASSUME NEW n \in Present, Finds(n)
      PROVE  TypeOK'
  BY <1>2, <1>u, <1>t DEF Finds
<1>3. ASSUME NEW n \in Present, NEW p \in Present, LosesSight(n, p)
      PROVE  TypeOK'
  <2>1. listed[n] \ {p} \in SUBSET Peers(n)
    BY DEF TypeOK, Peers
  <2>2. QED
    BY <1>3, <2>1, <1>u, <1>t DEF LosesSight
<1>4. ASSUME NEW n \in Present, StartFormation(n) \/ StopFormation(n)
      PROVE  TypeOK'
  <2>1. tasks' \subseteq Tasks /\ searching' \in [Present -> BOOLEAN]
    BY <1>4, <1>o, <1>p, <1>r DEF StartFormation, StopFormation, discovery
  <2>2. UNCHANGED <<listed, elections, sends, wire, formation>>
    BY <1>4 DEF StartFormation, StopFormation, discovery
  <2>3. QED
    BY <1>r, <1>d, <1>t, <2>1, <2>2 DEF elections, formation
<1>6. ASSUME NEW n \in Present, NEW m \in sends[n], Departs(n, m)
      PROVE  TypeOK'
  <2>1. Successor(n) \in Present
    BY <1>6, SuccessorIsNext, PresentAreDevices DEF Departs, TypeOK
  <2>2. m \in Messages
    BY <1>6 DEF TypeOK
  <2>3. wire' \subseteq [to : Present, msg : Messages]
    BY <1>6, <1>r, <2>1, <2>2 DEF Departs
  <2>4. sends' \in [Present -> SUBSET Messages]
    BY <1>6, <1>r DEF Departs
  <2>5. QED
    BY <1>6, <1>r, <1>d, <1>t, <2>3, <2>4 DEF Departs, discovery, elections, formation
<1>7. ASSUME NEW n \in Present, NEW m \in sends[n], FindsNoSuccessor(n, m)
      PROVE  TypeOK'
  BY <1>7, <1>r, <1>d, <1>t DEF FindsNoSuccessor, discovery, formation
<1>8. ASSUME NEW packet \in wire, IsLost(packet)
      PROVE  TypeOK'
  BY <1>8, <1>r, <1>d, <1>t DEF IsLost, discovery, elections, formation
<1>9. ASSUME NEW packet \in wire, Receives(packet)
      PROVE  TypeOK'
  <2> DEFINE n == packet.to
             m == packet.msg
  <2>1. n \in Present /\ m \in Messages
    BY <1>9 DEF TypeOK
  <2>2. Statements(n, m) # <<>> => Task(n, m, Statements(n, m)) \in Tasks
    BY <2>1, StatementsTodo DEF Tasks, Task
  <2>3. tasks' \subseteq Tasks
    BY <1>9, <1>r, <2>2 DEF Receives
  <2>4. QED
    BY <1>9, <1>r, <1>d, <1>t, <2>3 DEF Receives, discovery, elections, formation
<1>10. ASSUME NEW n \in Present, NEW job \in Jobs, FetchesProfiles(n, job)
       PROVE  TypeOK'
  <2>1. coordinator[n] \in Present \cup {None}
    BY DEF TypeOK
  <2>2. ring' \in [Present -> Rings]
    BY <1>10, <2>1, BuiltKeeps DEF FetchesProfiles
  <2>3. QED
    BY <1>10, <1>r, <1>d, <1>t, <2>2 DEF FetchesProfiles, discovery, messages
<1>11. ASSUME NEW n \in Present, NEW job \in Jobs, InitialisesMLX(n, job)
       PROVE  TypeOK'
  <2>1. ring[n] # None => ring[n].members \in SUBSET Present
    BY DEF TypeOK
  <2>2. group' \in [Present -> SUBSET Present]
    BY <1>11, <1>r, <2>1 DEF InitialisesMLX
  <2>3. jobs' \in [Present -> SUBSET Jobs]
    BY <1>11, <1>r DEF InitialisesMLX
  <2>4. QED
    BY <1>11, <1>r, <1>d, <1>t, <2>2, <2>3 DEF InitialisesMLX, discovery, elections, messages
<1>12. ASSUME NEW n \in Present, EndsCancelled(n)
       PROVE  TypeOK'
  BY <1>12, <1>r, <1>d, <1>t DEF EndsCancelled, discovery, elections, messages
<1>13. ASSUME NEW task \in tasks, Handles(task)
       PROVE  TypeOK'
  <2> DEFINE n == task.at
             m == task.msg
  <2>1. PICK st : Executes(task, st)
    BY <1>13 DEF Handles, Cancels, Initiates, Appoints, Restates, Builds, Launches,
                 Leaves, Rests
  <2>2. n \in Present /\ m \in Messages /\ tasks' \subseteq Tasks
    BY <1>r, <2>1, ExecutesKeeps
  <2>3. m.candidate \in Present
    BY <2>2 DEF Messages
  <2>4. UNCHANGED <<listed, wire>>
    BY <2>1 DEF Executes
  <2> HIDE DEF n, m, Rest
  <2>5. ASSUME searching' \in [Present -> BOOLEAN],
               state' \in [Present -> States],
               coordinator' \in [Present -> Present \cup {None}],
               ring' \in [Present -> Rings],
               sends' \in [Present -> SUBSET Messages],
               jobs' \in [Present -> SUBSET Jobs],
               UNCHANGED group
        PROVE  TypeOK'
    BY <1>r, <1>d, <1>t, <2>2, <2>4, <2>5 DEF Rest
  <2>6. CASE Cancels(task)
    <3>1. jobs' \in [Present -> SUBSET Jobs]
      BY <2>2, <2>6, CancelKeeps DEF Cancels, n
    <3>2. QED
      BY <2>5, <2>6, <3>1 DEF Cancels, elections, TypeOK
  <2>7. CASE Initiates(task)
    <3>1. sends' \in [Present -> SUBSET Messages]
      BY <1>e, <2>2, <2>7, SendKeeps DEF Initiates, n
    <3>2. QED
      BY <2>2, <2>5, <2>7, <3>1 DEF Initiates, formation, TypeOK, n
  <2>8. CASE Appoints(task)
    BY <2>2, <2>3, <2>5, <2>8 DEF Appoints, formation, TypeOK, n, m
  <2>9. CASE Restates(task)
    <3>1. sends' \in [Present -> SUBSET Messages]
      <4>1. m.type \in {"election", "coordinator"}
        BY <2>2 DEF Messages
      <4>2. UNCHANGED sends \/ Send(n, m) \/ Send(n, Announcement(n))
        BY <2>9, <4>1 DEF Restates, n, m
      <4>3. QED
        BY <1>e, <2>2, <4>2, SendKeeps DEF TypeOK
    <3>2. state' \in [Present -> States]
      BY <2>2, <2>9 DEF Restates, TypeOK, n, m
    <3>3. QED
      BY <2>5, <2>9, <3>1, <3>2 DEF Restates, formation, TypeOK
  <2>10. CASE Builds(task)
    <3>1. coordinator[n] \in Present \cup {None}
      BY <2>2 DEF TypeOK
    <3>2. ring' \in [Present -> Rings]
      BY <2>2, <2>10, <3>1, BuiltKeeps DEF Builds, n
    <3>3. QED
      BY <2>5, <2>10, <3>2 DEF Builds, formation, TypeOK
  <2>11. CASE Launches(task)
    <3>1. sends' \in [Present -> SUBSET Messages]
      BY <2>2, <2>11, SendKeeps DEF Launches, TypeOK, n, m
    <3>2. jobs' \in [Present -> SUBSET Jobs]
      BY <2>2, <2>11 DEF Launches, StartTask, TypeOK, Jobs, n
    <3>3. QED
      BY <2>5, <2>11, <3>1, <3>2 DEF Launches, elections, TypeOK
  <2>12. CASE Leaves(task)
    BY <2>2, <2>5, <2>12 DEF Leaves, formation, TypeOK, n
  <2>13. CASE Rests(task)
    BY <2>2, <2>5, <2>13 DEF Rests, formation, TypeOK, n
  <2>14. QED
    BY <1>13, <2>6, <2>7, <2>8, <2>9, <2>10, <2>11, <2>12, <2>13 DEF Handles
<1>14. QED
  BY <1>1, <1>2, <1>3, <1>4, <1>6, <1>7, <1>8, <1>9, <1>10, <1>11, <1>12, <1>13
  DEF Next, Progress, Interference

\* The state is well typed: what a device has discovered, its ring, its
\* coordinator, its tasks and the messages on their way name only devices that
\* run the app, and every task has a known list of statements left.
THEOREM TypeCorrect ==
  ASSUME ElectionAssumption
  PROVE  Spec => []TypeOK
<1>1. Init => TypeOK
  BY DEF Init, TypeOK, Present, ElectionAssumption
<1>2. TypeOK /\ [Next]_vars => TypeOK'
  BY TypeStep
<1>3. QED
  BY <1>1, <1>2, PTL DEF Spec

-----------------------------------------------------------------------------
(* Two devices.                                                            *)

\* An election message that is not the strongest's is its candidate's own, on
\* its way to the other device or in a task that does not pass it on; who has
\* been appointed, and whoever a ring was built for, is the strongest.
PairInv ==
  /\ \A n \in Present : /\ coordinator[n] # None => Strongest(coordinator[n])
                        /\ ring[n] # None => \E c \in Present : Strongest(c)
                        /\ \A m \in sends[n] : m = Election(n) \/ Strongest(m.candidate)
  /\ \A packet \in wire :
       \/ Strongest(packet.msg.candidate)
       \/ packet.msg.type = "election" /\ packet.msg.candidate # packet.to
  /\ \A task \in tasks : task.todo \in Passing => Strongest(task.msg.candidate)

\* Of two devices, one that is stronger than another is the strongest.
LEMMA StrongerIsStrongest ==
  ASSUME APair, NEW n \in Present, NEW c \in Present, n # c, memory[n] < memory[c]
  PROVE  Strongest(c)
  BY DEF APair, Strongest

\* A list of statements that serves a message is started for the strongest's
\* only: the other's is not passed on, and does not come back.
LEMMA PassesStrongest ==
  ASSUME ElectionAssumption, TypeOK, APair, PairInv, NEW packet \in wire,
         Statements(packet.to, packet.msg) \in Passing
  PROVE  Strongest(packet.msg.candidate)
<1> DEFINE n == packet.to
           m == packet.msg
<1>1. n \in Present /\ m \in Messages
  BY DEF TypeOK
<1>2. m.candidate \in Present /\ m.type \in {"election", "coordinator"}
  BY <1>1 DEF Messages
<1>3. Strongest(m.candidate) \/ (m.type = "election" /\ m.candidate # n)
  BY DEF PairInv
<1> HIDE DEF n, m
<1>4. CASE m.type = "election" /\ m.candidate # n /\ Outranked(n, m)
  <2>1. memory[n] < memory[m.candidate]
    BY <1>4 DEF Outranked
  <2>2. QED
    BY <1>1, <1>2, <1>4, <2>1, StrongerIsStrongest DEF m
<1>5. CASE m.type = "election" /\ m.candidate # n /\ ~Outranked(n, m)
  <2>1. Statements(n, m) \in {<<>>, <<"cancel", "initiate">>}
    BY <1>5 DEF Statements
  <2>2. <<>> \notin Passing /\ <<"cancel", "initiate">> \notin Passing
    BY DEF Passing
  <2>3. QED
    BY <2>1, <2>2 DEF n, m
<1>6. QED
  BY <1>3, <1>4, <1>5 DEF m

\* Every step of a pair keeps the invariant.
LEMMA PairStep ==
  ASSUME ElectionAssumption, TypeOK, APair, PairInv, [Next]_vars
  PROVE  PairInv'
<1>a. UNCHANGED memory
  BY MemoryStays
<1>b. UNCHANGED Present /\ \A c : Strongest(c)' = Strongest(c)
  BY <1>a DEF Present, Strongest
<1>c. None \notin Present
  BY PresentAreDevices
<1> DEFINE Appointed == \A n \in Present : coordinator[n] # None => Strongest(coordinator[n])
           Ringed    == \A n \in Present : ring[n] # None => \E c \in Present : Strongest(c)
           Waiting   == \A n \in Present : \A m \in sends[n] :
                          m = Election(n) \/ Strongest(m.candidate)
           Travels   == \A packet \in wire :
                          \/ Strongest(packet.msg.candidate)
                          \/ packet.msg.type = "election" /\ packet.msg.candidate # packet.to
           Handled   == \A task \in tasks :
                          task.todo \in Passing => Strongest(task.msg.candidate)
<1>i. Appointed /\ Ringed /\ Waiting /\ Travels /\ Handled
  BY DEF PairInv
<1>j. ASSUME Appointed', Ringed', Waiting', Travels', Handled'
      PROVE  PairInv'
  BY <1>j DEF PairInv
<1>k. /\ UNCHANGED coordinator => Appointed'
      /\ UNCHANGED ring => Ringed'
      /\ UNCHANGED sends => Waiting'
      /\ wire' \subseteq wire => Travels'
      /\ tasks' \subseteq tasks => Handled'
  BY <1>b, <1>i DEF Election
<1>o. ASSUME NEW n, NEW todo \in {<<"initiate">>, <<"cancel", "leave", "rest">>},
             tasks' \subseteq tasks \cup {Own(n, todo)}
      PROVE  Handled'
  <2>1. <<"initiate">> \notin Passing /\ <<"cancel", "leave", "rest">> \notin Passing
    BY DEF Passing
  <2>2. Own(n, todo).todo \notin Passing
    BY <2>1 DEF Own, Task
  <2>3. QED
    BY <1>b, <1>i, <1>o, <2>2
<1>s. ASSUME NEW n \in Present, NEW m \in Messages, Send(n, m),
             m = Election(n) \/ Strongest(m.candidate)
      PROVE  Waiting'
  <2>1. sends' = [sends EXCEPT ![n] = @ \cup {m}] /\ sends \in [Present -> SUBSET Messages]
    BY <1>s DEF Send, TypeOK
  <2>2. QED
    BY <1>b, <1>i, <1>s, <2>1 DEF Election
<1>l. ASSUME NEW n \in Present, ring' = [ring EXCEPT ![n] = Built(n, coordinator[n])]
      PROVE  Ringed'
  <2>1. coordinator[n] \in Present \cup {None} /\ listed[n] \subseteq Present
    BY DEF TypeOK
  <2>2. Built(n, coordinator[n]) = ring[n] \/ coordinator[n] \in Present
    BY <1>c, <2>1 DEF Built
  <2>3. coordinator[n] \in Present => Strongest(coordinator[n])
    BY <1>c, <1>i
  <2>4. Built(n, coordinator[n]) # None => \E c \in Present : Strongest(c)
    BY <1>i, <2>2, <2>3
  <2>5. QED
    BY <1>b, <1>i, <1>l, <2>4 DEF TypeOK
<1> HIDE DEF Appointed, Ringed, Waiting, Travels, Handled
<1>1. CASE UNCHANGED vars
  BY <1>1, <1>j, <1>k DEF vars, elections, messages
<1>2. ASSUME NEW n \in Present, NEW peers, UpdatePeers(n, peers)
      PROVE  PairInv'
  <2>1. Handled'
    BY <1>2, <1>o DEF UpdatePeers
  <2>2. QED
    BY <1>2, <1>j, <1>k, <2>1 DEF UpdatePeers, elections
<1>3. ASSUME NEW n \in Present, StartFormation(n) \/ StopFormation(n)
      PROVE  PairInv'
  <2>1. Handled'
    BY <1>3, <1>o DEF StartFormation, StopFormation
  <2>2. QED
    BY <1>3, <1>j, <1>k, <2>1 DEF StartFormation, StopFormation, elections
<1>4. ASSUME NEW n \in Present, NEW m \in sends[n], Departs(n, m)
      PROVE  PairInv'
  <2>1. Successor(n) \in listed[n] /\ Successor(n) # n
    BY <1>4, SuccessorIsNext, PresentAreDevices DEF Departs, TypeOK
  <2>2. m = Election(n) \/ Strongest(m.candidate)
    BY <1>4, <1>i DEF Waiting
  <2>3. Travels'
    BY <1>4, <1>b, <1>i, <2>1, <2>2 DEF Departs, Travels, Election
  <2>4. Waiting'
    BY <1>4, <1>b, <1>i DEF Departs, Waiting, TypeOK, Election
  <2>5. QED
    BY <1>4, <1>j, <1>k, <2>3, <2>4 DEF Departs, elections
<1>5. ASSUME NEW n \in Present, NEW m \in sends[n], FindsNoSuccessor(n, m)
      PROVE  PairInv'
  <2>1. Waiting'
    BY <1>5, <1>b, <1>i DEF FindsNoSuccessor, Waiting, TypeOK, Election
  <2>2. QED
    BY <1>5, <1>j, <1>k, <2>1 DEF FindsNoSuccessor
<1>6. ASSUME NEW packet \in wire, IsLost(packet)
      PROVE  PairInv'
  BY <1>6, <1>j, <1>k DEF IsLost, elections
<1>7. ASSUME NEW packet \in wire, Receives(packet)
      PROVE  PairInv'
  <2> DEFINE todo == Statements(packet.to, packet.msg)
             new  == Task(packet.to, packet.msg, todo)
  <2>1. todo \in Passing => Strongest(packet.msg.candidate)
    BY <1>7, PassesStrongest
  <2>2. tasks' \subseteq tasks \cup {new}
    BY <1>7 DEF Receives
  <2>3. new.todo = todo /\ new.msg = packet.msg
    BY DEF Task
  <2> HIDE DEF new, todo
  <2>4. Handled'
    BY <1>b, <1>i, <2>1, <2>2, <2>3 DEF Handled
  <2>5. QED
    BY <1>7, <1>j, <1>k, <2>4 DEF Receives, elections
<1>8. ASSUME NEW n \in Present, NEW job \in Jobs, FetchesProfiles(n, job)
      PROVE  PairInv'
  <2>1. Ringed'
    BY <1>8, <1>l DEF FetchesProfiles
  <2>2. QED
    BY <1>8, <1>j, <1>k, <2>1 DEF FetchesProfiles, messages
<1>9. ASSUME NEW n \in Present,
             EndsCancelled(n) \/ \E job \in Jobs : InitialisesMLX(n, job)
      PROVE  PairInv'
  BY <1>9, <1>j, <1>k DEF InitialisesMLX, EndsCancelled, elections, messages
<1>10. ASSUME NEW task \in tasks, Handles(task)
       PROVE  PairInv'
  <2> DEFINE n == task.at
             m == task.msg
  <2>1. PICK st : Executes(task, st) /\ UNCHANGED wire
    BY <1>10 DEF Handles, Cancels, Initiates, Appoints, Restates, Builds, Launches,
                 Leaves, Rests, Executes
  <2>2. /\ n \in Present /\ m \in Messages /\ task.todo \in Todos
        /\ \A t \in tasks' \ tasks : t.msg = m /\ (t.todo \in Passing => task.todo \in Passing)
    BY <2>1, ExecutesKeeps DEF TypeOK, Tasks
  <2>3. task.todo \in Passing => Strongest(m.candidate)
    BY <1>i DEF Handled
  <2>4. Handled' /\ Travels'
    <3>1. Handled'
      BY <1>b, <1>i, <2>2, <2>3 DEF Handled
    <3>2. QED
      BY <1>k, <2>1, <3>1
  <2>5. Head(task.todo) \in {"appoint", "restate", "build", "launch"} => Strongest(m.candidate)
    BY <2>2, <2>3, PassingHeads
  <2>6. Election(n) \in Messages /\ Announcement(n) \in Messages
    BY <2>2 DEF Election, Announcement, Messages
  <2> HIDE DEF n, m
  <2>7. CASE Cancels(task)
    BY <2>7, <1>j, <1>k, <2>4 DEF Cancels, elections
  <2>8. CASE Initiates(task)
    <3>1. Waiting'
      BY <2>2, <2>6, <2>8, <1>s DEF Initiates, n
    <3>2. QED
      BY <2>8, <1>j, <1>k, <2>4, <3>1 DEF Initiates
  <2>9. CASE Appoints(task)
    <3>1. Strongest(m.candidate)
      BY <2>5, <2>9 DEF Appoints, Executes
    <3>2. Appointed'
      BY <1>b, <1>i, <2>2, <2>9, <3>1 DEF Appointed, Appoints, TypeOK, n, m
    <3>3. QED
      BY <2>9, <1>j, <1>k, <2>4, <3>2 DEF Appoints
  <2>10. CASE Restates(task)
    <3>1. Strongest(m.candidate) /\ m.type \in {"election", "coordinator"}
      BY <2>2, <2>5, <2>10 DEF Restates, Executes, Messages
    <3>2. UNCHANGED sends \/ Send(n, m) \/ (Send(n, Announcement(n)) /\ m.candidate = n)
      BY <2>10, <3>1 DEF Restates, n, m
    <3>3. Announcement(n).candidate = n
      BY DEF Announcement
    <3>4. Waiting'
      BY <1>k, <1>s, <2>2, <2>6, <3>1, <3>2, <3>3
    <3>5. QED
      BY <2>10, <1>j, <1>k, <2>4, <3>4 DEF Restates
  <2>11. CASE Builds(task)
    <3>1. Ringed'
      BY <2>2, <2>11, <1>l DEF Builds, n
    <3>2. QED
      BY <2>11, <1>j, <1>k, <2>4, <3>1 DEF Builds
  <2>12. CASE Launches(task)
    <3>1. Strongest(m.candidate)
      BY <2>5, <2>12 DEF Launches, Executes
    <3>2. UNCHANGED sends \/ Send(n, m)
      BY <2>12 DEF Launches, n, m
    <3>3. Waiting'
      BY <1>k, <1>s, <2>2, <3>1, <3>2
    <3>4. QED
      BY <2>12, <1>j, <1>k, <2>4, <3>3 DEF Launches, elections
  <2>13. CASE Leaves(task)
    <3>1. Ringed'
      BY <1>b, <1>i, <2>2, <2>13 DEF Ringed, Leaves, TypeOK, n
    <3>2. QED
      BY <2>13, <1>j, <1>k, <2>4, <3>1 DEF Leaves
  <2>14. CASE Rests(task)
    BY <2>14, <1>j, <1>k, <2>4 DEF Rests
  <2>15. QED
    BY <1>10, <2>7, <2>8, <2>9, <2>10, <2>11, <2>12, <2>13, <2>14 DEF Handles
<1>11. QED
  BY <1>1, <1>2, <1>3, <1>4, <1>5, <1>6, <1>7, <1>8, <1>9, <1>10
  DEF Next, Progress, Interference, Finds, LosesSight

\* In a pair, whoever has been appointed is the strongest.
LEMMA PairHolds ==
  ASSUME ElectionAssumption
  PROVE  Spec => [](TypeOK /\ (APair => PairInv))
<1>1. Init => PairInv
  BY DEF Init, PairInv
<1>2. TypeOK /\ [Next]_vars => (APair' <=> APair)
  <2>1. SUFFICES ASSUME [Next]_vars PROVE UNCHANGED memory
    BY DEF APair, Present
  <2>2. QED
    BY <2>1, MemoryStays
<1>3. TypeOK /\ (APair => PairInv) /\ [Next]_vars => (APair => PairInv)'
  BY <1>2, PairStep
<1>4. Spec => []TypeOK
  BY TypeCorrect
<1>5. QED
  BY <1>1, <1>3, <1>4, PTL DEF Spec

\* Two devices never both lead, whatever memory they have, however their
\* handlers and messages overtake each other, whatever the network loses and
\* whenever the user starts or stops.
THEOREM OneLeaderOfTwo ==
  ASSUME ElectionAssumption
  PROVE  Spec => []OneLeader
<1>1. TypeOK /\ (APair => PairInv) => OneLeader
  <2>1. SUFFICES ASSUME TypeOK, PairInv, NEW m \in Present, NEW n \in Present,
                        Leads(m), Leads(n)
                 PROVE  m = n
    BY DEF OneLeader
  <2>2. None \notin Present /\ memory[m] \in Nat /\ memory[n] \in Nat
    BY <2>1, PresentAreDevices
  <2>3. Strongest(m) /\ Strongest(n)
    BY <2>1, <2>2 DEF PairInv, Leads
  <2>4. QED
    BY <2>2, <2>3 DEF Strongest
<1>2. QED
  BY <1>1, PairHolds, PTL

\* Two devices of the same memory never form a ring, whatever happens: no
\* announcement is ever made.
THEOREM AlikeNeverCombine ==
  ASSUME ElectionAssumption
  PROVE  Spec => []AlikeStayApart
<1>1. TypeOK /\ (APair => PairInv) => AlikeStayApart
  BY DEF AlikeStayApart, PairInv, TypeOK
<1>2. QED
  BY <1>1, PairHolds, PTL
=============================================================================
