-------------------------- MODULE SplitRelayProofs --------------------------
(***************************************************************************)
(* Proofs about SplitRelay, for any set of workers, any number of control  *)
(* connections and tunnels, and any channel limit.                         *)
(***************************************************************************)
EXTENDS SplitRelay, TLAPS

-----------------------------------------------------------------------------
(* Types.                                                                  *)

\* A connection that was dialled and a tunnel that was opened have a worker.
Named ==
  /\ \A c \in Conns : ctl[c].state # "unused" => ctl[c].node \in Nodes
  /\ \A t \in Tunnels : tun[t].forward # "unused" \/ tun[t].worker # "none"
                          => tun[t].node \in Nodes

TypeInv == TypeOK /\ Named

\* Writing one field of a control record keeps it a control record.
LEMMA ControlType ==
  ASSUME NEW f \in [Conns -> Controls], NEW c \in Conns, NEW s \in ControlStates
  PROVE  /\ [f EXCEPT ![c].state = s] \in [Conns -> Controls]
         /\ [f EXCEPT ![c].state = s][c] = [f[c] EXCEPT !.state = s]
         /\ [f EXCEPT ![c].state = s][c].node = f[c].node
         /\ [f EXCEPT ![c].state = s][c].state = s
         /\ \A d \in Conns \ {c} : [f EXCEPT ![c].state = s][d] = f[d]
  BY DEF Controls

\* Abandoning the tunnels of a worker touches the worker's end of them only.
LEMMA AbandonedType ==
  ASSUME TypeOK, NEW n
  PROVE  /\ Abandoned(n) \in [Tunnels -> TunnelRecords]
         /\ \A t \in Tunnels :
              /\ Abandoned(n)[t].node = tun[t].node
              /\ Abandoned(n)[t].forward = tun[t].forward
              /\ Abandoned(n)[t].future = tun[t].future
              /\ Abandoned(n)[t].data = tun[t].data
              /\ Abandoned(n)[t].completed = tun[t].completed
              /\ Abandoned(n)[t].worker \in {tun[t].worker, "none"}
<1>1. ASSUME NEW t \in Tunnels
      PROVE  /\ [tun[t] EXCEPT !.worker = "none"] \in TunnelRecords
             /\ tun[t] \in TunnelRecords
  BY DEF TypeOK, TunnelRecords
<1>2. QED
  BY <1>1 DEF Abandoned, TypeOK, TunnelRecords

\* The two ways in which a session of a worker ends at the worker's side.
LeftSessions(n) ==
  [c \in Conns |-> IF c \in Session(n)
                     THEN [ctl[c] EXCEPT !.state = "left"] ELSE ctl[c]]

\* Ending its sessions keeps the types, and everything but their states.
LEMMA LeftSessionsType ==
  ASSUME TypeOK, NEW n
  PROVE  /\ LeftSessions(n) \in [Conns -> Controls]
         /\ \A c \in Conns :
              /\ LeftSessions(n)[c].node = ctl[c].node
              /\ \/ LeftSessions(n)[c].state = ctl[c].state
                 \/ ctl[c].state = "serving" /\ LeftSessions(n)[c].state = "left"
<1>1. ASSUME NEW c \in Conns
      PROVE  /\ [ctl[c] EXCEPT !.state = "left"] \in Controls
             /\ [ctl[c] EXCEPT !.state = "left"].node = ctl[c].node
             /\ [ctl[c] EXCEPT !.state = "left"].state = "left"
             /\ ctl[c] \in Controls
             /\ c \in Session(n) => ctl[c].state = "serving"
  BY DEF TypeOK, Controls, ControlStates, Session
<1>2. QED
  BY <1>1 DEF LeftSessions, Controls

\* Initially everything is well typed.
LEMMA InitTypes == Init => TypeInv
<1> SUFFICES ASSUME Init PROVE TypeInv
  OBVIOUS
<1>1. ctl \in [Conns -> Controls] /\ \A c \in Conns : ctl[c].state = "unused"
  BY DEF Init, Controls, ControlStates
<1>2. /\ tun \in [Tunnels -> TunnelRecords]
      /\ \A t \in Tunnels : tun[t].forward = "unused" /\ tun[t].worker = "none"
  BY DEF Init, TunnelRecords
<1>3. /\ phase \in Phases /\ verdict \in {"none", "PASS", "FAIL"}
      /\ failure \in BOOLEAN /\ nodes \subseteq Nodes
      /\ bytes \subseteq Nodes /\ computed \subseteq Nodes /\ fresh \subseteq Nodes
  BY DEF Init, Phases
<1>4. stats \in [Nodes -> 0..2] /\ before \in [Nodes -> 0..2]
  BY DEF Init
<1>5. QED
  BY <1>1, <1>2, <1>3, <1>4 DEF TypeInv, TypeOK, Named

-----------------------------------------------------------------------------
(* What a step may do to one tunnel, r before it and s after it.           *)

Leaves(r, s) == s = r \/ s = [r EXCEPT !.worker = "none"]

Refused(r, s) ==
  r.forward = "unused" /\ \E n \in Nodes : s = [r EXCEPT !.node = n, !.forward = "over"]

Asked(r, s) ==
  /\ r.forward = "unused"
  /\ \E n \in Nodes, w \in {"none", "asked"} :
       s = [r EXCEPT !.node = n, !.forward = "waiting", !.future = "pending",
                     !.worker = w]

Dials(r, s) == r.worker = "asked" /\ s = [r EXCEPT !.worker = "busy", !.data = "dialling"]

Acknowledged(r, s) ==
  /\ r.data = "dialling" /\ r.future = "pending" /\ r.forward = "waiting"
  /\ s = [r EXCEPT !.data = "acking"]

TurnedAway(r, s) ==
  \/ r.data = "dialling" /\ s = [r EXCEPT !.data = "over"]
  \/ r.data = "acking" /\ s = [r EXCEPT !.data = "cut"]

HandedOver(r, s) ==
  /\ r.data = "acking" /\ r.future = "pending"
  /\ s = [r EXCEPT !.data = "parked", !.future = "set"]

Bridged(r, s) ==
  r.forward = "waiting" /\ r.future = "set" /\ s = [r EXCEPT !.forward = "bridged"]

GivenUp(r, s) ==
  /\ r.forward = "waiting"
  /\ s = [r EXCEPT !.forward = "over",
                   !.future = IF @ = "pending" THEN "cancelled" ELSE @]

Ended(r, s) ==
  r.forward = "bridged" /\ s = [r EXCEPT !.forward = "over", !.completed = TRUE]

Released(r, s) == r.data = "parked" /\ r.completed /\ s = [r EXCEPT !.data = "over"]

Cancelled(r, s) ==
  s = [r EXCEPT !.forward = IF @ = "unused" THEN @ ELSE "over",
                !.future = IF @ = "pending" THEN "cancelled" ELSE @,
                !.data = IF @ \in {"acking", "parked"} THEN "over" ELSE @,
                !.worker = "none",
                !.completed = @ \/ r.forward = "bridged"]

Spoiled == failure \/ Closing

Move(r, s) ==
  \/ Leaves(r, s) \/ Refused(r, s) \/ Asked(r, s) \/ Dials(r, s)
  \/ Acknowledged(r, s) \/ TurnedAway(r, s) \/ HandedOver(r, s) \/ Bridged(r, s)
  \/ Ended(r, s) \/ Released(r, s)
  \/ (GivenUp(r, s) \/ Cancelled(r, s)) /\ Spoiled'

\* A move keeps a tunnel record well typed.
LEMMA MoveType ==
  ASSUME NEW r \in TunnelRecords, NEW s, Move(r, s) PROVE s \in TunnelRecords
<1>1. CASE Leaves(r, s) \/ Refused(r, s) \/ Asked(r, s) \/ Dials(r, s)
  BY <1>1 DEF Leaves, Refused, Asked, Dials, TunnelRecords
<1>2. CASE Acknowledged(r, s) \/ TurnedAway(r, s) \/ HandedOver(r, s) \/ Bridged(r, s)
  BY <1>2 DEF Acknowledged, TurnedAway, HandedOver, Bridged, TunnelRecords
<1>3. CASE Ended(r, s) \/ Released(r, s) \/ GivenUp(r, s)
  BY <1>3 DEF Ended, Released, GivenUp, TunnelRecords
<1>4. CASE Cancelled(r, s)
  <2>0. /\ r.forward \in {"unused", "waiting", "bridged", "over"}
        /\ r.future \in {"none", "pending", "set", "cancelled"}
        /\ r.data \in {"none", "dialling", "acking", "parked", "cut", "over"}
        /\ r.completed \in BOOLEAN
    BY DEF TunnelRecords
  <2> DEFINE forward == IF r.forward = "unused" THEN r.forward ELSE "over"
             future == IF r.future = "pending" THEN "cancelled" ELSE r.future
             data == IF r.data \in {"acking", "parked"} THEN "over" ELSE r.data
             completed == r.completed \/ r.forward = "bridged"
  <2>1. forward \in {"unused", "waiting", "bridged", "over"}
    BY <2>0
  <2>2. future \in {"none", "pending", "set", "cancelled"}
    BY <2>0
  <2>3. data \in {"none", "dialling", "acking", "parked", "cut", "over"}
    BY <2>0
  <2>4. completed \in BOOLEAN
    BY <2>0
  <2>5. s = [r EXCEPT !.forward = forward, !.future = future, !.data = data,
                      !.worker = "none", !.completed = completed]
    BY <1>4 DEF Cancelled
  <2> HIDE DEF forward, future, data, completed
  <2>6. QED
    BY <2>1, <2>2, <2>3, <2>4, <2>5 DEF TunnelRecords
<1>5. QED
  BY <1>1, <1>2, <1>3, <1>4 DEF Move

\* Changing one tunnel by a move is a move of every tunnel.
LEMMA OneMoves ==
  ASSUME TypeOK, NEW t \in Tunnels, NEW s, Move(tun[t], s),
         tun' = [tun EXCEPT ![t] = s]
  PROVE  /\ tun' \in [Tunnels -> TunnelRecords]
         /\ \A u \in Tunnels : Move(tun[u], tun'[u])
<1>1. s \in TunnelRecords
  BY MoveType DEF TypeOK
<1>2. tun \in [Tunnels -> TunnelRecords]
  BY DEF TypeOK
<1>3. ASSUME NEW u \in Tunnels, u # t PROVE Move(tun[u], tun'[u])
  BY <1>2, <1>3 DEF Move, Leaves
<1>4. QED
  BY <1>1, <1>2, <1>3

\* Every step is a move of every tunnel.
LEMMA TunnelsMove ==
  ASSUME TypeOK, [Next]_vars
  PROVE  /\ tun' \in [Tunnels -> TunnelRecords]
         /\ \A u \in Tunnels : Move(tun[u], tun'[u])
<1> DEFINE Goal == /\ tun' \in [Tunnels -> TunnelRecords]
                   /\ \A u \in Tunnels : Move(tun[u], tun'[u])
<1>0. tun \in [Tunnels -> TunnelRecords]
  BY DEF TypeOK
<1>1. ASSUME UNCHANGED tun PROVE Goal
  BY <1>0, <1>1 DEF Move, Leaves
<1>2. ASSUME NEW n, tun' = Abandoned(n) PROVE Goal
  <2>1. ASSUME NEW u \in Tunnels PROVE Leaves(tun[u], tun'[u])
    BY <1>0, <1>2 DEF Abandoned, Leaves
  <2>2. QED
    BY <2>1, <1>2, AbandonedType DEF Move
<1>3. ASSUME NEW t \in Tunnels, NEW s, Move(tun[t], s), tun' = [tun EXCEPT ![t] = s]
      PROVE  Goal
  BY <1>3, OneMoves
<1> HIDE DEF Goal
<1>4. ASSUME NEW c \in Conns, Controlling(c) PROVE Goal
  BY <1>1, <1>2, <1>4
  DEF Controlling, Dial, WorkerLeaves, Heartbeat, Handshake, Reject, Join, Lose
<1>5. ASSUME NEW t \in Tunnels, Tunnelling(t) PROVE Goal
  <2>1. ASSUME NEW n \in Nodes, Forward(t, n) PROVE Goal
    <3>1. CASE Cardinality(Pending(n)) >= ChannelLimit
      <4>1. tun' = [tun EXCEPT ![t] = [@ EXCEPT !.node = n, !.forward = "over"]]
        BY <2>1, <3>1, <1>0 DEF Forward
      <4>2. QED
        BY <1>0, <1>3, <2>1, <4>1 DEF Forward, Move, Refused
    <3>2. CASE ~(Cardinality(Pending(n)) >= ChannelLimit)
      <4>1. PICK w \in {"none", "asked"} :
              tun' = [tun EXCEPT ![t] = [@ EXCEPT !.node = n, !.forward = "waiting",
                                          !.future = "pending", !.worker = w]]
        BY <2>1, <3>2, <1>0 DEF Forward
      <4>2. QED
        BY <1>0, <1>3, <2>1, <4>1 DEF Forward, Move, Asked
    <3>3. QED
      BY <3>1, <3>2
  <2>2. CASE Open(t)
    <3>1. CASE tun' = Abandoned(tun[t].node)
      BY <3>1, <1>2
    <3>2. CASE tun' = [tun EXCEPT ![t].worker = "busy", ![t].data = "dialling"]
      <4>1. tun' = [tun EXCEPT ![t] = [@ EXCEPT !.worker = "busy", !.data = "dialling"]]
        BY <3>2, <1>0
      <4>2. QED
        BY <1>3, <2>2, <4>1 DEF Open, Move, Dials
    <3>3. QED
      BY <2>2, <3>1, <3>2 DEF Open
  <2>3. CASE AcceptData(t)
    BY <1>0, <1>3, <2>3 DEF AcceptData, Move, Acknowledged, TurnedAway
  <2>4. CASE Resolve(t)
    <3>1. CASE tun[t].future = "pending" /\ tun' = [tun EXCEPT ![t].data = "parked", ![t].future = "set"]
      <4>1. tun' = [tun EXCEPT ![t] = [@ EXCEPT !.data = "parked", !.future = "set"]]
        BY <3>1, <1>0
      <4>2. QED
        BY <1>3, <2>4, <3>1, <4>1 DEF Resolve, Move, HandedOver
    <3>2. CASE tun' = [tun EXCEPT ![t].data = "cut"]
      BY <1>0, <1>3, <2>4, <3>2 DEF Resolve, Move, TurnedAway
    <3>3. QED
      BY <2>4, <3>1, <3>2 DEF Resolve
  <2>5. CASE Bridge(t)
    BY <1>0, <1>3, <2>5 DEF Bridge, Move, Bridged
  <2>6. CASE TimeOut(t)
    <3>1. PICK f : /\ f = IF tun[t].future = "pending" THEN "cancelled"
                                                       ELSE tun[t].future
                   /\ tun' = [tun EXCEPT ![t].forward = "over", ![t].future = f]
      BY <1>0, <2>6 DEF TimeOut
    <3>2. tun' = [tun EXCEPT ![t] = [@ EXCEPT !.forward = "over", !.future = f]]
      BY <1>0, <3>1
    <3>3. Spoiled'
      BY <2>6 DEF TimeOut, Fail, Spoiled, Closing, run
    <3>4. GivenUp(tun[t], [tun[t] EXCEPT !.forward = "over", !.future = f])
      BY <2>6, <3>1 DEF TimeOut, GivenUp
    <3>5. QED
      BY <1>3, <3>2, <3>3, <3>4 DEF Move
  <2>7. CASE Unbridge(t)
    <3>1. tun' = [tun EXCEPT ![t] = [@ EXCEPT !.forward = "over", !.completed = TRUE]]
      BY <1>0, <2>7 DEF Unbridge
    <3>2. QED
      BY <1>3, <2>7, <3>1 DEF Unbridge, Move, Ended
  <2>8. CASE Release(t)
    BY <1>0, <1>3, <2>8 DEF Release, Move, Released
  <2>9. CASE WorkerTunnelEnds(t)
    BY <1>0, <1>2, <1>3, <2>9 DEF WorkerTunnelEnds, Move, Leaves
  <2>10. CASE Exchange(t)
    BY <1>1, <2>10 DEF Exchange
  <2>11. QED
    BY <1>5, <2>1, <2>2, <2>3, <2>4, <2>5, <2>6, <2>7, <2>8, <2>9, <2>10
    DEF Tunnelling
<1>6. CASE Stop
  <2>1. ASSUME NEW u \in Tunnels PROVE Cancelled(tun[u], tun'[u])
    BY <1>0, <1>6 DEF Stop, Cancelled
  <2>2. Spoiled'
    BY <1>6 DEF Stop, Spoiled, Closing
  <2>3. \A u \in Tunnels : Move(tun[u], tun'[u])
    BY <2>1, <2>2 DEF Move
  <2>4. \A u \in Tunnels : tun'[u] \in TunnelRecords
    BY <1>0, <2>3, MoveType
  <2>5. QED
    BY <1>6, <2>3, <2>4 DEF Stop, Goal
<1>7. ASSUME Coordinating, ~Stop PROVE Goal
  BY <1>1, <1>7
  DEF Coordinating, AllJoined, JoinFails, Prepared, PreparationFails, ProbeEnds,
      ProbeFails, Judge, Stopped
<1>8. ASSUME UNCHANGED vars PROVE Goal
  BY <1>1, <1>8 DEF vars
<1>9. QED
  BY <1>4, <1>5, <1>6, <1>7, <1>8 DEF Next, Goal

-----------------------------------------------------------------------------
(* What a step may do to one control connection.                           *)

Turn(c, d) ==
  \/ d = c
  \/ /\ c.state = "unused" /\ d.state = "handshake" /\ d.node \in Nodes
  \/ /\ d.node = c.node
     /\ \/ c.state = "handshake" /\ d.state \in {"hello", "over"}
        \/ c.state = "hello" /\ d.state = "over"
        \/ c.state = "hello" /\ d.state = "serving" /\ c.node \in nodes' \ nodes
        \/ c.state = "serving" /\ d.state = "left"
        \/ c.state \in {"serving", "left"} /\ d.state \in {"lost", "over"} /\ Spoiled'

\* Every step turns every connection in one of these ways.
LEMMA ConnectionsTurn ==
  ASSUME TypeOK, [Next]_vars
  PROVE  /\ ctl' \in [Conns -> Controls]
         /\ \A c \in Conns : Turn(ctl[c], ctl'[c])
<1> DEFINE Goal == /\ ctl' \in [Conns -> Controls]
                   /\ \A c \in Conns : Turn(ctl[c], ctl'[c])
<1>0. ctl \in [Conns -> Controls]
  BY DEF TypeOK
<1>1. ASSUME UNCHANGED ctl PROVE Goal
  BY <1>0, <1>1 DEF Turn
<1>2. ASSUME NEW n, ctl' = LeftSessions(n) PROVE Goal
  <2>1. ctl' \in [Conns -> Controls]
    BY <1>2, LeftSessionsType
  <2>2. ASSUME NEW c \in Conns PROVE Turn(ctl[c], ctl'[c])
    <3>1. CASE c \in Session(n)
      BY <1>0, <1>2, <3>1 DEF LeftSessions, Session, Controls, Turn
    <3>2. CASE c \notin Session(n)
      BY <1>0, <1>2, <3>2 DEF LeftSessions, Turn
    <3>3. QED
      BY <3>1, <3>2
  <2>3. QED
    BY <2>1, <2>2
<1>3. ASSUME NEW c \in Conns, NEW d \in Controls, Turn(ctl[c], d),
             ctl' = [ctl EXCEPT ![c] = d]
      PROVE  Goal
  BY <1>0, <1>3 DEF Turn
<1>4. ASSUME NEW c \in Conns, NEW s \in ControlStates,
             ctl' = [ctl EXCEPT ![c].state = s],
             Turn(ctl[c], [ctl[c] EXCEPT !.state = s])
      PROVE  Goal
  <2>1. [ctl[c] EXCEPT !.state = s] \in Controls
    BY <1>0 DEF Controls
  <2>2. ctl' = [ctl EXCEPT ![c] = [ctl[c] EXCEPT !.state = s]]
    BY <1>4
  <2>3. QED
    BY <1>3, <1>4, <2>1, <2>2
<1> HIDE DEF Goal
<1>5. ASSUME NEW c \in Conns, Controlling(c) PROVE Goal
  <2> DEFINE To(s) == [ctl[c] EXCEPT !.state = s]
  <2>0. ASSUME NEW s PROVE To(s).state = s /\ To(s).node = ctl[c].node
    BY <1>0 DEF Controls
  <2> HIDE DEF To
  <2>1. ASSUME NEW n \in Nodes, Dial(c, n) PROVE Goal
    <3> DEFINE d == [node |-> n, state |-> "handshake"]
    <3>1. d \in Controls
      BY DEF Controls, ControlStates
    <3>2. Turn(ctl[c], d) /\ ctl' = [ctl EXCEPT ![c] = d]
      BY <2>1 DEF Dial, Turn
    <3>3. QED
      BY <1>3, <3>1, <3>2
  <2>2. CASE WorkerLeaves(c)
    <3>1. Turn(ctl[c], To("left"))
      BY <2>0, <2>2 DEF WorkerLeaves, Turn
    <3>2. QED
      BY <1>4, <2>2, <3>1 DEF WorkerLeaves, To, ControlStates
  <2>3. CASE Heartbeat(c)
    BY <1>1, <2>3 DEF Heartbeat
  <2>4. CASE Handshake(c)
    <3>1. PICK s \in {"hello", "over"} : ctl' = [ctl EXCEPT ![c].state = s]
      BY <2>4 DEF Handshake
    <3>2. Turn(ctl[c], To(s))
      BY <2>0, <2>4 DEF Handshake, Turn
    <3>3. QED
      BY <1>4, <3>1, <3>2 DEF To, ControlStates
  <2>5. CASE Reject(c)
    <3>1. Turn(ctl[c], To("over"))
      BY <2>0, <2>5 DEF Reject, Turn
    <3>2. QED
      BY <1>4, <2>5, <3>1 DEF Reject, To, ControlStates
  <2>6. CASE Join(c)
    <3>1. Turn(ctl[c], To("serving"))
      BY <2>0, <2>6 DEF Join, Turn
    <3>2. QED
      BY <1>4, <2>6, <3>1 DEF Join, To, ControlStates
  <2>7. CASE Lose(c)
    <3>1. Spoiled'
      BY <2>7 DEF Lose, Fail, Spoiled, Closing, run
    <3>2. Turn(ctl[c], To("lost"))
      BY <2>0, <2>7, <3>1 DEF Lose, Turn
    <3>3. QED
      BY <1>4, <2>7, <3>2 DEF Lose, To, ControlStates
  <2>8. QED
    BY <1>5, <2>1, <2>2, <2>3, <2>4, <2>5, <2>6, <2>7 DEF Controlling
<1>6. ASSUME NEW t \in Tunnels, Tunnelling(t) PROVE Goal
  BY <1>1, <1>2, <1>6
  DEF Tunnelling, Forward, Open, AcceptData, Resolve, Bridge, TimeOut, Unbridge,
      Release, WorkerTunnelEnds, Exchange, LeftSessions
<1>7. ASSUME Stop PROVE Goal
  <2>0. Spoiled'
    BY <1>7 DEF Stop, Spoiled, Closing
  <2>1. ASSUME NEW c \in Conns
        PROVE  ctl'[c] \in Controls /\ Turn(ctl[c], ctl'[c])
    <3>1. CASE ctl[c].state \in {"hello", "serving", "left"}
      <4>1. ctl'[c] = [ctl[c] EXCEPT !.state = "over"]
        BY <1>7, <3>1 DEF Stop
      <4>2. /\ ctl'[c] \in Controls
            /\ ctl'[c].state = "over" /\ ctl'[c].node = ctl[c].node
        BY <1>0, <4>1 DEF Controls, ControlStates
      <4>3. QED
        BY <2>0, <3>1, <4>2 DEF Turn
    <3>2. CASE ctl[c].state \notin {"hello", "serving", "left"}
      BY <1>0, <1>7, <3>2 DEF Stop, Turn
    <3>3. QED
      BY <3>1, <3>2
  <2>2. QED
    BY <1>7, <2>1 DEF Stop, Goal
<1>8. ASSUME Coordinating, ~Stop PROVE Goal
  BY <1>1, <1>8
  DEF Coordinating, AllJoined, JoinFails, Prepared, PreparationFails, ProbeEnds,
      ProbeFails, Judge, Stopped
<1>9. ASSUME UNCHANGED vars PROVE Goal
  BY <1>1, <1>9 DEF vars
<1>10. QED
  BY <1>5, <1>6, <1>7, <1>8, <1>9 DEF Next, Goal

-----------------------------------------------------------------------------
(* The type invariant.                                                     *)

ScalarTypes ==
  /\ phase \in Phases /\ verdict \in {"none", "PASS", "FAIL"}
  /\ failure \in BOOLEAN
  /\ nodes \subseteq Nodes
  /\ bytes \subseteq Nodes /\ computed \subseteq Nodes /\ fresh \subseteq Nodes
  /\ stats \in [Nodes -> 0..2] /\ before \in [Nodes -> 0..2]

\* A counter is what earlier runs left plus what this one added.
LEMMA GraphCallsType ==
  ASSUME NEW n
  PROVE  /\ GraphCalls(n) \in 0..2
         /\ n \in computed <=> GraphCalls(n) > (IF n \in Earlier THEN 1 ELSE 0)
  BY DEF GraphCalls

\* Everything that is not a connection or a tunnel keeps its type.
LEMMA ScalarsKeepType == TypeInv /\ [Next]_vars => ScalarTypes'
<1> SUFFICES ASSUME TypeInv, [Next]_vars PROVE ScalarTypes'
  OBVIOUS
<1> USE DEF ScalarTypes
<1>0. ScalarTypes
  BY DEF TypeInv, TypeOK
<1>1. ASSUME NEW c \in Conns, Controlling(c) PROVE ScalarTypes'
  <2>1. CASE WorkerLeaves(c) \/ Handshake(c) \/ Reject(c) \/ \E n \in Nodes : Dial(c, n)
    BY <1>0, <2>1 DEF WorkerLeaves, Handshake, Reject, Dial, run, telemetry
  <2>2. CASE Join(c)
    <3>1. ctl[c].node \in Nodes
      BY <2>2 DEF TypeInv, Named, Join
    <3>2. QED
      BY <1>0, <2>2, <3>1 DEF Join, run, telemetry
  <2>3. CASE Heartbeat(c)
    <3>1. ctl[c].node \in Nodes
      BY <2>3 DEF TypeInv, Named, Heartbeat
    <3>2. stats' \in [Nodes -> 0..2]
      BY <1>0, <2>3, <3>1, GraphCallsType DEF Heartbeat
    <3>3. fresh' \subseteq Nodes
      BY <1>0, <2>3, <3>1 DEF Heartbeat
    <3>4. QED
      BY <1>0, <2>3, <3>2, <3>3 DEF Heartbeat, run
  <2>4. CASE Lose(c)
    BY <1>0, <2>4 DEF Lose, Fail, run, telemetry
  <2>5. QED
    BY <1>1, <2>1, <2>2, <2>3, <2>4 DEF Controlling
<1>2. ASSUME NEW t \in Tunnels, Tunnelling(t) PROVE ScalarTypes'
  <2>1. ASSUME failure' = failure \/ Fail,
               UNCHANGED <<run, nodes, bytes, telemetry>>
        PROVE  ScalarTypes'
    BY <1>0, <2>1 DEF Fail, run, telemetry
  <2>2. CASE Exchange(t)
    <3>1. tun[t].node \in Nodes
      BY <2>2 DEF TypeInv, Named, Exchange
    <3>2. bytes' \subseteq Nodes /\ computed' \subseteq Nodes
      BY <1>0, <2>2, <3>1 DEF Exchange
    <3>3. QED
      BY <1>0, <2>2, <3>2 DEF Exchange, run
  <2>3. CASE ~Exchange(t)
    BY <1>2, <2>1, <2>3
    DEF Tunnelling, Forward, Open, AcceptData, Resolve, Bridge, TimeOut, Unbridge,
        Release, WorkerTunnelEnds
  <2>4. QED
    BY <2>2, <2>3
<1>3. CASE Coordinating
  <2>1. CASE Prepared
    BY <1>0, <2>1 DEF Prepared, Phases
  <2>2. CASE ~Prepared
    BY <1>0, <1>3, <2>2
    DEF Coordinating, AllJoined, JoinFails, PreparationFails, ProbeEnds, ProbeFails,
        Judge, Stop, Stopped, Decide, Phases, telemetry
  <2>3. QED
    BY <2>1, <2>2
<1>4. CASE UNCHANGED vars
  BY <1>0, <1>4 DEF vars, run, telemetry
<1>5. QED
  BY <1>1, <1>2, <1>3, <1>4 DEF Next

\* A tunnel that is opened or asked for names a worker, and keeps it.
LEMMA MoveNamed ==
  ASSUME NEW r \in TunnelRecords, NEW s, Move(r, s),
         r.forward # "unused" \/ r.worker # "none" => r.node \in Nodes,
         s.forward # "unused" \/ s.worker # "none"
  PROVE  s.node \in Nodes
<1>1. CASE Leaves(r, s) \/ Refused(r, s) \/ Asked(r, s) \/ Dials(r, s)
  BY <1>1 DEF Leaves, Refused, Asked, Dials, TunnelRecords
<1>2. CASE TurnedAway(r, s) \/ HandedOver(r, s) \/ Bridged(r, s) \/ Acknowledged(r, s)
  BY <1>2 DEF Acknowledged, TurnedAway, HandedOver, Bridged, TunnelRecords
<1>3. CASE Ended(r, s) \/ Released(r, s) \/ GivenUp(r, s)
  BY <1>3 DEF Ended, Released, GivenUp, TunnelRecords
<1>4. CASE Cancelled(r, s)
  BY <1>4 DEF Cancelled, TunnelRecords
<1>5. QED
  BY <1>1, <1>2, <1>3, <1>4 DEF Move

\* Types are kept by every step.
LEMMA TypesKept == TypeInv /\ [Next]_vars => TypeInv'
<1> SUFFICES ASSUME TypeInv, [Next]_vars PROVE TypeInv'
  OBVIOUS
<1>0. TypeOK
  BY DEF TypeInv
<1>1. \A c \in Conns : ctl'[c].state # "unused" => ctl'[c].node \in Nodes
  <2> SUFFICES ASSUME NEW c \in Conns, ctl'[c].state # "unused"
               PROVE  ctl'[c].node \in Nodes
    OBVIOUS
  <2>1. Turn(ctl[c], ctl'[c])
    BY <1>0, ConnectionsTurn
  <2>2. ctl[c].state # "unused" => ctl[c].node \in Nodes
    BY DEF TypeInv, Named
  <2>3. QED
    BY <2>1, <2>2 DEF Turn
<1>2. \A t \in Tunnels : tun'[t].forward # "unused" \/ tun'[t].worker # "none"
                           => tun'[t].node \in Nodes
  <2> SUFFICES ASSUME NEW t \in Tunnels,
                      tun'[t].forward # "unused" \/ tun'[t].worker # "none"
               PROVE  tun'[t].node \in Nodes
    OBVIOUS
  <2>1. Move(tun[t], tun'[t]) /\ tun[t] \in TunnelRecords
    BY <1>0, TunnelsMove DEF TypeOK
  <2>2. tun[t].forward # "unused" \/ tun[t].worker # "none" => tun[t].node \in Nodes
    BY DEF TypeInv, Named
  <2>3. QED
    BY <2>1, <2>2, MoveNamed
<1>3. Named'
  BY <1>1, <1>2 DEF Named, Conns, Tunnels
<1>4. TypeOK'
  BY <1>0, ConnectionsTurn, TunnelsMove, ScalarsKeepType
  DEF TypeOK, ScalarTypes, Conns, Tunnels, Controls, TunnelRecords
<1>5. QED
  BY <1>3, <1>4 DEF TypeInv

\* The types hold of every run.
LEMMA TypeInvariant == Spec => []TypeInv
  BY InitTypes, TypesKept, PTL DEF Spec

\* The relay, its tunnels and the coordinator are well typed, for any workers.
THEOREM RelayTypeCorrect == Spec => []TypeOK
  BY TypeInvariant, PTL DEF TypeInv

-----------------------------------------------------------------------------
(* Tunnels: HandOverIsKept.                                                *)

\* What the fields of a tunnel say of each other.  The second conjunct of
\* HandOverIsKept rests on it: a future that is set has its data connection,
\* and nothing releases that before the forward has ended.
Consistent(r) ==
  /\ r.forward = "unused" => r.future = "none" /\ r.data = "none" /\ r.worker = "none"
  /\ r.worker = "asked" => r.data = "none"
  /\ r.data \in {"none", "dialling", "acking"} => r.future # "set"
  /\ r.completed => r.forward = "over"
  /\ r.forward = "over" => r.future # "pending"
  /\ r.forward = "bridged" => r.data = "parked" /\ r.future = "set"
  /\ r.forward = "waiting" /\ r.future = "set" => r.data = "parked"

\* A tunnel that was given up spoils the run.
Accounted(r, spoiled) ==
  /\ r.data = "parked" /\ ~r.completed => r.forward \in {"waiting", "bridged"} \/ spoiled
  /\ r.future = "cancelled" => spoiled

TunnelInv == \A t \in Tunnels : Consistent(tun[t]) /\ Accounted(tun[t], Spoiled)

\* A move keeps a tunnel consistent.
LEMMA MoveConsistent ==
  ASSUME NEW r \in TunnelRecords, NEW s, Move(r, s), Consistent(r)
  PROVE  Consistent(s)
<1> USE DEF Consistent
<1>1. CASE Leaves(r, s) \/ Refused(r, s)
  BY <1>1 DEF Leaves, Refused, TunnelRecords
<1>2. CASE Asked(r, s)
  BY <1>2 DEF Asked, TunnelRecords
<1>3. CASE Dials(r, s) \/ Acknowledged(r, s)
  BY <1>3 DEF Dials, Acknowledged, TunnelRecords
<1>4. CASE TurnedAway(r, s) \/ HandedOver(r, s)
  BY <1>4 DEF TurnedAway, HandedOver, TunnelRecords
<1>5. CASE Bridged(r, s) \/ Ended(r, s) \/ Released(r, s)
  BY <1>5 DEF Bridged, Ended, Released, TunnelRecords
<1>6. CASE GivenUp(r, s)
  BY <1>6 DEF GivenUp, TunnelRecords
<1>7. CASE Cancelled(r, s)
  BY <1>7 DEF Cancelled, TunnelRecords
<1>8. QED
  BY <1>1, <1>2, <1>3, <1>4, <1>5, <1>6, <1>7 DEF Move

\* A move leaves nothing behind that the failure of the run does not tell of.
LEMMA MoveAccounted ==
  ASSUME NEW r \in TunnelRecords, NEW s, Move(r, s),
         Consistent(r), Accounted(r, Spoiled), Spoiled => Spoiled'
  PROVE  Accounted(s, Spoiled')
<1> USE DEF Accounted, Consistent
<1>1. CASE Leaves(r, s) \/ Refused(r, s)
  BY <1>1 DEF Leaves, Refused, TunnelRecords
<1>2. CASE Asked(r, s)
  BY <1>2 DEF Asked, TunnelRecords
<1>3. CASE Dials(r, s) \/ Acknowledged(r, s)
  BY <1>3 DEF Dials, Acknowledged, TunnelRecords
<1>4. CASE TurnedAway(r, s) \/ Released(r, s)
  BY <1>4 DEF TurnedAway, Released, TunnelRecords
<1>5. CASE HandedOver(r, s)
  <2>1. ~Accounted(s, Spoiled') => r.forward \notin {"waiting", "bridged"}
    BY <1>5 DEF HandedOver, TunnelRecords
  <2>2. r.forward # "unused"
    BY <1>5 DEF HandedOver
  <2>3. r.forward # "over"
    BY <1>5 DEF HandedOver
  <2>4. QED
    BY <2>1, <2>2, <2>3 DEF TunnelRecords
<1>6. CASE Bridged(r, s) \/ Ended(r, s)
  BY <1>6 DEF Bridged, Ended, TunnelRecords
<1>7. CASE (GivenUp(r, s) \/ Cancelled(r, s)) /\ Spoiled'
  BY <1>7
<1>8. QED
  BY <1>1, <1>2, <1>3, <1>4, <1>5, <1>6, <1>7 DEF Move

\* A run that failed or is over stays so.
LEMMA SpoiledStays == TypeInv /\ [Next]_vars => (Spoiled => Spoiled')
<1> SUFFICES ASSUME TypeInv, [Next]_vars, Spoiled PROVE Spoiled'
  OBVIOUS
<1> USE DEF Spoiled, Closing
<1>1. ASSUME NEW c \in Conns, Controlling(c) PROVE Spoiled'
  BY <1>1
  DEF Controlling, Dial, WorkerLeaves, Heartbeat, Handshake, Reject, Join, Lose, Fail, run
<1>2. ASSUME NEW t \in Tunnels, Tunnelling(t) PROVE Spoiled'
  BY <1>2
  DEF Tunnelling, Forward, Open, AcceptData, Resolve, Bridge, TimeOut, Unbridge,
      Release, WorkerTunnelEnds, Exchange, Fail, run
<1>3. CASE Coordinating
  BY <1>3
  DEF Coordinating, AllJoined, JoinFails, Prepared, PreparationFails, ProbeEnds,
      ProbeFails, Judge, Stop, Stopped, Decide
<1>4. CASE UNCHANGED vars
  BY <1>4 DEF vars, run
<1>5. QED
  BY <1>1, <1>2, <1>3, <1>4 DEF Next

\* The invariant of the tunnels holds of every run.
LEMMA TunnelInvariant == Spec => [](TypeInv /\ TunnelInv)
<1>1. Init => TunnelInv
  BY DEF Init, TunnelInv, Consistent, Accounted
<1>2. TypeInv /\ TunnelInv /\ [Next]_vars => TunnelInv'
  <2> SUFFICES ASSUME TypeInv, TunnelInv, [Next]_vars, NEW t \in Tunnels
               PROVE  Consistent(tun'[t]) /\ Accounted(tun'[t], Spoiled')
    BY DEF TunnelInv, Tunnels
  <2>1. Move(tun[t], tun'[t]) /\ tun[t] \in TunnelRecords
    BY TunnelsMove DEF TypeInv, TypeOK
  <2>2. Consistent(tun[t]) /\ Accounted(tun[t], Spoiled)
    BY DEF TunnelInv
  <2>3. Spoiled => Spoiled'
    BY SpoiledStays
  <2>4. QED
    BY <2>1, <2>2, <2>3, MoveConsistent, MoveAccounted
<1>3. QED
  BY <1>1, <1>2, TypeInvariant, PTL DEF Spec

\* A data connection that is held is held by a forward that will release it, or
\* the run has failed and stop will, however many tunnels race their time-outs.
THEOREM HandOverIsKeptHolds == Spec => []HandOverIsKept
<1>1. TunnelInv => HandOverIsKept
  BY DEF TunnelInv, HandOverIsKept, Consistent, Accounted, Spoiled
<1>2. QED
  BY <1>1, TunnelInvariant, PTL

-----------------------------------------------------------------------------
(* Sessions and the verdict: OneSessionPerWorker and PassIsClean.          *)

\* A session that the relay holds is of a worker in the table, which is what
\* refuses a second one; a record without its session spoils the run; and once
\* all have joined the table stays complete.
SessionInv ==
  /\ \A c, d \in Conns : \A n \in Nodes : Holds(c, n) /\ Holds(d, n) => c = d
  /\ \A c \in Conns : \A n \in Nodes : Holds(c, n) => n \in nodes
  /\ \A n \in nodes : Spoiled \/ \E c \in Conns : Holds(c, n)
  /\ \A c \in Conns : ctl[c].state = "lost" => Spoiled
  /\ phase \in {"preparing", "split", "settling"} => nodes = Nodes

\* The table only grows, by the worker of the connection that joins.
LEMMA TableGrows ==
  ASSUME TypeInv, [Next]_vars
  PROVE  nodes' = nodes \/ \E c \in Conns : Join(c)
<1>1. ASSUME NEW c \in Conns, Controlling(c), ~Join(c) PROVE nodes' = nodes
  BY <1>1 DEF Controlling, Dial, WorkerLeaves, Heartbeat, Handshake, Reject, Lose
<1>2. ASSUME NEW t \in Tunnels, Tunnelling(t) PROVE nodes' = nodes
  BY <1>2
  DEF Tunnelling, Forward, Open, AcceptData, Resolve, Bridge, TimeOut, Unbridge,
      Release, WorkerTunnelEnds, Exchange
<1>3. ASSUME Coordinating PROVE nodes' = nodes
  BY <1>3
  DEF Coordinating, AllJoined, JoinFails, Prepared, PreparationFails, ProbeEnds,
      ProbeFails, Judge, Stop, Stopped
<1>4. ASSUME UNCHANGED vars PROVE nodes' = nodes
  BY <1>4 DEF vars
<1>5. QED
  BY <1>1, <1>2, <1>3, <1>4 DEF Next

\* A connection that begins to serve is of a worker that was not in the table,
\* and no other does at that moment.
LEMMA NewHolder ==
  ASSUME TypeInv, [Next]_vars, NEW c \in Conns, NEW n \in Nodes,
         Holds(c, n)', ~Holds(c, n)
  PROVE  /\ n \in nodes' \ nodes
         /\ \A d \in Conns : d # c /\ Holds(d, n)' => Holds(d, n)
<1>0. /\ \A d \in Conns : Turn(ctl[d], ctl'[d])
      /\ ctl \in [Conns -> Controls]
  BY ConnectionsTurn DEF TypeInv, TypeOK
<1>1. n \in nodes' \ nodes
  BY <1>0 DEF Turn, Holds
<1>2. PICK e \in Conns : Join(e)
  BY <1>1, TableGrows
<1>3. \A d \in Conns : d # e => ctl'[d] = ctl[d]
  BY <1>0, <1>2 DEF Join
<1>4. e = c
  BY <1>3 DEF Holds
<1>5. QED
  BY <1>1, <1>3, <1>4 DEF Holds

\* A session that is held stays held, or the run is spoiled.
LEMMA HolderStays ==
  ASSUME TypeInv, [Next]_vars, NEW c \in Conns, NEW n \in Nodes, Holds(c, n)
  PROVE  Holds(c, n)' \/ Spoiled'
<1>1. Turn(ctl[c], ctl'[c])
  BY ConnectionsTurn DEF TypeInv
<1>2. QED
  BY <1>1 DEF Turn, Holds

\* A run goes on to prepare, split and settle only with all workers joined.
LEMMA StageNeedsAll ==
  ASSUME TypeInv, [Next]_vars, phase' \in {"preparing", "split", "settling"}
  PROVE  phase \in {"preparing", "split", "settling"} \/ nodes = Nodes
<1>1. ASSUME NEW c \in Conns, Controlling(c) PROVE phase' = phase
  BY <1>1
  DEF Controlling, Dial, WorkerLeaves, Heartbeat, Handshake, Reject, Join, Lose, run
<1>2. ASSUME NEW t \in Tunnels, Tunnelling(t) PROVE phase' = phase
  BY <1>2
  DEF Tunnelling, Forward, Open, AcceptData, Resolve, Bridge, TimeOut, Unbridge,
      Release, WorkerTunnelEnds, Exchange, run
<1>3. CASE Coordinating
  BY <1>3
  DEF Coordinating, AllJoined, JoinFails, Prepared, PreparationFails, ProbeEnds,
      ProbeFails, Judge, Stop, Stopped, Decide
<1>4. CASE UNCHANGED vars
  BY <1>4 DEF vars, run
<1>5. QED
  BY <1>1, <1>2, <1>3, <1>4 DEF Next

\* The invariant of the sessions holds of every run.
LEMMA SessionInvariant == Spec => [](TypeInv /\ SessionInv)
<1>1. Init => SessionInv
  BY DEF Init, SessionInv, Holds
<1>2. TypeInv /\ SessionInv /\ [Next]_vars => SessionInv'
  <2> SUFFICES ASSUME TypeInv, SessionInv, [Next]_vars PROVE SessionInv'
    OBVIOUS
  <2>0. nodes \subseteq nodes' /\ nodes' \subseteq Nodes
    <3>1. nodes' \subseteq Nodes
      BY TypesKept DEF TypeInv, TypeOK
    <3>2. QED
      BY <3>1, TableGrows DEF Join
  <2>1. \A c \in Conns : \A n \in Nodes : Holds(c, n)' => n \in nodes'
    BY <2>0, NewHolder DEF SessionInv
  <2>2. ASSUME NEW c \in Conns, NEW d \in Conns, NEW n \in Nodes,
               Holds(c, n)', Holds(d, n)'
        PROVE  c = d
    <3>1. CASE Holds(c, n) /\ Holds(d, n)
      BY <3>1 DEF SessionInv
    <3>2. CASE ~Holds(c, n)
      BY <2>2, <3>2, NewHolder DEF SessionInv
    <3>3. CASE ~Holds(d, n)
      BY <2>2, <3>3, NewHolder DEF SessionInv
    <3>4. QED
      BY <3>1, <3>2, <3>3
  <2>3. ASSUME NEW n \in nodes' PROVE Spoiled' \/ \E c \in Conns : Holds(c, n)'
    <3>1. CASE n \in nodes
      <4>1. n \in Nodes
        BY <2>0
      <4>2. CASE Spoiled
        BY <4>2, SpoiledStays
      <4>3. CASE ~Spoiled
        <5>1. PICK c \in Conns : Holds(c, n)
          BY <3>1, <4>3 DEF SessionInv
        <5>2. QED
          BY <4>1, <5>1, HolderStays
      <4>4. QED
        BY <4>2, <4>3
    <3>2. CASE n \notin nodes
      <4>1. PICK c \in Conns : Join(c)
        BY <2>3, <3>2, TableGrows
      <4>2. ctl[c].node = n
        BY <2>3, <3>2, <4>1 DEF Join
      <4>3. Holds(c, n)'
        BY <4>1, <4>2 DEF Join, Holds, TypeInv, TypeOK, Controls
      <4>4. QED
        BY <4>3
    <3>3. QED
      BY <3>1, <3>2
  <2>4. ASSUME NEW c \in Conns, ctl'[c].state = "lost" PROVE Spoiled'
    <3>1. Turn(ctl[c], ctl'[c])
      BY ConnectionsTurn DEF TypeInv
    <3>2. CASE ctl[c].state = "lost"
      BY <3>2, SpoiledStays DEF SessionInv
    <3>3. CASE ctl[c].state # "lost"
      BY <2>4, <3>1, <3>3 DEF Turn
    <3>4. QED
      BY <3>2, <3>3
  <2>5. phase' \in {"preparing", "split", "settling"} => nodes' = Nodes
    BY <2>0, StageNeedsAll DEF SessionInv
  <2>6. QED
    BY <2>1, <2>2, <2>3, <2>4, <2>5 DEF SessionInv, Conns
<1>3. QED
  BY <1>1, <1>2, TypeInvariant, PTL DEF Spec

\* A worker of the table has one session, the one it joined with, until the run
\* has failed or is over.
THEOREM OneSessionPerWorkerHolds == Spec => []OneSessionPerWorker
<1>1. SessionInv => OneSessionPerWorker
  BY DEF SessionInv, OneSessionPerWorker, Spoiled
<1>2. QED
  BY <1>1, SessionInvariant, PTL

\* Only Judge passes a run, and it sees no failure.
LEMMA PassesAsJudged ==
  ASSUME TypeInv, [Next]_vars, Passes
  PROVE  /\ phase = "settling" /\ ~failure
         /\ \A n \in Nodes : Evidence(n)
<1>1. ASSUME NEW c \in Conns, Controlling(c) PROVE verdict' = verdict
  BY <1>1
  DEF Controlling, Dial, WorkerLeaves, Heartbeat, Handshake, Reject, Join, Lose, run
<1>2. ASSUME NEW t \in Tunnels, Tunnelling(t) PROVE verdict' = verdict
  BY <1>2
  DEF Tunnelling, Forward, Open, AcceptData, Resolve, Bridge, TimeOut, Unbridge,
      Release, WorkerTunnelEnds, Exchange, run
<1>3. ASSUME Coordinating, ~Judge PROVE ~Passes
  BY <1>3
  DEF Coordinating, AllJoined, JoinFails, Prepared, PreparationFails, ProbeEnds,
      ProbeFails, Stop, Stopped, Decide, Passes
<1>4. ASSUME UNCHANGED vars PROVE verdict' = verdict
  BY <1>4 DEF vars, run
<1>5. Judge
  BY <1>1, <1>2, <1>3, <1>4 DEF Next, Passes
<1>6. QED
  BY <1>5 DEF Judge, Decide, Passes

\* A PASS is recorded only of a run that all workers joined and none has left,
\* and in which no tunnel was given up.
THEOREM PassIsCleanHolds == Spec => PassIsClean
<1>1. ASSUME TypeInv, SessionInv, TunnelInv, [Next]_vars, Passes
      PROVE  /\ \A n \in Nodes : \E c \in Conns : Holds(c, n)
             /\ \A c \in Conns : ctl[c].state # "lost"
             /\ \A t \in Tunnels : tun[t].future # "cancelled"
  <2>1. ~Spoiled /\ nodes = Nodes
    BY <1>1, PassesAsJudged DEF Spoiled, Closing, SessionInv
  <2>2. QED
    BY <1>1, <2>1 DEF SessionInv, TunnelInv, Accounted
<1>2. TypeInv /\ SessionInv /\ TunnelInv /\ [Next]_vars
        => [Passes => /\ \A n \in Nodes : \E c \in Conns : Holds(c, n)
                      /\ \A c \in Conns : ctl[c].state # "lost"
                      /\ \A t \in Tunnels : tun[t].future # "cancelled"]_vars
  BY <1>1
<1>3. QED
  BY <1>2, SessionInvariant, TunnelInvariant, PTL DEF Spec, PassIsClean

-----------------------------------------------------------------------------
(* The counters: CreditIsForThisRun.                                       *)

\* What the native counter of a worker stood at before this run.
Left(n) == IF n \in Earlier THEN 1 ELSE 0

\* Nothing is computed for the run before the counters are taken down, so what
\* has been heard until then is what earlier runs left; and a counter beyond
\* that is of a worker that computed for this one.
CreditInv ==
  /\ phase \in {"joining", "preparing"} =>
       computed = {} /\ \A n \in fresh : stats[n] = Left(n)
  /\ phase \in {"split", "settling"} => \A n \in fresh : before[n] = Left(n)
  /\ \A n \in Nodes : stats[n] > Left(n) => n \in computed

\* The invariant of the counters holds of every run.
LEMMA CreditInvariant == Spec => [](TypeInv /\ CreditInv)
<1>1. Init => CreditInv
  BY DEF Init, CreditInv, Left
<1>2. TypeInv /\ CreditInv /\ [Next]_vars => CreditInv'
  <2> SUFFICES ASSUME TypeInv, CreditInv, [Next]_vars PROVE CreditInv'
    OBVIOUS
  <2>0. /\ stats \in [Nodes -> 0..2] /\ before \in [Nodes -> 0..2]
        /\ fresh \subseteq Nodes
    BY DEF TypeInv, TypeOK
  <2>1. ASSUME UNCHANGED <<phase, telemetry>> PROVE CreditInv'
    BY <2>1 DEF CreditInv, telemetry
  <2>2. ASSUME UNCHANGED telemetry,
               phase' \in {"closing", "draining", "done"} \/
               (phase = "joining" /\ phase' = "preparing") \/
               (phase = "split" /\ phase' = "settling")
        PROVE  CreditInv'
    BY <2>2 DEF CreditInv, telemetry
  <2>3. ASSUME NEW c \in Conns, Heartbeat(c) PROVE CreditInv'
    <3> DEFINE n == ctl[c].node
    <3>0. n \in Nodes
      BY <2>3 DEF Heartbeat, TypeInv, Named
    <3>1. /\ stats' = [stats EXCEPT ![n] = GraphCalls(n)]
          /\ UNCHANGED <<phase, computed, before>>
      BY <2>3 DEF Heartbeat, run
    <3>2. phase \in {"joining", "preparing"} => fresh' = fresh \cup {n}
      BY <2>3 DEF Heartbeat
    <3>3. phase \notin {"joining", "preparing"} => fresh' = fresh
      BY <2>3 DEF Heartbeat
    <3> HIDE DEF n
    <3>4. /\ \A m \in Nodes \ {n} : stats'[m] = stats[m]
          /\ stats'[n] = GraphCalls(n)
      BY <2>0, <3>0, <3>1
    <3>5. phase \in {"joining", "preparing"} => GraphCalls(n) = Left(n)
      BY DEF CreditInv, GraphCalls, Left
    <3>6. GraphCalls(n) > Left(n) => n \in computed
      BY GraphCallsType DEF Left
    <3>7. phase' \in {"joining", "preparing"} =>
            computed' = {} /\ \A m \in fresh' : stats'[m] = Left(m)
      BY <2>0, <3>1, <3>2, <3>4, <3>5 DEF CreditInv
    <3>8. phase' \in {"split", "settling"} => \A m \in fresh' : before'[m] = Left(m)
      BY <3>1, <3>3 DEF CreditInv
    <3>9. \A m \in Nodes : stats'[m] > Left(m) => m \in computed'
      BY <3>1, <3>4, <3>6 DEF CreditInv
    <3>10. QED
      BY <3>7, <3>8, <3>9 DEF CreditInv, Left
  <2>4. ASSUME NEW t \in Tunnels, Exchange(t) PROVE CreditInv'
    <3>1. /\ phase = "split" /\ phase' = phase /\ computed \subseteq computed'
          /\ UNCHANGED <<stats, before, fresh>>
      BY <2>4 DEF Exchange, run
    <3>2. QED
      BY <3>1 DEF CreditInv
  <2>5. ASSUME Prepared PROVE CreditInv'
    <3>1. /\ phase = "preparing" /\ phase' = "split" /\ before' = stats
          /\ UNCHANGED <<computed, stats, fresh>>
      BY <2>5 DEF Prepared
    <3>2. QED
      BY <3>1 DEF CreditInv
  <2>6. ASSUME NEW c \in Conns, Controlling(c), ~Heartbeat(c) PROVE CreditInv'
    BY <2>1, <2>6
    DEF Controlling, Dial, WorkerLeaves, Handshake, Reject, Join, Lose, run
  <2>7. ASSUME NEW t \in Tunnels, Tunnelling(t), ~Exchange(t) PROVE CreditInv'
    BY <2>1, <2>7
    DEF Tunnelling, Forward, Open, AcceptData, Resolve, Bridge, TimeOut, Unbridge,
        Release, WorkerTunnelEnds, run
  <2>8. ASSUME Coordinating, ~Prepared PROVE CreditInv'
    BY <2>2, <2>8
    DEF Coordinating, AllJoined, JoinFails, PreparationFails, ProbeEnds, ProbeFails,
        Judge, Stop, Stopped, Decide
  <2>9. ASSUME UNCHANGED vars PROVE CreditInv'
    BY <2>1, <2>9 DEF vars, run
  <2>10. QED
    BY <2>3, <2>4, <2>5, <2>6, <2>7, <2>8, <2>9 DEF Next
<1>3. QED
  BY <1>1, <1>2, TypeInvariant, PTL DEF Spec

\* A PASS credits every worker heard from in time with graphs of this run.
THEOREM CreditIsForThisRunHolds == Spec => CreditIsForThisRun
<1>1. ASSUME TypeInv, CreditInv, [Next]_vars, Passes PROVE fresh \subseteq computed
  <2> SUFFICES ASSUME NEW n \in fresh PROVE n \in computed
    OBVIOUS
  <2>1. n \in Nodes /\ stats[n] > before[n]
    BY <1>1, PassesAsJudged DEF Evidence, TypeInv, TypeOK
  <2>2. before[n] = Left(n)
    BY <1>1, PassesAsJudged DEF CreditInv
  <2>3. QED
    BY <1>1, <2>1, <2>2 DEF CreditInv
<1>2. TypeInv /\ CreditInv /\ [Next]_vars => [Passes => fresh \subseteq computed]_vars
  BY <1>1
<1>3. QED
  BY <1>2, CreditInvariant, PTL DEF Spec, CreditIsForThisRun
=============================================================================
