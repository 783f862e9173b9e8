-------------------------- MODULE HubServerProofs ---------------------------
(***************************************************************************)
(* Proofs about the hub's listener and connections, for any number of      *)
(* devices, slots, overlapping starts and stops.                           *)
(***************************************************************************)
EXTENDS HubServer, FiniteSetTheorems, TLAPS

USE HubAssumption

-----------------------------------------------------------------------------
\* connections is exactly the set of the sockets that are open, which is finite, and all
\* of them are of the present listener, whose state is running or about to be stopped.
OpenIsTracked == connections = Stage("reading") \union Stage("answered")
SlotsKept == IsFiniteSet(connections) /\ Cardinality(connections) <= MaxConnections

IInv == TypeOK /\ OpenIsTracked /\ SlotsKept /\ NoOldConnection /\ RunningListens

LEMMA InitSafe == Init => IInv
<1> SUFFICES ASSUME Init PROVE IInv
  OBVIOUS
<1>1. TypeOK
  BY DEF Init, TypeOK, SocketStates, Closed
<1>2. IsFiniteSet(connections) /\ Cardinality(connections) = 0
  BY FS_EmptySet DEF Init
<1> QED
  BY <1>1, <1>2 DEF Init, IInv, OpenIsTracked, SlotsKept, NoOldConnection, RunningListens, Stage,
     Closed

\* A socket takes a slot just when it is open.
LEMMA OpenTakesSlot ==
    ASSUME OpenIsTracked, NEW s \in Sockets
    PROVE  s \in connections <=> socket[s].stage \in {"reading", "answered"}
BY DEF OpenIsTracked, Stage

-----------------------------------------------------------------------------
(***************************************************************************)
(* Slots are only given up, or one is taken when there is one left.        *)
(***************************************************************************)

LEMMA FewerSlots ==
    ASSUME SlotsKept, connections' \subseteq connections
    PROVE  SlotsKept'
<1>1. IsFiniteSet(connections) /\ IsFiniteSet(connections')
  BY FS_Subset DEF SlotsKept
<1>2. Cardinality(connections') <= Cardinality(connections)
  BY <1>1, FS_Subset
<1>3. Cardinality(connections') \in Nat /\ Cardinality(connections) \in Nat
  BY <1>1, FS_CardinalityType
<1> QED
  BY <1>1, <1>2, <1>3 DEF SlotsKept

LEMMA OneMoreSlot ==
    ASSUME SlotsKept, NEW s, ~ (Cardinality(connections) >= MaxConnections),
           connections' = connections \union {s}
    PROVE  SlotsKept'
<1>1. IsFiniteSet(connections) /\ Cardinality(connections) \in Nat
  BY FS_CardinalityType DEF SlotsKept
<1>2. IsFiniteSet(connections')
      /\ Cardinality(connections')
           = IF s \in connections THEN Cardinality(connections) ELSE Cardinality(connections) + 1
  BY <1>1, FS_AddElement
<1>3. Cardinality(connections') <= MaxConnections
  BY <1>1, <1>2
<1> QED
  BY <1>2, <1>3 DEF SlotsKept

-----------------------------------------------------------------------------
(***************************************************************************)
(* Calls that destroy every connection.                                    *)
(***************************************************************************)

\* After stopSockets() has destroyed them, no socket is open and none takes a slot.
LEMMA Destroyed ==
    ASSUME IInv, DestroyConnections
    PROVE  /\ connections' = {} /\ socket' \in [Sockets -> SocketStates]
           /\ OpenIsTracked' /\ NoOldConnection'
<1> USE DEF DestroyConnections
<1>1. ASSUME NEW s \in Sockets
      PROVE  socket'[s] \in SocketStates /\ socket'[s].stage \notin {"reading", "answered"}
  <2>1. s \in connections <=> socket[s].stage \in {"reading", "answered"}
    BY OpenTakesSlot DEF IInv
  <2>2. CASE s \in connections
    <3>1. socket'[s] = [socket[s] EXCEPT !.stage = "destroyed"]
      BY <2>2
    <3>2. socket[s] \in [of : Listeners, stage : {"reading", "answered", "destroyed"}]
      BY <2>1, <2>2 DEF IInv, TypeOK, SocketStates, Closed
    <3> QED
      BY <3>1, <3>2 DEF SocketStates
  <2>3. CASE s \notin connections
    BY <2>1, <2>3 DEF IInv, TypeOK
  <2> QED
    BY <2>2, <2>3
<1>2. connections' = {} /\ socket' \in [Sockets -> SocketStates]
  BY <1>1
<1> QED
  BY <1>1, <1>2 DEF OpenIsTracked, NoOldConnection, Stage

LEMMA StopSocketsSafe ==
    ASSUME IInv, NEW call \in {"stop", "start"}, StopSockets(call)
    PROVE  IInv'
<1>1. DestroyConnections /\ listener' = None
  BY DEF StopSockets
<1>2. connections' = {} /\ socket' \in [Sockets -> SocketStates] /\ OpenIsTracked' /\ NoOldConnection'
  BY <1>1, Destroyed
<1>3. SlotsKept'
  BY <1>2, FewerSlots DEF IInv
<1>4. CASE listener # None /\ OfListener(listener) # {}
  <2>1. /\ waiting' = waiting \union {[call |-> call, on |-> listener]}
        /\ state' = IF call = "stop" THEN state ELSE "starting"
        /\ recent' = recent
    BY <1>4 DEF StopSockets
  <2>2. TypeOK'
    BY <1>1, <1>2, <1>4, <2>1 DEF IInv, TypeOK
  <2>3. RunningListens'
    <3>1. CASE call = "stop"
      <4> DEFINE w == [call |-> call, on |-> listener]
      <4>1. w \in waiting' /\ w.call = "stop"
        BY <2>1, <3>1
      <4> HIDE DEF w
      <4> QED
        BY <4>1 DEF RunningListens
    <3>2. CASE call # "stop"
      BY <2>1, <3>2 DEF RunningListens
    <3> QED
      BY <3>1, <3>2
  <2> QED
    BY <1>2, <1>3, <2>2, <2>3 DEF IInv
<1>5. CASE ~ (listener # None /\ OfListener(listener) # {})
  <2>1. /\ state' \in {"stopped", "error"}
        /\ recent' \subseteq recent
        /\ waiting' = waiting
    BY <1>5 DEF StopSockets, AfterStopSockets
  <2>2. TypeOK'
    BY <1>1, <1>2, <2>1 DEF IInv, TypeOK
  <2>3. RunningListens'
    BY <2>1 DEF RunningListens
  <2> QED
    BY <1>2, <1>3, <2>2, <2>3 DEF IInv
<1> QED
  BY <1>4, <1>5

-----------------------------------------------------------------------------
(***************************************************************************)
(* The callbacks of a connection: one socket goes on, everything else is   *)
(* left as it is.                                                          *)
(***************************************************************************)

\* A socket that takes the state v keeps a slot just when it is open in v.
LEMMA SocketGoesOn ==
    ASSUME IInv, NEW s \in Sockets, NEW v \in SocketStates,
           socket' = [socket EXCEPT ![s] = v],
           connections' = IF v.stage \in {"reading", "answered"}
                          THEN connections \union {s} ELSE connections \ {s},
           v.stage \in {"reading", "answered"} => v.of = listener,
           SlotsKept', recent' \subseteq Devices,
           UNCHANGED <<state, listener, waiting>>
    PROVE  IInv'
<1>1. socket' \in [Sockets -> SocketStates] /\ connections' \subseteq Sockets
  BY DEF IInv, TypeOK
<1>2. TypeOK'
  BY <1>1 DEF IInv, TypeOK
<1>3. \A t \in Sockets : socket'[t] = IF t = s THEN v ELSE socket[t]
  BY DEF IInv, TypeOK
<1>4. \A t \in Sockets : t \in connections' <=> socket'[t].stage \in {"reading", "answered"}
  BY <1>3, OpenTakesSlot DEF IInv
<1>5. OpenIsTracked'
  BY <1>1, <1>4 DEF OpenIsTracked, Stage
<1>6. NoOldConnection'
  BY <1>1, <1>3, <1>4 DEF IInv, NoOldConnection
<1>7. RunningListens'
  BY DEF IInv, RunningListens
<1> QED
  BY <1>2, <1>5, <1>6, <1>7 DEF IInv

LEMMA AcceptSafe == ASSUME IInv, NEW s \in Sockets, HandleConnection(s) PROVE IInv'
<1>1. s \notin connections /\ listener \in Listeners
  BY OpenTakesSlot DEF IInv, TypeOK, HandleConnection, Closed
<1>2. CASE Cardinality(connections) >= MaxConnections
  <2> DEFINE v == [of |-> listener, stage |-> "destroyed"]
  <2>1. /\ socket' = [socket EXCEPT ![s] = v] /\ connections' = connections
        /\ UNCHANGED <<state, listener, waiting, recent>>
    BY <1>2 DEF HandleConnection
  <2>2. v \in SocketStates /\ v.stage \notin {"reading", "answered"}
    BY <1>1 DEF SocketStates
  <2>3. SlotsKept' /\ recent' \subseteq Devices /\ connections' = connections \ {s}
    BY <1>1, <2>1, FewerSlots DEF IInv, TypeOK
  <2> HIDE DEF v
  <2> QED
    BY <2>1, <2>2, <2>3, SocketGoesOn
<1>3. CASE ~ (Cardinality(connections) >= MaxConnections)
  <2> DEFINE v == [of |-> listener, stage |-> "reading"]
  <2>1. /\ socket' = [socket EXCEPT ![s] = v] /\ connections' = connections \union {s}
        /\ UNCHANGED <<state, listener, waiting, recent>>
    BY <1>3 DEF HandleConnection
  <2>2. v \in SocketStates /\ v.stage \in {"reading", "answered"} /\ v.of = listener
    BY <1>1 DEF SocketStates
  <2>3. SlotsKept' /\ recent' \subseteq Devices
    BY <1>3, <2>1, OneMoreSlot DEF IInv, TypeOK
  <2> HIDE DEF v
  <2> QED
    BY <2>1, <2>2, <2>3, SocketGoesOn
<1> QED
  BY <1>2, <1>3

LEMMA RespondSafe ==
    ASSUME IInv, NEW s \in Sockets, Respond(s), recent' \subseteq Devices
    PROVE  IInv'
<1> DEFINE v == [socket[s] EXCEPT !.stage = "answered"]
<1>1. s \in connections
  BY OpenTakesSlot DEF IInv, Respond
<1>2. socket[s] \in [of : Listeners, stage : {"reading", "answered", "destroyed"}]
  BY DEF IInv, TypeOK, SocketStates, Respond, Closed
<1>3. v \in SocketStates /\ v.stage = "answered" /\ v.of = socket[s].of
  BY <1>2 DEF SocketStates
<1>4. v.of = listener
  BY <1>1, <1>3 DEF IInv, NoOldConnection
<1>5. /\ socket' = [socket EXCEPT ![s] = v] /\ connections' = connections \union {s}
      /\ UNCHANGED <<state, listener, waiting>>
  BY <1>1 DEF Respond, IInv, TypeOK
<1>6. SlotsKept'
  BY FewerSlots DEF IInv, Respond
<1> HIDE DEF v
<1> QED
  BY <1>3, <1>4, <1>5, <1>6, SocketGoesOn

LEMMA FinishSafe ==
    ASSUME IInv, NEW s \in Sockets, socket[s].stage \in {"reading", "answered"}, Finish(s)
    PROVE  IInv'
<1> DEFINE v == [socket[s] EXCEPT !.stage = "destroyed"]
<1>1. socket[s] \in [of : Listeners, stage : {"reading", "answered", "destroyed"}]
  BY DEF IInv, TypeOK, SocketStates, Closed
<1>2. v \in SocketStates /\ v.stage = "destroyed"
  BY <1>1 DEF SocketStates
<1>3. /\ socket' = [socket EXCEPT ![s] = v] /\ connections' = connections \ {s}
      /\ UNCHANGED <<state, listener, waiting>> /\ recent' \subseteq Devices
  BY DEF Finish, IInv, TypeOK
<1>4. SlotsKept'
  BY <1>3, FewerSlots DEF IInv
<1> HIDE DEF v
<1> QED
  BY <1>2, <1>3, <1>4, SocketGoesOn

LEMMA CloseSafe == ASSUME IInv, NEW s \in Sockets, CloseEvent(s) PROVE IInv'
<1>1. Closed \in SocketStates /\ Closed.stage = "closed"
  BY DEF SocketStates, Closed
<1>2. /\ socket' = [socket EXCEPT ![s] = Closed] /\ connections' = connections \ {s}
      /\ UNCHANGED <<state, listener, waiting>> /\ recent' \subseteq Devices
  BY DEF CloseEvent, IInv, TypeOK
<1>3. SlotsKept'
  BY <1>2, FewerSlots DEF IInv
<1> QED
  BY <1>1, <1>2, <1>3, SocketGoesOn

-----------------------------------------------------------------------------
(***************************************************************************)
(* Every step.                                                             *)
(***************************************************************************)

LEMMA StartSafe == ASSUME IInv, NEW l \in Listeners, Start(l) PROVE IInv'
<1>1. connections = {}
  <2>1. \A s \in Sockets : socket[s].stage \in {"reading", "answered"} => socket[s].of \in Listeners
    BY DEF IInv, TypeOK, SocketStates, Closed
  <2> QED
    BY <2>1, OpenTakesSlot DEF IInv, TypeOK, NoOldConnection, Start
<1>2. TypeOK' /\ OpenIsTracked' /\ SlotsKept'
  BY DEF Start, IInv, TypeOK, OpenIsTracked, SlotsKept, Stage
<1>3. NoOldConnection'
  BY <1>1 DEF Start, NoOldConnection
<1>4. RunningListens'
  BY DEF Start, RunningListens
<1> QED
  BY <1>2, <1>3, <1>4 DEF IInv

LEMMA ReturnSafe == ASSUME IInv, NEW w \in waiting, StopSocketsReturns(w) PROVE IInv'
<1>1. /\ waiting' \subseteq waiting /\ state' \in {"stopped", "error"} /\ recent' \subseteq recent
      /\ UNCHANGED <<listener, connections, socket>>
  BY DEF StopSocketsReturns, AfterStopSockets
<1>2. TypeOK' /\ OpenIsTracked' /\ SlotsKept' /\ NoOldConnection'
  BY <1>1 DEF IInv, TypeOK, OpenIsTracked, SlotsKept, NoOldConnection, Stage
<1>3. RunningListens'
  BY <1>1 DEF RunningListens
<1> QED
  BY <1>2, <1>3 DEF IInv

LEMMA DisposeSafe == ASSUME IInv, Dispose PROVE IInv'
<1>1. TypeOK'
  BY DEF Dispose, TypeOK, SocketStates
<1>2. OpenIsTracked' /\ NoOldConnection' /\ RunningListens'
  BY DEF Dispose, OpenIsTracked, NoOldConnection, RunningListens, Stage, Closed
<1>3. SlotsKept'
  BY FewerSlots DEF IInv, Dispose
<1> QED
  BY <1>1, <1>2, <1>3 DEF IInv

LEMMA StepSafe == IInv /\ [Next]_vars => IInv'
<1> SUFFICES ASSUME IInv, [Next]_vars PROVE IInv'
  OBVIOUS
<1>1. ASSUME NEW l \in Listeners, Start(l) PROVE IInv'
  BY <1>1, StartSafe
<1>2. CASE StartFails \/ Stop
  BY <1>2, StopSocketsSafe DEF StartFails, Stop
<1>3. CASE Dispose
  BY <1>3, DisposeSafe
<1>4. ASSUME NEW w \in waiting, StopSocketsReturns(w) PROVE IInv'
  BY <1>4, ReturnSafe
<1>5. ASSUME NEW s \in Sockets, HandleConnection(s) PROVE IInv'
  BY <1>5, AcceptSafe
<1>6. ASSUME NEW s \in Sockets, Refuse(s) \/ \E d \in Devices : HandleLine(s, d) PROVE IInv'
  <2>1. Respond(s) /\ recent' \subseteq Devices
    BY <1>6 DEF Refuse, HandleLine, IInv, TypeOK
  <2> QED
    BY <2>1, RespondSafe
<1>7. ASSUME NEW s \in Sockets, ReadTimeout(s) \/ SocketError(s) PROVE IInv'
  BY <1>7, FinishSafe DEF ReadTimeout, SocketError
<1>8. ASSUME NEW s \in Sockets, DestroyedCloses(s) \/ PeerCloses(s) PROVE IInv'
  BY <1>8, CloseSafe DEF DestroyedCloses, PeerCloses
<1>9. ASSUME NEW d \in Devices, CooldownEnds(d) PROVE IInv'
  BY <1>9 DEF CooldownEnds, IInv, TypeOK, OpenIsTracked, SlotsKept, NoOldConnection,
     RunningListens, Stage
<1>10. CASE UNCHANGED vars
  BY <1>10 DEF vars, IInv, TypeOK, OpenIsTracked, SlotsKept, NoOldConnection, RunningListens,
     Stage
<1> QED
  BY <1>1, <1>2, <1>3, <1>4, <1>5, <1>6, <1>7, <1>8, <1>9, <1>10 DEF Next

LEMMA IInvHolds == Spec => []IInv
BY InitSafe, StepSafe, PTL DEF Spec

-----------------------------------------------------------------------------
\* Types, and the calls that wait are for listeners.
THEOREM TypeCorrect == Spec => []TypeOK
<1>1. IInv => TypeOK
  BY DEF IInv
<1> QED
  BY <1>1, IInvHolds, PTL

\* A stop reaches every open connection, and no more of them are open than there are
\* slots (hub-server.ts handleConnection, finish, stopSockets).
THEOREM ConnectionsAreCounted == Spec => []OpenSocketsTracked
<1>1. IInv => OpenSocketsTracked
  BY DEF IInv, OpenIsTracked, SlotsKept, OpenSocketsTracked
<1> QED
  BY <1>1, IInvHolds, PTL

\* However starts and stops overlap, no connection outlives its listener
\* (hub-server.ts stopSockets destroys the connections before it waits).
THEOREM OldConnectionsAreGone == Spec => []NoOldConnection
<1>1. IInv => NoOldConnection
  BY DEF IInv
<1> QED
  BY <1>1, IInvHolds, PTL

\* A hub that says it runs listens, or is being stopped (hub-server.ts start, stop).
THEOREM RunningIsListening == Spec => []RunningListens
<1>1. IInv => RunningListens
  BY DEF IInv
<1> QED
  BY <1>1, IInvHolds, PTL
=============================================================================
