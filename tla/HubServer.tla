----------------------------- MODULE HubServer ------------------------------
(***************************************************************************)
(* The console's server on the local network: a TCP listener for pulls and *)
(* a UDP socket for discovery, started and stopped by the operator.        *)
(* Translated from desktop/src/main/hub/hub-server.ts; who calls it is in  *)
(* main/ipc/hub.ts and main/hub/hub-runtime.ts.                            *)
(*                                                                         *)
(* The console has one thread: what runs between two awaits that reach the *)
(* event loop is one action.  Listening on an IP address (the console uses *)
(* 0.0.0.0) succeeds or fails without going back to the event loop, and so *)
(* does closing a listener that has no connections; closing one that has   *)
(* some waits for their close events.  These are the only waits, and calls *)
(* of start and stop may come in during them: the IPC handlers do not      *)
(* exclude each other.                                                     *)
(*                                                                         *)
(* TCP listener and UDP socket are opened and closed together, so a pair   *)
(* is one listener.  Packets are modelled by what they lead to.            *)
(***************************************************************************)
EXTENDS FiniteSets, Naturals

CONSTANTS
    Listeners,       \* listener objects; one may be reused once nothing refers to it
    Sockets,         \* accepted connections, reused in the same way
    Devices,         \* device ids in pull requests
    MaxConnections,
    None

ASSUME HubAssumption ==
    /\ MaxConnections \in Nat \ {0}
    /\ None \notin Listeners

VARIABLES
    state,        \* what status() reports
    listener,     \* this.tcp and this.udp, or None
    connections,  \* the set of that name: sockets that take a slot
    socket,       \* each socket's listener and what became of it
    waiting,      \* calls that wait in stopSockets() for a listener's sockets
    recent        \* devices in lastRequestAt whose cooldown is not over

vars == <<state, listener, connections, socket, waiting, recent>>

Closed == [of |-> None, stage |-> "closed"]

\* A socket is reading until its request is complete (settled), then answered; it is
\* destroyed by the server and closed once its close event has been delivered.
SocketStates ==
    {Closed} \union [of : Listeners, stage : {"reading", "answered", "destroyed"}]

TypeOK ==
    /\ state \in {"stopped", "starting", "running", "error"}
    /\ listener \in Listeners \union {None}
    /\ connections \subseteq Sockets
    /\ socket \in [Sockets -> SocketStates]
    /\ waiting \subseteq [call : {"stop", "start"}, on : Listeners]
    /\ recent \subseteq Devices

Init ==
    /\ state = "stopped"
    /\ listener = None
    /\ connections = {}
    /\ socket = [s \in Sockets |-> Closed]
    /\ waiting = {}
    /\ recent = {}

OfListener(l) == {s \in Sockets : socket[s].of = l}
Stage(stage) == {s \in Sockets : socket[s].stage = stage}
Unused(l) == l # listener /\ OfListener(l) = {} /\ \A w \in waiting : w.on # l

-----------------------------------------------------------------------------
\* start, stop and dispose

\* Mutant of AfterStopSockets: start() reports running before its sockets are known to be closed.
AfterStopSocketsRunning(call) ==
    IF call = "stop"
    THEN state' = "stopped" /\ recent' = {}
    ELSE state' = "running" /\ UNCHANGED recent

\* What a call does once stopSockets() has returned.
AfterStopSockets(call) ==
    IF call = "stop"
    THEN state' = "stopped" /\ recent' = {}
    ELSE state' = "error" /\ UNCHANGED recent

\* Mutant of DestroyConnections: the connections are left to their peers.
LeaveConnections == UNCHANGED <<connections, socket>>

DestroyConnections ==
    /\ connections' = {}
    /\ socket' = [s \in Sockets |-> IF s \in connections
                                    THEN [socket[s] EXCEPT !.stage = "destroyed"]
                                    ELSE socket[s]]

\* stopSockets(): waits only for a listener that still has sockets.
StopSockets(call) ==
    /\ DestroyConnections
    /\ listener' = None
    /\ IF listener # None /\ OfListener(listener) # {}
       THEN /\ waiting' = waiting \union {[call |-> call, on |-> listener]}
            /\ state' = IF call = "stop" THEN state ELSE "starting"
            /\ UNCHANGED recent
       ELSE /\ AfterStopSockets(call)
            /\ UNCHANGED waiting

\* start() while starting or running only returns the status.
MayStart == state \notin {"running", "starting"}

Start(l) ==
    /\ MayStart
    /\ listener = None
    /\ Unused(l)
    /\ listener' = l
    /\ state' = "running"
    /\ UNCHANGED <<connections, socket, waiting, recent>>

\* Another program has one of the ports, or this one still listens itself.
StartFails ==
    /\ MayStart
    /\ StopSockets("start")

Stop == StopSockets("stop")

\* The last socket of the listener is gone: the call that waited goes on.
StopSocketsReturns(w) ==
    /\ w \in waiting
    /\ OfListener(w.on) = {}
    /\ waiting' = waiting \ {w}
    /\ AfterStopSockets(w.call)
    /\ UNCHANGED <<listener, connections, socket>>

\* dispose(), the last thing before the program quits: it closes the listener and destroys
\* the connections without waiting; calls that wait, sockets and the record of requests
\* end with the process, and the program's next start makes a new server.
Dispose ==
    /\ listener' = None /\ connections' = {} /\ state' = "stopped"
    /\ socket' = [s \in Sockets |-> Closed] /\ waiting' = {} /\ recent' = {}

-----------------------------------------------------------------------------
\* The callbacks of a connection

\* Mutant of HandleConnection: one connection too many.
HandleConnectionOneMore(s) ==
    /\ listener # None
    /\ socket[s] = Closed
    /\ IF Cardinality(connections) > MaxConnections
       THEN /\ socket' = [socket EXCEPT ![s] = [of |-> listener, stage |-> "destroyed"]]
            /\ UNCHANGED connections
       ELSE /\ socket' = [socket EXCEPT ![s] = [of |-> listener, stage |-> "reading"]]
            /\ connections' = connections \union {s}
    /\ UNCHANGED <<state, listener, waiting, recent>>

HandleConnection(s) ==
    /\ listener # None
    /\ socket[s] = Closed
    /\ IF Cardinality(connections) >= MaxConnections
       THEN /\ socket' = [socket EXCEPT ![s] = [of |-> listener, stage |-> "destroyed"]]
            /\ UNCHANGED connections
       ELSE /\ socket' = [socket EXCEPT ![s] = [of |-> listener, stage |-> "reading"]]
            /\ connections' = connections \union {s}
    /\ UNCHANGED <<state, listener, waiting, recent>>

\* respond(): the answer ends the server's side; the slot is kept until the close event.
Respond(s) ==
    /\ socket[s].stage = "reading"
    /\ socket' = [socket EXCEPT ![s].stage = "answered"]
    /\ UNCHANGED <<state, listener, connections, waiting>>

\* Too large, malformed, or too soon after the device's last request.
Refuse(s) == Respond(s) /\ UNCHANGED recent

\* A request that is decided on (HubDelivery's pull, one synchronous call).
HandleLine(s, d) ==
    /\ d \notin recent
    /\ recent' = recent \union {d}
    /\ Respond(s)

\* Mutant of Finish: a destroyed socket is no longer counted as its listener's.
FinishDetached(s) ==
    /\ socket' = [socket EXCEPT ![s] = [of |-> None, stage |-> "destroyed"]]
    /\ connections' = connections \ {s}
    /\ UNCHANGED <<state, listener, waiting, recent>>

\* finish() and destroy()
Finish(s) ==
    /\ socket' = [socket EXCEPT ![s].stage = "destroyed"]
    /\ connections' = connections \ {s}
    /\ UNCHANGED <<state, listener, waiting, recent>>

\* Mutant of ReadTimeout: the timer only fires for sockets that lost their slot.
ReadTimeoutMissesSlots(s) == s \notin connections /\ socket[s].stage = "reading" /\ Finish(s)

ReadTimeout(s) == socket[s].stage = "reading" /\ Finish(s)

SocketError(s) == socket[s].stage \in {"reading", "answered"} /\ Finish(s)

\* The close event: of a destroyed socket, or of one whose peer has closed it.
CloseEvent(s) ==
    /\ socket' = [socket EXCEPT ![s] = Closed]
    /\ connections' = connections \ {s}
    /\ UNCHANGED <<state, listener, waiting, recent>>

DestroyedCloses(s) == socket[s].stage = "destroyed" /\ CloseEvent(s)

PeerCloses(s) == socket[s].stage \in {"reading", "answered"} /\ CloseEvent(s)

CooldownEnds(d) ==
    /\ d \in recent
    /\ recent' = recent \ {d}
    /\ UNCHANGED <<state, listener, connections, socket, waiting>>

-----------------------------------------------------------------------------
Next ==
    \/ \E l \in Listeners : Start(l)
    \/ StartFails \/ Stop \/ Dispose
    \/ \E w \in waiting : StopSocketsReturns(w)
    \/ \E s \in Sockets :
         \/ HandleConnection(s) \/ Refuse(s) \/ (\E d \in Devices : HandleLine(s, d))
         \/ ReadTimeout(s) \/ SocketError(s) \/ DestroyedCloses(s) \/ PeerCloses(s)
    \/ \E d \in Devices : CooldownEnds(d)

Spec == Init /\ [][Next]_vars

\* The event loop runs: read timers fire, destroyed sockets deliver their close event,
\* a call that waits goes on.  Nothing is assumed of peers and of the operator.
FairSpec ==
    /\ Spec
    /\ \A s \in Sockets : WF_vars(ReadTimeout(s)) /\ WF_vars(DestroyedCloses(s))
    /\ \A l \in Listeners, c \in {"stop", "start"} :
         WF_vars(StopSocketsReturns([call |-> c, on |-> l]))

-----------------------------------------------------------------------------
\* Properties

\* Every socket the server has not destroyed is in connections, so a stop reaches it,
\* and never more than MaxConnections of them are open (hub-server.ts:28-29).
OpenSocketsTracked ==
    /\ connections = Stage("reading") \union Stage("answered")
    /\ Cardinality(connections) <= MaxConnections

\* Open sockets belong to the current listener: after a stop or a failed start none of
\* the earlier listener's connections can still be answered.
NoOldConnection == \A s \in connections : socket[s].of = listener

\* While the state says running the server listens, or a stop is on its way to say
\* otherwise, whatever starts and stops overlapped before.
RunningListens ==
    state = "running" => listener # None \/ \E w \in waiting : w.call = "stop"

\* hub-server.ts:29: stopping closes UDP, TCP and every connection and leaves no handle.
StoppedLeavesNoHandle == state = "stopped" => listener = None

\* A stop, and the cleanup of a failed start, always end, even if no peer ever closes.
StopEnds ==
    \A l \in Listeners, c \in {"stop", "start"} :
        [call |-> c, on |-> l] \in waiting ~> [call |-> c, on |-> l] \notin waiting

\* A peer that sends nothing or too little does not keep its slot (read timeout).
SlowPeerDropped ==
    \A s \in Sockets : socket[s].stage = "reading" ~> socket[s].stage # "reading"
=============================================================================
