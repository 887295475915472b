------------------------------- MODULE Server -------------------------------
(***************************************************************************)
(* src/task/server.rs: one Server, its listener and its connection tasks.  *)
(*                                                                         *)
(* The server is one tokio task and each accepted connection another; an   *)
(* action is what a task does between two points where another task can    *)
(* observe or disturb it.  The server task waits inside `select!`, which   *)
(* races Listener::listen against the shutdown future: a branch is taken   *)
(* only where the other one is suspended, so Shutdown is enabled before    *)
(* the first poll ("select") and at listen's two awaits ("acquire" and     *)
(* "accept") but not between the spawn of a task and the next await.       *)
(*                                                                         *)
(* External: the kernel's accept queue (FIFO, at most Backlog long), the   *)
(* clients, and hyper, which drives a connection until the client closes   *)
(* it, until an error, or until it hands the socket over to an upgrade.    *)
(* A connection is a name in Conns and is made at most once.               *)
(*                                                                         *)
(* Definitions whose name ends in Mutant are deliberately wrong variants   *)
(* of the definition after them; no specification uses them.               *)
(***************************************************************************)
EXTENDS Naturals, Sequences, FiniteSets

CONSTANTS
  Conns,            \* connections that clients may open
  MaxConnections,   \* config `connections`; 0 is accepted by the parser
  Backlog           \* length of the kernel's accept queue (1024 in init)

ASSUME MaxConnectionsAssumption == MaxConnections \in Nat
ASSUME BacklogAssumption == Backlog \in Nat \ {0}

VARIABLES
  pc,           \* where the server task is
  state,        \* the published State (watch channel)
  shutdown,     \* the shutdown future has completed
  listenAgain,  \* notify_listening_again
  permits,      \* available permits of the `connections` semaphore
  holders,      \* connection tasks that own a permit
  backlog,      \* connections the kernel holds for accept()
  stage,        \* how far each connection has come
  tunnel,       \* the tunnel task of each connection's upgrade
  config,       \* "owned", "leaked" or "freed": the boxed configuration
  subs, unread, acks, notifier      \* see Notify

N == INSTANCE Notify WITH Tasks <- Conns

taskVars == <<holders, stage, tunnel>>
notifyVars == <<subs, unread, acks, notifier>>
vars == <<pc, state, shutdown, listenAgain, permits, backlog, taskVars, config,
          notifyVars>>

-----------------------------------------------------------------------------
(* State and ShutdownState.                                                *)
Starting == [kind |-> "Starting", count |-> 0]
Listening == [kind |-> "Listening", count |-> 0]
MaxConnectionsReached ==
  [kind |-> "MaxConnectionsReached", count |-> MaxConnections]
PendingConnections(n) == [kind |-> "PendingConnections", count |-> n]
Done == [kind |-> "Done", count |-> 0]

Kinds == {"Starting", "Listening", "MaxConnectionsReached",
          "PendingConnections", "Done"}

\* The select! is running: the listening socket exists and accepts.
Selecting == {"select", "check", "acquire", "accept"}
\* The server task may observe the shutdown future only here.
AwaitPoints == {"select", "acquire", "accept"}
PCs == {"starting", "notify", "collect", "free", "done"} \cup Selecting

(* away: not made yet.  backlog: in the accept queue.  reset: thrown away  *)
(* with the listening socket.  idle, busy: being served, without and with  *)
(* a request in flight.  served: serve_connection returned.  acking,       *)
(* releasing, leaving: the rest of the task, up to the await or drop that  *)
(* comes next.  unwinding: the task panicked.  ended: nothing left.        *)
Stages == {"away", "backlog", "reset", "idle", "busy", "served", "acking",
           "releasing", "leaving", "unwinding", "ended"}
Active == {"idle", "busy"}

Tunnels == {"none", "pending", "open", "closed"}

TypeOK ==
  /\ pc \in PCs
  /\ state \in [kind : Kinds, count : Nat]
  /\ shutdown \in BOOLEAN
  /\ listenAgain \in BOOLEAN
  /\ permits \in Nat
  /\ holders \subseteq Conns
  /\ backlog \in Seq(Conns)
  /\ stage \in [Conns -> Stages]
  /\ tunnel \in [Conns -> Tunnels]
  /\ config \in {"owned", "leaked", "freed"}
  /\ N!NotifyTypeOK

\* Server::init: the socket is bound and in listen mode, nothing is accepted.
Init ==
  /\ pc = "starting"
  /\ state = Starting
  /\ shutdown = FALSE
  /\ listenAgain = FALSE
  /\ permits = MaxConnections
  /\ holders = {}
  /\ backlog = <<>>
  /\ stage = [c \in Conns |-> "away"]
  /\ tunnel = [c \in Conns |-> "none"]
  /\ config = "owned"
  /\ N!NotifyInit

-----------------------------------------------------------------------------
(* The server task.                                                        *)

\* Server::run up to select!: publish Listening and leak the configuration.
Run ==
  /\ pc = "starting"
  /\ pc' = "select"
  /\ state' = Listening
  /\ config' = "leaked"
  /\ UNCHANGED <<shutdown, listenAgain, permits, backlog, taskVars, notifyVars>>

PermitsExhausted == permits = 0

\* Listener::listen, top of the loop: publish that no permit is left.
CheckPermits ==
  /\ pc \in {"select", "check"}
  /\ pc' = "acquire"
  /\ listenAgain' = PermitsExhausted
  /\ state' = IF PermitsExhausted THEN MaxConnectionsReached ELSE state
  /\ UNCHANGED <<shutdown, permits, backlog, taskVars, config, notifyVars>>

\* Mutant: the loop goes on without publishing that it listens again.
StateOnceAcquiredMutant == state
StateOnceAcquired == IF listenAgain THEN Listening ELSE state

\* Mutant: the result of a failed acquisition is ignored.
AcquireMutant ==
  /\ pc = "acquire"
  /\ permits' = IF permits > 0 THEN permits - 1 ELSE 0
  /\ pc' = "accept"
  /\ state' = StateOnceAcquired
  /\ UNCHANGED <<shutdown, listenAgain, backlog, taskVars, config, notifyVars>>

\* acquire_owned().await returned; only the listener waits on the semaphore.
Acquire ==
  /\ pc = "acquire"
  /\ permits > 0
  /\ permits' = permits - 1
  /\ pc' = "accept"
  /\ state' = StateOnceAcquired
  /\ UNCHANGED <<shutdown, listenAgain, backlog, taskVars, config, notifyVars>>

\* accept().await returned a connection: subscribe and spawn its task, which
\* takes over the permit.
Accept ==
  /\ pc = "accept"
  /\ backlog # <<>>
  /\ LET c == Head(backlog) IN
       /\ stage' = [stage EXCEPT ![c] = "idle"]
       /\ holders' = holders \cup {c}
       /\ N!Subscribe(c)
  /\ backlog' = Tail(backlog)
  /\ pc' = "check"
  /\ UNCHANGED <<state, shutdown, listenAgain, permits, tunnel, config>>

\* Mutant: the permit of the cancelled listen future is lost.
PermitsAfterSelectMutant == permits
PermitsAfterSelect == IF pc = "accept" THEN permits + 1 ELSE permits

\* Mutant: the listener is not dropped.
StageAfterSelectMutant == stage
StageAfterSelect ==
  [c \in Conns |-> IF stage[c] = "backlog" THEN "reset" ELSE stage[c]]

\* Leaving select! drops the listen future, with the permit it holds while it
\* waits in accept(), and drop(listener) resets what is still in the queue.
LeaveSelect ==
  /\ permits' = PermitsAfterSelect
  /\ stage' = StageAfterSelect
  /\ backlog' = <<>>
  /\ pc' = "notify"
  /\ UNCHANGED <<state, shutdown, listenAgain, holders, tunnel, config,
                 notifyVars>>

Shutdown ==
  /\ pc \in AwaitPoints
  /\ shutdown
  /\ LeaveSelect

\* accept() or local_addr() failed.  In the second case the accepted stream
\* and its new subscription are dropped too: the queue's head is reset as well.
ListenFails ==
  /\ pc = "accept"
  /\ LeaveSelect

\* notifier.send(Shutdown) reached a subscriber: publish how many there are
\* and start collecting.
SendShutdown ==
  /\ pc = "notify"
  /\ N!SendAndCollect
  /\ state' = PendingConnections(Cardinality(subs))
  /\ pc' = "collect"
  /\ UNCHANGED <<shutdown, listenAgain, permits, backlog, taskVars, config>>

\* notifier.send(Shutdown) failed: no task is left.
NobodyToNotify ==
  /\ pc = "notify"
  /\ N!SendFails
  /\ pc' = "free"
  /\ UNCHANGED <<state, shutdown, listenAgain, permits, backlog, taskVars, config>>

CollectAck ==
  /\ pc = "collect"
  /\ N!CollectAck
  /\ UNCHANGED <<pc, state, shutdown, listenAgain, permits, backlog, taskVars,
                 config>>

CollectDone ==
  /\ pc = "collect"
  /\ N!CollectDone
  /\ pc' = "free"
  /\ UNCHANGED <<state, shutdown, listenAgain, permits, backlog, taskVars, config>>

\* Free the leaked configuration, publish Done and return, which drops the
\* notifier if it was not consumed by collect_acknowledgements.
Finish ==
  /\ pc = "free"
  /\ pc' = "done"
  /\ config' = "freed"
  /\ state' = Done
  /\ notifier' = "dropped"
  /\ UNCHANGED <<shutdown, listenAgain, permits, backlog, taskVars,
                 subs, unread, acks>>

ServerStep ==
  \/ Run
  \/ CheckPermits
  \/ Acquire
  \/ Accept
  \/ Shutdown
  \/ SendShutdown
  \/ NobodyToNotify
  \/ CollectAck
  \/ CollectDone
  \/ Finish

-----------------------------------------------------------------------------
(* A connection task, and hyper inside it.                                 *)

UnchangedServer == UNCHANGED <<pc, state, shutdown, listenAgain, backlog, config>>

MoveTo(c, s) == stage' = [stage EXCEPT ![c] = s]

\* A request arrives: hyper calls the service, which reads the configuration.
Request(c) ==
  /\ stage[c] = "idle"
  /\ MoveTo(c, "busy")
  /\ UnchangedServer /\ UNCHANGED <<permits, holders, tunnel, notifyVars>>

\* The response is written and the connection is kept alive.
Respond(c) ==
  /\ stage[c] = "busy"
  /\ tunnel[c] = "none"
  /\ MoveTo(c, "idle")
  /\ UnchangedServer /\ UNCHANGED <<permits, holders, tunnel, notifyVars>>

\* proxy::forward got a 101 for a client that asked to upgrade: it spawns
\* tunnel(), which waits until the 101 has been sent to the client.
SpawnTunnel(c) ==
  /\ stage[c] = "busy"
  /\ tunnel[c] = "none"
  /\ tunnel' = [tunnel EXCEPT ![c] = "pending"]
  /\ UnchangedServer /\ UNCHANGED <<permits, holders, stage, notifyVars>>

\* The 101 is sent: hyper hands the socket to the tunnel, and the future of
\* serve_connection().with_upgrades() completes.
HandOver(c) ==
  /\ tunnel[c] = "pending"
  /\ stage[c] = "busy"
  /\ MoveTo(c, "served")
  /\ tunnel' = [tunnel EXCEPT ![c] = "open"]
  /\ UnchangedServer /\ UNCHANGED <<permits, holders, notifyVars>>

\* Mutant: the tunnel goes on to wait for the socket.
CancelUpgradeMutant(c) == tunnel' = tunnel
\* The hyper connection is gone, so a tunnel that waits for it fails.
CancelUpgrade(c) ==
  tunnel' = [tunnel EXCEPT ![c] = IF @ = "pending" THEN "closed" ELSE @]

\* The client closes the connection, or it fails: serve_connection returns.
ClientCloses(c) ==
  /\ stage[c] \in Active
  /\ MoveTo(c, "served")
  /\ CancelUpgrade(c)
  /\ UnchangedServer /\ UNCHANGED <<permits, holders, notifyVars>>

\* The handler panics (it unwraps): the task is unwound, the service first.
Panic(c) ==
  /\ stage[c] = "busy"
  /\ MoveTo(c, "unwinding")
  /\ CancelUpgrade(c)
  /\ UnchangedServer /\ UNCHANGED <<permits, holders, notifyVars>>

\* copy_bidirectional returns: both peers have closed, or one has failed.
TunnelEnds(c) ==
  /\ tunnel[c] = "open"
  /\ tunnel' = [tunnel EXCEPT ![c] = "closed"]
  /\ UnchangedServer /\ UNCHANGED <<permits, holders, stage, notifyVars>>

\* subscription.receive_notification() after serve_connection has returned.
CheckNotification(c) ==
  /\ stage[c] = "served"
  /\ MoveTo(c, IF c \in unread THEN "acking" ELSE "releasing")
  /\ N!ReceiveNotification(c)
  /\ UnchangedServer /\ UNCHANGED <<permits, holders, tunnel>>

Acknowledge(c) ==
  /\ stage[c] = "acking"
  /\ N!AcknowledgeNotification
  /\ MoveTo(c, "releasing")
  /\ UnchangedServer /\ UNCHANGED <<permits, holders, tunnel>>

\* Mutant: the permit is forgotten instead of dropped.
GiveBackMutant(c) ==
  /\ permits' = permits
  /\ holders' = holders \ {c}

\* Dropping an OwnedSemaphorePermit gives it back.
GiveBack(c) ==
  /\ permits' = permits + 1
  /\ holders' = holders \ {c}

\* drop(permit)
DropPermit(c) ==
  /\ stage[c] = "releasing"
  /\ GiveBack(c)
  /\ MoveTo(c, "leaving")
  /\ UnchangedServer /\ UNCHANGED <<tunnel, notifyVars>>

\* The end of the async block drops the subscription.
DropSubscription(c) ==
  /\ stage[c] = "leaving"
  /\ N!Unsubscribe(c)
  /\ MoveTo(c, "ended")
  /\ UnchangedServer /\ UNCHANGED <<permits, holders, tunnel>>

\* Unwinding drops both, in an order the source does not fix.
UnwindPermit(c) ==
  /\ stage[c] = "unwinding"
  /\ c \in holders
  /\ GiveBack(c)
  /\ MoveTo(c, IF c \in subs THEN "unwinding" ELSE "ended")
  /\ UnchangedServer /\ UNCHANGED <<tunnel, notifyVars>>

UnwindSubscription(c) ==
  /\ stage[c] = "unwinding"
  /\ c \in subs
  /\ N!Unsubscribe(c)
  /\ MoveTo(c, IF c \in holders THEN "unwinding" ELSE "ended")
  /\ UnchangedServer /\ UNCHANGED <<permits, holders, tunnel>>

\* What a connection task does once serve_connection is over.
TaskStep(c) ==
  \/ CheckNotification(c)
  \/ Acknowledge(c)
  \/ DropPermit(c)
  \/ DropSubscription(c)
  \/ UnwindPermit(c)
  \/ UnwindSubscription(c)

-----------------------------------------------------------------------------
(* The environment: clients connect, and someone asks for a shutdown.      *)

\* The kernel completes the handshake while the socket exists and has room.
Connect(c) ==
  /\ stage[c] = "away"
  /\ pc \in {"starting"} \cup Selecting
  /\ Len(backlog) < Backlog
  /\ backlog' = Append(backlog, c)
  /\ MoveTo(c, "backlog")
  /\ UNCHANGED <<pc, state, shutdown, listenAgain, permits, holders, tunnel,
                 config, notifyVars>>

\* The future given to shutdown_on completes.
RequestShutdown ==
  /\ ~shutdown
  /\ shutdown' = TRUE
  /\ UNCHANGED <<pc, state, listenAgain, permits, backlog, taskVars, config,
                 notifyVars>>

HyperStep(c) ==
  \/ Request(c)
  \/ Respond(c)
  \/ SpawnTunnel(c)
  \/ HandOver(c)
  \/ ClientCloses(c)
  \/ Panic(c)
  \/ TunnelEnds(c)

\* The server has returned and nothing of its connections is left: the only
\* state in which nothing more can happen.
Terminated ==
  /\ pc = "done"
  /\ \A c \in Conns : stage[c] \in {"away", "reset", "ended"}
                      /\ tunnel[c] \in {"none", "closed"}
  /\ UNCHANGED vars

Next ==
  \/ ServerStep
  \/ ListenFails
  \/ RequestShutdown
  \/ \E c \in Conns : TaskStep(c) \/ HyperStep(c) \/ Connect(c)
  \/ Terminated

Spec == Init /\ [][Next]_vars

(* tokio polls a task that can make progress.  Nothing is assumed of the   *)
(* clients, of accept() failing or of anybody asking for a shutdown; an    *)
(* upstream that was asked answers, and hyper writes the answer.           *)
TaskFairness ==
  /\ WF_vars(ServerStep)
  /\ \A c \in Conns :
       /\ WF_vars(TaskStep(c))
       /\ WF_vars(Respond(c) \/ HandOver(c))

FairSpec == Spec /\ TaskFairness

(* As FairSpec, for clients that close their connections in the end.       *)
LeavingSpec == FairSpec /\ \A c \in Conns : WF_vars(ClientCloses(c))

-----------------------------------------------------------------------------
(* What must never happen.                                                 *)

(* Permits are neither lost nor made: whatever path a connection takes     *)
(* (closed, upgraded, panicked) and wherever the listen future is dropped, *)
(* every permit of the semaphore is available, owned by a task, or held by *)
(* the listener in accept().                                               *)
PermitsConserved ==
  /\ IsFiniteSet(holders)
  /\ permits + Cardinality(holders) + (IF pc = "accept" THEN 1 ELSE 0)
       = MaxConnections

(* What watchers of the State channel read is true: the server does not    *)
(* wait for a permit while it says Listening, nor for a connection while   *)
(* it says that the maximum is reached, and while it drains no more tasks  *)
(* remain than PendingConnections says.                                    *)
PublishedStateIsTrue ==
  /\ pc = "acquire" /\ permits = 0 => state = MaxConnectionsReached
  /\ pc = "accept" => state = Listening
  /\ pc = "collect" => /\ state.kind = "PendingConnections"
                       /\ Cardinality(subs) <= state.count

(* The `unsafe` block's SAFETY comment: while a service can still read the *)
(* leaked configuration, it has not been freed.                            *)
NoUseAfterFree == \A c \in Conns : stage[c] \in Active => config = "leaked"

(* acknowledge_notification unwraps the result of its send: the receiving  *)
(* half of the channel must be alive until the last acknowledgement.       *)
AckHasReceiver == \A c \in Conns : stage[c] = "acking" => notifier = "collecting"

-----------------------------------------------------------------------------
(* What must happen.                                                       *)

(* Once asked to shut down, a server whose clients leave returns, however  *)
(* the notification races with the end of the connections.                 *)
ShutdownCompletes == shutdown ~> pc = "done"

(* A connection task whose socket is done always ends, even when many of   *)
(* them have to squeeze their acknowledgement through a channel of one.    *)
ServedTasksEnd ==
  \A c \in Conns : stage[c] \in {"served", "unwinding"} ~> stage[c] = "ended"

(* A server that published MaxConnectionsReached accepts again or shuts    *)
(* down: the wake-up of the waiting listener is not lost.                  *)
MaxConnectionsIsTransient ==
  state.kind = "MaxConnectionsReached" ~> state.kind # "MaxConnectionsReached"

(* No connection stays in the accept queue for ever: it is served, or it   *)
(* is reset by a shutdown.                                                 *)
BacklogDrains == \A c \in Conns : stage[c] = "backlog" ~> stage[c] # "backlog"

-----------------------------------------------------------------------------
(* The promise of ServerLife.                                              *)

Live == {c \in Conns : stage[c] \in Active}
Admitted == {c \in Conns : stage[c] \notin {"away", "backlog", "reset"}}
Phase == CASE pc = "starting" -> "starting"
           [] pc \in Selecting -> "open"
           [] pc \in {"notify", "collect", "free"} -> "draining"
           [] pc = "done" -> "done"

Life == INSTANCE ServerLife WITH phase <- Phase, live <- Live,
                                 admitted <- Admitted

(* The server is an implementation of ServerLife: at most MaxConnections   *)
(* served at a time, none after closing, done only when all have left.     *)
ImplementsLife == Life!Spec
(* With clients that leave, it also keeps the liveness of that promise.    *)
ImplementsFairLife == Life!FairSpec

-----------------------------------------------------------------------------
(* The promise of Exchange, for each connection.                           *)

ConnOf(c) == CASE stage[c] \in {"away", "backlog", "idle"} -> "ready"
               [] stage[c] = "busy" -> "busy"
               [] OTHER -> "over"

Exchanges(c) == INSTANCE Exchange WITH conn <- ConnOf(c), tunnel <- tunnel[c]

(* However a connection ends and whatever its server is doing meanwhile,   *)
(* it serves one request at a time, and its socket goes to a tunnel only   *)
(* from a live connection: a tunnel whose client left first is cancelled.  *)
ServesExchanges ==
  /\ \A c \in Conns : Exchanges(c)!Init
  /\ [][\A c \in Conns : [Exchanges(c)!Next]_(Exchanges(c)!vars)]_vars

-----------------------------------------------------------------------------
(* What documentation and comments say, and the code does not do.          *)

(* server.rs:326 "Permit is dropped only when the accepted socket is done  *)
(* sending and receiving data."  An upgraded socket is not done then.      *)
PermitOutlivesSocket == \A c \in Conns : tunnel[c] = "open" => c \in holders

(* README.md:69 "Graceful shutdown (don't kill the process until all       *)
(* sockets are closed)".  When run() returns, the process ends.            *)
SocketsClosedWhenDone ==
  pc = "done" => \A c \in Conns : tunnel[c] # "open"

(* docs/task.md:221 (translated) "The active connection tasks finish their *)
(* current work, send an acknowledgement and end" once they were notified. *)
NotifiedTasksEnd ==
  \A c \in Conns :
    (stage[c] \in Active /\ c \in unread) ~> stage[c] \notin Active

=============================================================================
