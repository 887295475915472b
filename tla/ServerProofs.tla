---------------------------- MODULE ServerProofs ----------------------------
(***************************************************************************)
(* Proofs about module Server, for any set of connections, any number of   *)
(* permits and any length of the accept queue.                             *)
(***************************************************************************)
EXTENDS Server, TLAPS, FiniteSetTheorems

(* Type correctness needs the number of subscriptions to be a number.      *)
TypeInv == TypeOK /\ IsFiniteSet(subs)

LEMMA TypeInit == Init => TypeInv
<1> SUFFICES ASSUME Init PROVE TypeInv
  OBVIOUS
<1> USE DEF Init, N!NotifyInit
<1>1. IsFiniteSet(subs)
  BY FS_EmptySet
<1>2. N!NotifyTypeOK
  BY DEF N!NotifyTypeOK, N!AckCapacity
<1>3. state \in [kind : Kinds, count : Nat]
  BY DEF Starting, Kinds
<1>4. backlog \in Seq(Conns)
  OBVIOUS
<1>5. stage \in [Conns -> Stages] /\ tunnel \in [Conns -> Tunnels]
  BY DEF Stages, Tunnels
<1>6. /\ pc \in PCs /\ shutdown \in BOOLEAN /\ listenAgain \in BOOLEAN
      /\ config \in {"owned", "leaked", "freed"}
  BY DEF PCs
<1>7. permits \in Nat /\ holders \subseteq Conns
  BY MaxConnectionsAssumption
<1> QED
  BY <1>1, <1>2, <1>3, <1>4, <1>5, <1>6, <1>7 DEF TypeInv, TypeOK

LEMMA TypeStep == TypeInv /\ [Next]_vars => TypeInv'
<1> SUFFICES ASSUME TypeInv, [Next]_vars PROVE TypeInv'
  OBVIOUS
<1> USE MaxConnectionsAssumption
    DEF TypeInv, TypeOK, PCs, Selecting, Kinds, Stages, Active, Tunnels,
        N!NotifyTypeOK, N!AckCapacity, Listening, MaxConnectionsReached,
        taskVars, notifyVars
<1>1. CASE Run
  BY <1>1 DEF Run
<1>2. CASE CheckPermits
  BY <1>2 DEF CheckPermits, PermitsExhausted
<1>3. CASE Acquire
  BY <1>3 DEF Acquire, StateOnceAcquired
<1>4. CASE Accept
  <2> DEFINE c == Head(backlog)
  <2>1. c \in Conns /\ Tail(backlog) \in Seq(Conns)
    BY <1>4 DEF Accept
  <2>2. IsFiniteSet(subs')
    BY <1>4, FS_AddElement DEF Accept, N!Subscribe
  <2> QED
    BY <1>4, <2>1, <2>2 DEF Accept, N!Subscribe
<1>5. ASSUME LeaveSelect PROVE TypeInv'
  BY <1>5 DEF LeaveSelect, PermitsAfterSelect, StageAfterSelect
<1>6. CASE SendShutdown
  <2>1. Cardinality(subs) \in Nat
    BY FS_CardinalityType
  <2> QED
    BY <1>6, <2>1 DEF SendShutdown, N!SendAndCollect, PendingConnections
<1>7. CASE NobodyToNotify
  BY <1>7 DEF NobodyToNotify, N!SendFails
<1>8. CASE CollectAck
  BY <1>8 DEF CollectAck, N!CollectAck
<1>9. CASE CollectDone
  BY <1>9 DEF CollectDone, N!CollectDone
<1>10. CASE Finish
  BY <1>10 DEF Finish, Done
<1>11. CASE RequestShutdown
  BY <1>11 DEF RequestShutdown
<1>12. ASSUME NEW c \in Conns, TaskStep(c) PROVE TypeInv'
  <2> USE DEF UnchangedServer, MoveTo, GiveBack
  <2>1. CASE CheckNotification(c)
    BY <2>1 DEF CheckNotification, N!ReceiveNotification
  <2>2. CASE Acknowledge(c)
    BY <2>2 DEF Acknowledge, N!AcknowledgeNotification
  <2>3. CASE DropPermit(c)
    BY <2>3 DEF DropPermit
  <2>4. IsFiniteSet(subs \ {c})
    BY FS_RemoveElement
  <2>5. CASE DropSubscription(c)
    BY <2>4, <2>5 DEF DropSubscription, N!Unsubscribe
  <2>6. CASE UnwindPermit(c)
    BY <2>6 DEF UnwindPermit
  <2>7. CASE UnwindSubscription(c)
    BY <2>4, <2>7 DEF UnwindSubscription, N!Unsubscribe
  <2> QED
    BY <1>12, <2>1, <2>2, <2>3, <2>5, <2>6, <2>7 DEF TaskStep
<1>13. ASSUME NEW c \in Conns, HyperStep(c) PROVE TypeInv'
  BY <1>13 DEF HyperStep, Request, Respond, SpawnTunnel, HandOver, ClientCloses,
               Panic, TunnelEnds, CancelUpgrade, UnchangedServer, MoveTo
<1>14. ASSUME NEW c \in Conns, Connect(c) PROVE TypeInv'
  BY <1>14 DEF Connect, MoveTo
<1>15. CASE UNCHANGED vars
  BY <1>15 DEF vars
<1> QED
  BY <1>1, <1>2, <1>3, <1>4, <1>5, <1>6, <1>7, <1>8, <1>9, <1>10, <1>11, <1>12,
     <1>13, <1>14, <1>15 DEF Next, ServerStep, Shutdown, ListenFails, Terminated

(* Every variable of the server, its tasks and its notifier keeps its type *)
(* in every reachable state.                                               *)
THEOREM TypeCorrect == Spec => []TypeOK
<1>1. Spec => []TypeInv
  BY TypeInit, TypeStep, PTL DEF Spec
<1> QED
  BY <1>1, PTL DEF TypeInv

-----------------------------------------------------------------------------
(* The inductive invariant.  None of the safety properties is inductive    *)
(* alone: that the configuration outlives its readers, for one, holds      *)
(* because whoever is being served is subscribed, because collecting ends  *)
(* only without subscribers, and because a new one needs a select! that is *)
(* still running.                                                          *)

\* The accept queue holds each waiting connection once.
QueueInv ==
  /\ \A i \in 1..Len(backlog) : stage[backlog[i]] = "backlog"
  /\ \A i, j \in 1..Len(backlog) : backlog[i] = backlog[j] => i = j

\* Which stages own a permit and a subscription; unwinding may own either.
TaskInv ==
  \A c \in Conns :
    /\ stage[c] \in {"idle", "busy", "served", "acking", "releasing"}
         => c \in holders /\ c \in subs
    /\ stage[c] = "leaving" => c \notin holders /\ c \in subs
    /\ stage[c] \in {"away", "backlog", "reset", "ended"}
         => c \notin holders /\ c \notin subs

\* Subscribers and notifications exist only in these parts of Server::run.
PhaseInv ==
  /\ pc \in {"starting", "free", "done"} => subs = {}
  /\ unread # {} => pc = "collect"
  /\ \A c \in Conns : stage[c] = "acking" => pc = "collect"
  /\ pc = "collect" => notifier = "collecting"
  /\ pc \notin {"starting", "done"} => config = "leaked"

\* What is published at each point of Server::run and Listener::listen.
StateInv ==
  /\ pc \in {"select", "check", "accept"} => state = Listening
  /\ pc = "acquire" =>
       /\ state = IF listenAgain THEN MaxConnectionsReached ELSE Listening
       /\ permits = 0 => listenAgain
  /\ pc = "collect" => /\ state.kind = "PendingConnections"
                       /\ Cardinality(subs) <= state.count

Inv ==
  /\ TypeInv
  /\ QueueInv
  /\ TaskInv
  /\ PhaseInv
  /\ StateInv
  /\ PermitsConserved

LEMMA InvInit == Init => Inv
<1> SUFFICES ASSUME Init PROVE Inv
  OBVIOUS
<1> USE DEF Init, N!NotifyInit
<1>1. TypeInv
  BY TypeInit
<1>2. QueueInv /\ TaskInv /\ PhaseInv /\ StateInv
  BY DEF QueueInv, TaskInv, PhaseInv, StateInv
<1>3. PermitsConserved
  BY FS_EmptySet, MaxConnectionsAssumption DEF PermitsConserved
<1> QED
  BY <1>1, <1>2, <1>3 DEF Inv

LEMMA QueueStep == Inv /\ [Next]_vars => QueueInv'
<1> SUFFICES ASSUME Inv, [Next]_vars PROVE QueueInv'
  OBVIOUS
<1> USE DEF Inv, TypeInv, TypeOK, QueueInv, taskVars
<1>1. CASE Accept
  <2>1. /\ backlog' = Tail(backlog)
        /\ stage' = [stage EXCEPT ![Head(backlog)] = "idle"]
        /\ backlog # <<>>
    BY <1>1 DEF Accept
  <2>2. /\ Head(backlog) = backlog[1]
        /\ Len(backlog') = Len(backlog) - 1
        /\ \A i \in 1..Len(backlog') : backlog'[i] = backlog[i + 1]
    BY <2>1
  <2>3. ASSUME NEW i \in 1..Len(backlog') PROVE stage'[backlog'[i]] = "backlog"
    <3>1. i + 1 \in 1..Len(backlog) /\ 1 \in 1..Len(backlog) /\ i + 1 # 1
      BY <2>2
    <3>2. backlog[i + 1] # backlog[1] /\ backlog[i + 1] \in Conns
      BY <3>1
    <3> QED
      BY <2>1, <2>2, <3>1, <3>2
  <2>4. ASSUME NEW i \in 1..Len(backlog'), NEW j \in 1..Len(backlog'),
               backlog'[i] = backlog'[j]
        PROVE  i = j
    <3>1. i + 1 \in 1..Len(backlog) /\ j + 1 \in 1..Len(backlog)
      BY <2>2
    <3>2. i + 1 = j + 1
      BY <2>2, <2>4, <3>1
    <3> QED
      BY <3>2
  <2> QED
    BY <2>3, <2>4
<1>2. ASSUME NEW c \in Conns, Connect(c) PROVE QueueInv'
  <2>1. /\ backlog' = Append(backlog, c)
        /\ stage' = [stage EXCEPT ![c] = "backlog"]
        /\ stage[c] = "away"
    BY <1>2 DEF Connect, MoveTo
  <2>2. /\ Len(backlog') = Len(backlog) + 1
        /\ backlog'[Len(backlog) + 1] = c
        /\ \A i \in 1..Len(backlog) : /\ backlog'[i] = backlog[i]
                                      /\ backlog[i] \in Conns
                                      /\ backlog[i] # c
    BY <2>1
  <2>3. \A i \in 1..Len(backlog') : i \in 1..Len(backlog) \/ i = Len(backlog) + 1
    BY <2>2
  <2> QED
    BY <2>1, <2>2, <2>3
<1>3. ASSUME LeaveSelect PROVE QueueInv'
  BY <1>3 DEF LeaveSelect
<1>4. ASSUME NEW c \in Conns, NEW s \in Stages, MoveTo(c, s), stage[c] # "backlog",
             UNCHANGED backlog
      PROVE  QueueInv'
  BY <1>4 DEF MoveTo
<1>5. ASSUME UNCHANGED <<backlog, stage>> PROVE QueueInv'
  BY <1>5
<1>6. ASSUME NEW c \in Conns, TaskStep(c) \/ HyperStep(c) PROVE QueueInv'
  <2>1. /\ UNCHANGED backlog
        /\ stage[c] # "backlog" \/ UNCHANGED stage
        /\ UNCHANGED stage \/ \E s \in Stages : MoveTo(c, s)
    BY <1>6 DEF TaskStep, CheckNotification, Acknowledge, DropPermit,
                DropSubscription, UnwindPermit, UnwindSubscription, HyperStep,
                Request, Respond, SpawnTunnel, HandOver, ClientCloses, Panic,
                TunnelEnds, Active, UnchangedServer, Stages
  <2> QED
    BY <1>4, <1>5, <2>1
<1>7. CASE UNCHANGED vars
  BY <1>5, <1>7 DEF vars
<1>8. ASSUME ServerStep \/ RequestShutdown, ~Accept, ~Shutdown PROVE QueueInv'
  BY <1>5, <1>8 DEF ServerStep, Run, CheckPermits, Acquire, SendShutdown,
     NobodyToNotify, CollectAck, CollectDone, Finish, RequestShutdown
<1> QED
  BY <1>1, <1>2, <1>3, <1>6, <1>7, <1>8
  DEF Next, ServerStep, Shutdown, ListenFails, Terminated

LEMMA TaskInvStep == Inv /\ [Next]_vars => TaskInv'
<1> SUFFICES ASSUME Inv, [Next]_vars PROVE TaskInv'
  OBVIOUS
<1> USE DEF Inv, TypeInv, TypeOK, N!NotifyTypeOK, TaskInv, taskVars, notifyVars
<1>1. CASE Accept
  <2>1. Head(backlog) = backlog[1] /\ 1 \in 1..Len(backlog)
    BY <1>1 DEF Accept
  <2>2. Head(backlog) \in Conns
    BY <2>1
  <2> QED
    BY <1>1, <2>2 DEF Accept, N!Subscribe
<1>2. ASSUME LeaveSelect PROVE TaskInv'
  BY <1>2 DEF LeaveSelect, StageAfterSelect
<1>3. ASSUME UNCHANGED <<holders, subs, stage>> PROVE TaskInv'
  BY <1>3
<1>4. ASSUME ServerStep \/ RequestShutdown \/ UNCHANGED vars, ~Accept, ~Shutdown
      PROVE  TaskInv'
  BY <1>3, <1>4 DEF ServerStep, Run, CheckPermits, Acquire, SendShutdown,
     NobodyToNotify, CollectAck, CollectDone, Finish, RequestShutdown, vars,
     N!SendAndCollect, N!SendFails, N!CollectAck, N!CollectDone
<1>5. ASSUME NEW c \in Conns, TaskStep(c) PROVE TaskInv'
  <2> USE DEF MoveTo, UnchangedServer, GiveBack
  <2>1. CASE CheckNotification(c)
    BY <2>1 DEF CheckNotification, N!ReceiveNotification
  <2>2. CASE Acknowledge(c)
    BY <2>2 DEF Acknowledge, N!AcknowledgeNotification
  <2>3. CASE DropPermit(c)
    BY <2>3 DEF DropPermit
  <2>4. CASE DropSubscription(c)
    BY <2>4 DEF DropSubscription, N!Unsubscribe
  <2>5. CASE UnwindPermit(c)
    BY <2>5 DEF UnwindPermit
  <2>6. CASE UnwindSubscription(c)
    BY <2>6 DEF UnwindSubscription, N!Unsubscribe
  <2> QED
    BY <1>5, <2>1, <2>2, <2>3, <2>4, <2>5, <2>6 DEF TaskStep
<1>6. ASSUME NEW c \in Conns, HyperStep(c) PROVE TaskInv'
  BY <1>6 DEF HyperStep, Request, Respond, SpawnTunnel, HandOver, ClientCloses,
              Panic, TunnelEnds, Active, MoveTo
<1>7. ASSUME NEW c \in Conns, Connect(c) PROVE TaskInv'
  BY <1>7 DEF Connect, MoveTo
<1> QED
  BY <1>1, <1>2, <1>4, <1>5, <1>6, <1>7
  DEF Next, ServerStep, Shutdown, ListenFails, Terminated

LEMMA PhaseStep == Inv /\ [Next]_vars => PhaseInv'
<1> SUFFICES ASSUME Inv, [Next]_vars PROVE PhaseInv'
  OBVIOUS
<1> USE DEF Inv, TypeInv, TypeOK, N!NotifyTypeOK, PhaseInv, taskVars, notifyVars
<1>1. CASE Run
  BY <1>1 DEF Run
<1>2. CASE CheckPermits
  BY <1>2 DEF CheckPermits
<1>3. CASE Acquire
  BY <1>3 DEF Acquire
<1>4. CASE Accept
  BY <1>4 DEF Accept, N!Subscribe
<1>5. ASSUME LeaveSelect, pc \in Selecting PROVE PhaseInv'
  BY <1>5 DEF LeaveSelect, StageAfterSelect, Selecting
<1>6. CASE SendShutdown
  BY <1>6 DEF SendShutdown, N!SendAndCollect
<1>7. CASE NobodyToNotify
  BY <1>7 DEF NobodyToNotify, N!SendFails
<1>8. CASE CollectAck
  BY <1>8 DEF CollectAck, N!CollectAck
<1>9. CASE CollectDone
  <2>1. \A c \in Conns : stage[c] # "acking"
    BY <1>9 DEF CollectDone, N!CollectDone, N!AllSendersDropped, TaskInv
  <2> QED
    BY <1>9, <2>1 DEF CollectDone, N!CollectDone, N!AllSendersDropped
<1>10. CASE Finish
  BY <1>10 DEF Finish
<1>11. CASE RequestShutdown
  BY <1>11 DEF RequestShutdown
<1>12. ASSUME NEW c \in Conns, TaskStep(c) PROVE PhaseInv'
  BY <1>12 DEF TaskStep, CheckNotification, Acknowledge, DropPermit,
     DropSubscription, UnwindPermit, UnwindSubscription, MoveTo, UnchangedServer,
     GiveBack, N!ReceiveNotification, N!AcknowledgeNotification, N!Unsubscribe
<1>13. ASSUME NEW c \in Conns, HyperStep(c) PROVE PhaseInv'
  BY <1>13 DEF HyperStep, Request, Respond, SpawnTunnel, HandOver, ClientCloses,
               Panic, TunnelEnds, UnchangedServer, MoveTo
<1>14. ASSUME NEW c \in Conns, Connect(c) PROVE PhaseInv'
  BY <1>14 DEF Connect, MoveTo
<1>15. CASE UNCHANGED vars
  BY <1>15 DEF vars
<1> QED
  BY <1>1, <1>2, <1>3, <1>4, <1>5, <1>6, <1>7, <1>8, <1>9, <1>10, <1>11, <1>12,
     <1>13, <1>14, <1>15
  DEF Next, ServerStep, Shutdown, ListenFails, Terminated, AwaitPoints, Selecting

\* Only the listener takes permits, so one that is there stays there.
LEMMA PermitsStay ==
  ASSUME Inv, NEW c \in Conns, TaskStep(c) \/ HyperStep(c) \/ Connect(c)
  PROVE  /\ UNCHANGED <<pc, state, listenAgain>>
         /\ permits = permits' \/ permits' = permits + 1
         /\ subs' = subs \/ subs' = subs \ {c}
<1> USE DEF UnchangedServer, MoveTo, GiveBack, notifyVars, taskVars
<1>1. CASE TaskStep(c)
  BY <1>1 DEF TaskStep, CheckNotification, Acknowledge, DropPermit,
     DropSubscription, UnwindPermit, UnwindSubscription,
     N!ReceiveNotification, N!AcknowledgeNotification, N!Unsubscribe
<1>2. CASE HyperStep(c)
  BY <1>2 DEF HyperStep, Request, Respond, SpawnTunnel, HandOver, ClientCloses,
              Panic, TunnelEnds
<1>3. CASE Connect(c)
  BY <1>3 DEF Connect
<1> QED
  BY <1>1, <1>2, <1>3

LEMMA StateStep == Inv /\ [Next]_vars => StateInv'
<1> SUFFICES ASSUME Inv, [Next]_vars PROVE StateInv'
  OBVIOUS
<1> USE DEF Inv, TypeInv, TypeOK, StateInv, taskVars, notifyVars
<1>1. CASE Run \/ CheckPermits \/ Acquire
  BY <1>1 DEF Run, CheckPermits, PermitsExhausted, Acquire, StateOnceAcquired
<1>8. CASE RequestShutdown \/ UNCHANGED vars
  BY <1>8 DEF RequestShutdown, vars
<1>2. CASE Accept
  BY <1>2 DEF Accept
<1>3. ASSUME LeaveSelect PROVE StateInv'
  BY <1>3 DEF LeaveSelect
<1>4. CASE SendShutdown
  BY <1>4, FS_CardinalityType DEF SendShutdown, N!SendAndCollect, PendingConnections
<1>5. CASE NobodyToNotify \/ CollectDone \/ Finish
  BY <1>5 DEF NobodyToNotify, CollectDone, Finish
<1>6. CASE CollectAck
  BY <1>6 DEF CollectAck, N!CollectAck
<1>7. ASSUME NEW c \in Conns, TaskStep(c) \/ HyperStep(c) \/ Connect(c)
      PROVE  StateInv'
  <2>1. subs' \in SUBSET subs
    BY <1>7, PermitsStay
  <2>2. IsFiniteSet(subs)
    OBVIOUS
  <2>3. /\ Cardinality(subs) \in Nat /\ Cardinality(subs') \in Nat
        /\ Cardinality(subs') <= Cardinality(subs)
    BY ONLY <2>1, <2>2, FS_Subset, FS_CardinalityType
  <2>4. UNCHANGED <<pc, state, listenAgain>> /\ (permits' = 0 => permits = 0)
    BY <1>7, PermitsStay
  <2>5. state.count \in Nat
    BY DEF Kinds
  <2> QED
    BY <2>3, <2>4, <2>5
<1> QED
  BY <1>1, <1>2, <1>3, <1>4, <1>5, <1>6, <1>7, <1>8
  DEF Next, ServerStep, Shutdown, ListenFails, Terminated

\* A task gives back a permit that it holds, and just one.
LEMMA GiveBackConserves ==
  ASSUME Inv, NEW c \in holders, GiveBack(c), UNCHANGED pc
  PROVE  PermitsConserved'
<1>1. /\ IsFiniteSet(holders \ {c})
      /\ Cardinality(holders \ {c}) = Cardinality(holders) - 1
  BY FS_RemoveElement DEF Inv, PermitsConserved
<1>2. Cardinality(holders) \in Nat /\ permits \in Nat
  BY FS_CardinalityType DEF Inv, PermitsConserved, TypeInv, TypeOK
<1> QED
  BY <1>1, <1>2 DEF Inv, PermitsConserved, GiveBack

LEMMA PermitsStep == Inv /\ [Next]_vars => PermitsConserved'
<1> SUFFICES ASSUME Inv, [Next]_vars PROVE PermitsConserved'
  OBVIOUS
<1> USE DEF Inv, TypeInv, TypeOK, PermitsConserved, taskVars
<1>1. Cardinality(holders) \in Nat
  BY FS_CardinalityType
<1>2. CASE Accept
  <2> DEFINE c == Head(backlog)
  <2>1. c = backlog[1] /\ 1 \in 1..Len(backlog) /\ c \in Conns
    BY <1>2 DEF Accept
  <2>2. c \notin holders
    BY <2>1 DEF QueueInv, TaskInv
  <2>3. /\ IsFiniteSet(holders \cup {c})
        /\ Cardinality(holders \cup {c}) = Cardinality(holders) + 1
    BY <2>2, FS_AddElement
  <2> QED
    BY <1>1, <1>2, <2>3 DEF Accept
<1>3. CASE Run \/ CheckPermits \/ Acquire
  BY <1>1, <1>3 DEF Run, CheckPermits, Acquire
<1>4. ASSUME LeaveSelect PROVE PermitsConserved'
  BY <1>1, <1>4 DEF LeaveSelect, PermitsAfterSelect
<1>5. ASSUME UNCHANGED <<permits, holders>>, pc # "accept", pc' # "accept"
      PROVE  PermitsConserved'
  BY <1>5
<1>6. CASE SendShutdown \/ NobodyToNotify \/ CollectAck \/ CollectDone \/ Finish
  BY <1>5, <1>6 DEF SendShutdown, NobodyToNotify, CollectAck, CollectDone, Finish
<1>7. ASSUME UNCHANGED <<permits, holders, pc>> PROVE PermitsConserved'
  BY <1>7
<1>8. CASE RequestShutdown \/ UNCHANGED vars
  BY <1>7, <1>8 DEF RequestShutdown, vars
<1>9. ASSUME NEW c \in Conns, HyperStep(c) \/ Connect(c) PROVE PermitsConserved'
  BY <1>7, <1>9 DEF HyperStep, Request, Respond, SpawnTunnel, HandOver,
     ClientCloses, Panic, TunnelEnds, UnchangedServer, Connect
<1>10. ASSUME NEW c \in Conns, TaskStep(c) PROVE PermitsConserved'
  <2>1. CASE DropPermit(c) \/ UnwindPermit(c)
    <3>1. c \in holders /\ GiveBack(c) /\ UNCHANGED pc
      BY <2>1 DEF DropPermit, UnwindPermit, UnchangedServer, TaskInv
    <3> QED
      BY <3>1, GiveBackConserves
  <2>2. CASE ~DropPermit(c) /\ ~UnwindPermit(c)
    BY <1>7, <1>10, <2>2 DEF TaskStep, CheckNotification, Acknowledge,
       DropSubscription, UnwindSubscription, UnchangedServer
  <2> QED
    BY <2>1, <2>2
<1> QED
  BY <1>2, <1>3, <1>4, <1>6, <1>8, <1>9, <1>10
  DEF Next, ServerStep, Shutdown, ListenFails, Terminated

LEMMA InvInvariant == Spec => []Inv
<1>1. Inv /\ [Next]_vars => Inv'
  BY TypeStep, QueueStep, TaskInvStep, PhaseStep, StateStep, PermitsStep DEF Inv
<1> QED
  BY <1>1, InvInit, PTL DEF Spec

-----------------------------------------------------------------------------
(* No permit of the connections semaphore is ever lost or made up.         *)
THEOREM PermitsAreConserved == Spec => []PermitsConserved
<1>1. Inv => PermitsConserved
  BY DEF Inv
<1> QED
  BY <1>1, InvInvariant, PTL

(* What is published on the State channel is true of the server.           *)
THEOREM PublishedStateIsAlwaysTrue == Spec => []PublishedStateIsTrue
<1>1. Inv => PublishedStateIsTrue
  BY DEF Inv, StateInv, PublishedStateIsTrue
<1> QED
  BY <1>1, InvInvariant, PTL

(* The SAFETY comment of the unsafe block holds: no service that can still *)
(* run refers to the configuration once it has been freed.                 *)
THEOREM ConfigOutlivesReaders == Spec => []NoUseAfterFree
<1>1. Inv => NoUseAfterFree
  BY DEF Inv, TaskInv, PhaseInv, NoUseAfterFree, Active
<1> QED
  BY <1>1, InvInvariant, PTL

(* The unwrap in acknowledge_notification never panics.                    *)
THEOREM AcksAreReceived == Spec => []AckHasReceiver
<1>1. Inv => AckHasReceiver
  BY DEF Inv, PhaseInv, AckHasReceiver
<1> QED
  BY <1>1, InvInvariant, PTL

-----------------------------------------------------------------------------
(* The refinement of ServerLife.                                           *)

LEMMA LifeInit == Init => Life!Init
<1> SUFFICES ASSUME Init PROVE Life!Init
  OBVIOUS
<1>1. Phase = "starting"
  BY DEF Init, Phase, Selecting
<1>2. Live = {} /\ Admitted = {}
  BY DEF Init, Live, Admitted, Active
<1> QED
  BY <1>1, <1>2 DEF Life!Init

\* Every permit that is not free or held in accept() bounds who is served.
LEMMA LiveBelowMaximum ==
  ASSUME Inv, pc = "accept"
  PROVE  Cardinality(Live) < MaxConnections
<1>1. Live \in SUBSET holders
  BY DEF Inv, TaskInv, Live, Active
<1>2. IsFiniteSet(holders) /\ permits \in Nat
      /\ permits + Cardinality(holders) + 1 = MaxConnections
  BY DEF Inv, PermitsConserved, TypeInv, TypeOK
<1>3. /\ Cardinality(holders) \in Nat /\ Cardinality(Live) \in Nat
      /\ Cardinality(Live) <= Cardinality(holders)
  BY ONLY <1>1, <1>2, FS_Subset, FS_CardinalityType
<1> QED
  BY <1>2, <1>3, MaxConnectionsAssumption

\* A step of a connection that is not served before or after it is invisible.
LEMMA MoveOutOfSight ==
  ASSUME Inv, NEW c \in Conns, NEW s \in Stages, MoveTo(c, s), UNCHANGED pc,
         \/ stage[c] \in Active /\ s \in Active
         \/ /\ stage[c] \notin Active /\ s \notin Active
            /\ stage[c] \in {"away", "backlog", "reset"}
                 <=> s \in {"away", "backlog", "reset"}
  PROVE  UNCHANGED Life!vars
<1>1. UNCHANGED Phase
  BY DEF Phase
<1>2. UNCHANGED Live /\ UNCHANGED Admitted
  BY DEF Live, Admitted, MoveTo, Inv, TypeInv, TypeOK, Active
<1> QED
  BY <1>1, <1>2 DEF Life!vars

\* A connection that ends being served leaves.
LEMMA MoveLeaves ==
  ASSUME Inv, NEW c \in Conns, NEW s \in {"served", "unwinding"}, MoveTo(c, s),
         UNCHANGED pc, stage[c] \in Active
  PROVE  Life!Leave(c)
<1>1. UNCHANGED Phase
  BY DEF Phase
<1>2. c \in Live /\ Live' = Live \ {c} /\ UNCHANGED Admitted
  BY DEF Live, Admitted, MoveTo, Inv, TypeInv, TypeOK, Active
<1> QED
  BY <1>1, <1>2 DEF Life!Leave

LEMMA LifeStep == Inv /\ [Next]_vars => [Life!Next]_Life!vars
<1> SUFFICES ASSUME Inv, [Next]_vars PROVE Life!Next \/ UNCHANGED Life!vars
  BY DEF Life!vars
<1> USE DEF taskVars, Selecting
<1>1. CASE Run
  <2>1. Phase = "starting" /\ Phase' = "open"
    BY <1>1 DEF Run, Phase
  <2>2. UNCHANGED Live /\ UNCHANGED Admitted
    BY <1>1 DEF Run, Live, Admitted
  <2> QED
    BY <2>1, <2>2 DEF Life!Next, Life!Open
<1>2. ASSUME UNCHANGED stage, UNCHANGED Phase PROVE UNCHANGED Life!vars
  BY <1>2 DEF Life!vars, Live, Admitted
<1>3. CASE \/ CheckPermits \/ Acquire \/ SendShutdown \/ NobodyToNotify
           \/ CollectAck \/ CollectDone \/ RequestShutdown \/ UNCHANGED vars
  <2>1. UNCHANGED stage
    BY <1>3 DEF CheckPermits, Acquire, SendShutdown, NobodyToNotify, CollectAck,
                CollectDone, RequestShutdown, vars
  <2>2. UNCHANGED Phase
    BY <1>3 DEF CheckPermits, Acquire, SendShutdown, NobodyToNotify, CollectAck,
                CollectDone, RequestShutdown, vars, Phase
  <2> QED
    BY <1>2, <2>1, <2>2
<1>4. CASE Accept
  <2> DEFINE c == Head(backlog)
  <2>1. c = backlog[1] /\ 1 \in 1..Len(backlog) /\ c \in Conns
    BY <1>4 DEF Accept, Inv, TypeInv, TypeOK
  <2>2. stage[c] = "backlog"
    BY <2>1 DEF Inv, QueueInv
  <2>3. Phase = "open" /\ UNCHANGED Phase
    BY <1>4 DEF Accept, Phase
  <2>4. c \notin Admitted /\ Live' = Live \cup {c} /\ Admitted' = Admitted \cup {c}
    BY <1>4, <2>1, <2>2 DEF Accept, Live, Admitted, Active, Inv, TypeInv, TypeOK
  <2>5. Cardinality(Live) < MaxConnections
    BY <1>4, LiveBelowMaximum DEF Accept
  <2>6. Life!Cardinality(Live) = Cardinality(Live)
    BY DEF Life!Cardinality, Cardinality
  <2>7. Life!Admit(c)
    BY <2>3, <2>4, <2>5, <2>6 DEF Life!Admit
  <2> QED
    BY <2>1, <2>7 DEF Life!Next
<1>5. ASSUME LeaveSelect, pc \in Selecting PROVE Life!Close
  <2>1. Phase = "open" /\ Phase' = "draining"
    BY <1>5 DEF LeaveSelect, Phase
  <2>2. UNCHANGED Live /\ UNCHANGED Admitted
    BY <1>5 DEF LeaveSelect, StageAfterSelect, Live, Admitted, Active
  <2> QED
    BY <2>1, <2>2 DEF Life!Close
<1>6. CASE Finish
  <2>1. Phase = "draining" /\ Phase' = "done"
    BY <1>6 DEF Finish, Phase
  <2>2. UNCHANGED Live /\ UNCHANGED Admitted
    BY <1>6 DEF Finish, Live, Admitted
  <2>3. Live = {}
    BY <1>6 DEF Finish, Live, Active, Inv, TaskInv, PhaseInv
  <2> QED
    BY <2>1, <2>2, <2>3 DEF Life!Next, Life!Finish
<1>7. ASSUME NEW c \in Conns, TaskStep(c) PROVE UNCHANGED Life!vars
  <2> USE DEF UnchangedServer, Active, Stages
  <2>1. CASE CheckNotification(c)
    BY <2>1, MoveOutOfSight DEF CheckNotification
  <2>2. CASE Acknowledge(c)
    BY <2>2, MoveOutOfSight DEF Acknowledge
  <2>3. CASE DropPermit(c)
    BY <2>3, MoveOutOfSight DEF DropPermit
  <2>4. CASE DropSubscription(c)
    BY <2>4, MoveOutOfSight DEF DropSubscription
  <2>5. CASE UnwindPermit(c)
    BY <2>5, MoveOutOfSight DEF UnwindPermit
  <2>6. CASE UnwindSubscription(c)
    BY <2>6, MoveOutOfSight DEF UnwindSubscription
  <2> QED
    BY <1>7, <2>1, <2>2, <2>3, <2>4, <2>5, <2>6 DEF TaskStep
<1>8. ASSUME NEW c \in Conns, HyperStep(c) PROVE Life!Leave(c) \/ UNCHANGED Life!vars
  <2> USE DEF UnchangedServer, Active, Stages
  <2>1. CASE Request(c)
    BY <2>1, MoveOutOfSight DEF Request
  <2>2. CASE Respond(c)
    BY <2>2, MoveOutOfSight DEF Respond
  <2>3. CASE SpawnTunnel(c) \/ TunnelEnds(c)
    BY <1>2, <2>3 DEF SpawnTunnel, TunnelEnds, Phase
  <2>4. CASE HandOver(c)
    BY <2>4, MoveLeaves DEF HandOver
  <2>5. CASE ClientCloses(c)
    BY <2>5, MoveLeaves DEF ClientCloses
  <2>6. CASE Panic(c)
    BY <2>6, MoveLeaves DEF Panic
  <2> QED
    BY <1>8, <2>1, <2>2, <2>3, <2>4, <2>5, <2>6 DEF HyperStep
<1>9. ASSUME NEW c \in Conns, Connect(c) PROVE UNCHANGED Life!vars
  BY <1>9, MoveOutOfSight DEF Connect, Active, Stages
<1> QED
  BY <1>1, <1>3, <1>4, <1>5, <1>6, <1>7, <1>8, <1>9
  DEF Next, ServerStep, Shutdown, ListenFails, Terminated, AwaitPoints, Life!Next

(* The server keeps the promise of ServerLife, whatever the order in which *)
(* tasks end, panic, acknowledge and are notified.                         *)
THEOREM Refinement == Spec => ImplementsLife
<1>1. Spec => [][Life!Next]_Life!vars
  BY InvInvariant, LifeStep, PTL DEF Spec
<1> QED
  BY <1>1, LifeInit, PTL DEF Spec, ImplementsLife, Life!Spec

Promise == INSTANCE ServerLifeProofs WITH phase <- Phase, live <- Live,
                                          admitted <- Admitted

(* What follows from the promise holds of the server: it never serves more *)
(* than MaxConnections at a time, and nobody once it has published Done.   *)
THEOREM ServedAreBounded == Spec => [](Life!Bounded /\ Life!DoneIsDrained)
<1>1. Promise!Spec => [](Promise!Bounded /\ Promise!DoneIsDrained)
  BY MaxConnectionsAssumption, Promise!PromiseIsBounded
<1>2. Life!Init => Promise!Init
  BY DEF Promise!Init, Life!Init
<1>3. [Life!Next]_(Life!vars) => [Promise!Next]_(Promise!vars)
  BY DEF Promise!Next, Life!Next, Promise!vars, Life!vars, Promise!Open, Life!Open,
         Promise!Close, Life!Close, Promise!Finish, Life!Finish,
         Promise!Admit, Life!Admit, Promise!Leave, Life!Leave,
         Promise!Cardinality, Life!Cardinality
<1>4. /\ Promise!Bounded => Life!Bounded
      /\ Promise!DoneIsDrained => Life!DoneIsDrained
  BY DEF Promise!Bounded, Life!Bounded, Promise!DoneIsDrained, Life!DoneIsDrained,
         Promise!Cardinality, Life!Cardinality, Promise!IsFiniteSet, Life!IsFiniteSet
<1>5. Spec => Life!Init /\ [][Life!Next]_(Life!vars)
  BY Refinement, PTL DEF ImplementsLife, Life!Spec
<1> QED
  BY <1>1, <1>2, <1>3, <1>4, <1>5, PTL DEF Promise!Spec

-----------------------------------------------------------------------------
\* A tunnel waits for its socket only while the upgrade is being answered.
TunnelInv == \A c \in Conns : tunnel[c] = "pending" => stage[c] = "busy"

\* A step of the server or of any connection, seen as a step of connection d.
LEMMA ExchangeStep ==
  ASSUME Inv, TunnelInv, [Next]_vars, NEW d \in Conns
  PROVE  /\ [Exchanges(d)!Next]_(Exchanges(d)!vars)
         /\ (tunnel[d] = "pending" => stage[d] = "busy")'
<1> DEFINE Goal == /\ [Exchanges(d)!Next]_(Exchanges(d)!vars)
                   /\ (tunnel[d] = "pending" => stage[d] = "busy")'
<1> USE DEF TunnelInv, Exchanges!Next, Exchanges!vars, ConnOf, taskVars
<1>1. CASE \/ Run \/ CheckPermits \/ Acquire \/ SendShutdown \/ NobodyToNotify
           \/ CollectAck \/ CollectDone \/ Finish \/ RequestShutdown \/ UNCHANGED vars
  <2>1. UNCHANGED <<stage, tunnel>>
    BY <1>1 DEF Run, CheckPermits, Acquire, SendShutdown, NobodyToNotify, CollectAck,
                CollectDone, Finish, RequestShutdown, vars
  <2> QED
    BY <2>1
<1>2. CASE Accept
  <2> DEFINE c == Head(backlog)
  <2>1. c = backlog[1] /\ 1 \in 1..Len(backlog) /\ c \in Conns
    BY <1>2 DEF Accept, Inv, TypeInv, TypeOK
  <2>2. stage[c] = "backlog"
    BY <2>1 DEF Inv, QueueInv
  <2> QED
    BY <1>2, <2>1, <2>2 DEF Accept, Inv, TypeInv, TypeOK
<1>3. ASSUME LeaveSelect PROVE Goal
  BY <1>3 DEF LeaveSelect, StageAfterSelect, Exchanges!Close
<1>4. ASSUME NEW c \in Conns, TaskStep(c) PROVE Goal
  <2>1. UNCHANGED tunnel
    BY <1>4 DEF TaskStep, CheckNotification, Acknowledge, DropPermit,
                DropSubscription, UnwindPermit, UnwindSubscription
  <2>2. PICK s \in {"acking", "releasing", "leaving", "unwinding", "ended"} :
          /\ stage[c] \in {"served", "acking", "releasing", "leaving", "unwinding"}
          /\ MoveTo(c, s)
    BY <1>4 DEF TaskStep, CheckNotification, Acknowledge, DropPermit,
                DropSubscription, UnwindPermit, UnwindSubscription
  <2> QED
    BY <2>1, <2>2 DEF MoveTo, Inv, TypeInv, TypeOK
<1>5. ASSUME NEW c \in Conns, HyperStep(c) PROVE Goal
  <2>1. stage \in [Conns -> Stages] /\ tunnel \in [Conns -> Tunnels]
    BY DEF Inv, TypeInv, TypeOK
  <2> USE DEF MoveTo, CancelUpgrade, Active
  <2>2. CASE c # d
    <3>1. stage'[d] = stage[d] /\ tunnel'[d] = tunnel[d]
      BY <1>5, <2>1, <2>2 DEF HyperStep, Request, Respond, SpawnTunnel, HandOver,
                              ClientCloses, Panic, TunnelEnds
    <3> QED
      BY <3>1
  <2>3. CASE c = d
    <3>1. CASE Request(d)
      BY <3>1, <2>1 DEF Request, Exchanges!Request
    <3>2. CASE Respond(d)
      BY <3>2, <2>1 DEF Respond, Exchanges!Respond
    <3>3. CASE SpawnTunnel(d)
      BY <3>3, <2>1 DEF SpawnTunnel, Exchanges!SpawnTunnel
    <3>4. CASE HandOver(d)
      BY <3>4, <2>1 DEF HandOver, Exchanges!HandOver
    <3>5. CASE ClientCloses(d)
      BY <3>5, <2>1 DEF ClientCloses, Exchanges!Close
    <3>6. CASE Panic(d)
      BY <3>6, <2>1 DEF Panic, Exchanges!Close
    <3>7. CASE TunnelEnds(d)
      BY <3>7, <2>1 DEF TunnelEnds, Exchanges!TunnelEnds
    <3> QED
      BY <1>5, <2>3, <3>1, <3>2, <3>3, <3>4, <3>5, <3>6, <3>7 DEF HyperStep
  <2> QED
    BY <2>2, <2>3
<1>6. ASSUME NEW c \in Conns, Connect(c) PROVE Goal
  BY <1>6 DEF Connect, MoveTo, Inv, TypeInv, TypeOK
<1> QED
  BY <1>1, <1>2, <1>3, <1>4, <1>5, <1>6
  DEF Next, ServerStep, Shutdown, ListenFails, Terminated

(* Whatever happens around it, a connection serves its client as Exchange  *)
(* says: in particular no tunnel gets the socket of a dead connection.     *)
THEOREM ServerServesExchanges == Spec => ServesExchanges
<1>1. Init => TunnelInv /\ \A c \in Conns : Exchanges(c)!Init
  BY DEF Init, TunnelInv, Exchanges!Init, ConnOf
<1>2. Inv /\ TunnelInv /\ [Next]_vars => TunnelInv'
  BY ExchangeStep DEF TunnelInv
<1>3. Inv /\ TunnelInv /\ [Next]_vars
        => [\A c \in Conns : [Exchanges(c)!Next]_(Exchanges(c)!vars)]_vars
  BY ExchangeStep
<1> QED
  BY <1>1, <1>2, <1>3, InvInvariant, PTL DEF Spec, ServesExchanges

=============================================================================
