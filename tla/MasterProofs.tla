---------------------------- MODULE MasterProofs ----------------------------
(***************************************************************************)
(* Proofs about module Master, for any set of servers.                     *)
(***************************************************************************)
EXTENDS Master, TLAPS

\* run spawns all servers anew, so nothing may have been joined before it.
TypeInv == TypeOK /\ (pc \in {"config", "init"} => joined = {})

LEMMA TypeInit == Init => TypeInv
  BY DEF Init, TypeInv, TypeOK, ServerStages

LEMMA TypeStep == TypeInv /\ [Next]_vars => TypeInv'
<1> SUFFICES ASSUME TypeInv, [Next]_vars PROVE TypeInv'
  OBVIOUS
<1> USE DEF TypeInv, TypeOK, ServerStages, Finished, MoveTo, In, connVars
<1>1. CASE ReadConfig \/ ConfigFails \/ Run \/ SelectShutdown \/ Return \/ RequestShutdown
  BY <1>1 DEF ReadConfig, ConfigFails, Run, SelectShutdown, Return, RequestShutdown
<1>2. CASE Send
  BY <1>2 DEF Send, Signalled, Receivers
<1>3. ASSUME MasterPanics PROVE TypeInv'
  BY <1>3 DEF MasterPanics
<1>4. CASE InitFails
  BY <1>4 DEF InitFails, CloseAll
<1>5. ASSUME NEW s \in Servers, InitServer(s) \/ SelectJoin(s) \/ Join(s)
      PROVE  TypeInv'
  BY <1>5 DEF InitServer, SelectJoin, Join
<1>6. ASSUME NEW s \in Servers,
             \/ ServerOpens(s) \/ ServerHears(s) \/ ListenFails(s)
             \/ ServerReturns(s) \/ ServerPanics(s)
      PROVE  TypeInv'
  BY <1>6 DEF ServerOpens, ServerHears, ListenFails, ServerReturns, ServerPanics
<1>7. ASSUME NEW s \in Servers, NEW c \in Conns, Admit(s, c) \/ Leave(s, c)
      PROVE  TypeInv'
  BY <1>7 DEF Admit, Leave
<1>8. CASE UNCHANGED vars
  BY <1>8 DEF vars
<1> QED
  BY <1>1, <1>2, <1>3, <1>4, <1>5, <1>6, <1>7, <1>8
  DEF Next, MasterStep, SendPanics, JoinPanics, Terminated

(* Types, and: only servers whose task has ended have been joined.         *)
THEOREM TypeCorrect == Spec => []TypeOK
<1>1. Spec => []TypeInv
  BY TypeInit, TypeStep, PTL DEF Spec
<1> QED
  BY <1>1, PTL DEF TypeInv

\* The master returns in the state in which everyone has been joined.  A
\* panic that was joined is the one that select! took.
JoinedInv ==
  /\ pc = "returned" => joined = Servers
  /\ ~joinOff /\ pc \in {"config", "init", "select", "send"} => joined = {}
  /\ \A s, t \in joined : server[s] = "panicked" /\ server[t] = "panicked" => s = t

\* A server that has returned serves nobody.
DrainedInv == \A s \in Servers : server[s] = "returned" => live[s] = {}

\* Where the sockets are before, at and after the start.
AddressInv ==
  /\ pc = "config" => \A s \in Servers : server[s] = "new"
  /\ pc = "init" => \A s \in Servers : server[s] \in {"new", "bound"}
  /\ pc = "failed" => \A s \in Servers : server[s] \in {"new", "closed"}
  /\ pc = "panicked"
       => \A s \in Servers : server[s] \notin {"bound", "spawned", "serving", "draining"}
  /\ pc \in {"select", "send", "join", "returned"}
       => \A s \in Servers : server[s] \notin {"new", "bound", "closed"}

Inv == TypeInv /\ JoinedInv /\ DrainedInv /\ AddressInv

LEMMA InvStep == Inv /\ [Next]_vars => Inv'
<1> SUFFICES ASSUME Inv, [Next]_vars PROVE Inv'
  OBVIOUS
<1>1. TypeInv'
  BY TypeStep DEF Inv
<1> USE DEF Inv, TypeInv, TypeOK, JoinedInv, DrainedInv, AddressInv, Finished, MoveTo,
            In, Running, connVars, ServerStages
<1>2. CASE ReadConfig \/ ConfigFails \/ Run \/ SelectShutdown \/ Return \/ RequestShutdown
  BY <1>1, <1>2
  DEF ReadConfig, ConfigFails, Run, SelectShutdown, Return, AllJoined, RequestShutdown
<1>3. CASE Send
  BY <1>1, <1>3 DEF Send
<1>4. ASSUME MasterPanics, pc \in {"send", "join"} PROVE Inv'
  BY <1>1, <1>4 DEF MasterPanics
<1>5. CASE InitFails
  BY <1>1, <1>5 DEF InitFails, CloseAll
<1>6. ASSUME NEW s \in Servers, InitServer(s) \/ SelectJoin(s) \/ Join(s)
      PROVE  Inv'
  BY <1>1, <1>6 DEF InitServer, SelectJoin, Join
<1>7. ASSUME NEW s \in Servers,
             \/ ServerOpens(s) \/ ServerHears(s) \/ ListenFails(s)
             \/ ServerReturns(s) \/ ServerPanics(s)
      PROVE  Inv'
  BY <1>1, <1>7 DEF ServerOpens, ServerHears, ListenFails, ServerReturns, ServerPanics
<1>8. ASSUME NEW s \in Servers, NEW c \in Conns, Admit(s, c) \/ Leave(s, c)
      PROVE  Inv'
  BY <1>1, <1>8 DEF Admit, Leave
<1>9. CASE UNCHANGED vars
  BY <1>9 DEF vars
<1> QED
  BY <1>2, <1>3, <1>4, <1>5, <1>6, <1>7, <1>8, <1>9
  DEF Next, MasterStep, SendPanics, JoinPanics, Terminated

LEMMA InvInvariant == Spec => []Inv
<1>1. Init => Inv
  BY TypeInit DEF Init, Inv, JoinedInv, DrainedInv, AddressInv
<1> QED
  BY <1>1, InvStep, PTL DEF Spec

(* When Master::run returns, the task of every server has ended, and so    *)
(* has every connection, but for those of one server that panicked.        *)
THEOREM MasterIsLast == Spec => []NoServerOutlivesMaster
<1>1. Inv => NoServerOutlivesMaster
  BY DEF Inv, TypeInv, TypeOK, JoinedInv, DrainedInv, In, Finished, NoServerOutlivesMaster
<1> QED
  BY <1>1, InvInvariant, PTL

(* Either every configured address is served, or none is.                  *)
THEOREM ServesAllOrNone == Spec => []AllAddressesOrNone
<1>1. Inv => AllAddressesOrNone
  BY DEF Inv, TypeInv, TypeOK, AddressInv, AllAddressesOrNone
<1> QED
  BY <1>1, InvInvariant, PTL

\* The master sends, and a server holds, a signal only after CTRL-C.
SignalInv ==
  /\ pc \in {"send", "join", "returned"} => shutdown
  /\ signalled # {} => shutdown

LEMMA SignalStep == Inv /\ SignalInv /\ [Next]_vars => SignalInv'
<1> SUFFICES ASSUME Inv, SignalInv, [Next]_vars PROVE SignalInv'
  OBVIOUS
<1> USE DEF SignalInv
<1>1. CASE MasterStep
  BY <1>1 DEF MasterStep, ReadConfig, Run, SelectShutdown, Send, SendPanics, Return,
              InitServer, SelectJoin, Join, JoinPanics, MasterPanics
<1>2. CASE \/ ConfigFails \/ InitFails \/ RequestShutdown \/ UNCHANGED vars
  BY <1>2 DEF ConfigFails, InitFails, RequestShutdown, vars
<1>3. ASSUME NEW s \in Servers,
             \/ ServerOpens(s) \/ ServerHears(s) \/ ListenFails(s)
             \/ ServerReturns(s) \/ ServerPanics(s)
             \/ \E c \in Conns : Admit(s, c) \/ Leave(s, c)
      PROVE  SignalInv'
  BY <1>3 DEF ServerOpens, ServerHears, ListenFails, ServerReturns, ServerPanics,
              Admit, Leave
<1> QED
  BY <1>1, <1>2, <1>3 DEF Next, Terminated

\* One step, and what it does to a server that serves.
LEMMA IsolationStep ==
  ASSUME Inv, SignalInv, [Next]_vars, NEW t \in Servers,
         server[t] = "serving", server'[t] # "serving"
  PROVE  shutdown \/ t \in failed' \/ server'[t] = "panicked"
<1> USE DEF Inv, TypeInv, TypeOK, AddressInv, SignalInv, MoveTo, In, Finished
<1>1. CASE MasterStep
  BY <1>1 DEF MasterStep, ReadConfig, Run, SelectShutdown, Send, SendPanics, Return,
              InitServer, SelectJoin, Join, JoinPanics, MasterPanics
<1>2. CASE \/ ConfigFails \/ InitFails \/ RequestShutdown \/ UNCHANGED vars
  BY <1>2 DEF ConfigFails, InitFails, CloseAll, RequestShutdown, vars
<1>3. ASSUME NEW s \in Servers,
             \/ ServerOpens(s) \/ ServerHears(s) \/ ListenFails(s)
             \/ ServerReturns(s) \/ ServerPanics(s)
             \/ \E c \in Conns : Admit(s, c) \/ Leave(s, c)
      PROVE  shutdown \/ t \in failed' \/ server'[t] = "panicked"
  BY <1>3 DEF ServerOpens, ServerHears, ListenFails, ServerReturns, ServerPanics,
              Admit, Leave
<1> QED
  BY <1>1, <1>2, <1>3 DEF Next, Terminated

(* No server is taken down by the end of another one.                      *)
THEOREM FailuresStayIsolated == Spec => FailuresAreIsolated
<1>1. Init => SignalInv
  BY DEF Init, SignalInv
<1>2. Inv /\ SignalInv /\ [Next]_vars
        => [\A s \in Servers :
              (server[s] = "serving" /\ server'[s] # "serving")
                => shutdown \/ s \in failed' \/ server'[s] = "panicked"]_vars
  BY IsolationStep
<1> QED
  BY <1>1, <1>2, SignalStep, InvInvariant, PTL DEF Spec, FailuresAreIsolated

-----------------------------------------------------------------------------
\* One step of the master or of a server, seen as a step of server t.
LEMMA LifeStep ==
  ASSUME Inv, [Next]_vars, NEW t \in Servers
  PROVE  [Life(t)!Next]_(Life(t)!vars)
<1> USE DEF Inv, TypeInv, TypeOK, DrainedInv, AddressInv, Finished, MoveTo, In, Running,
            connVars, ServerStages, Phase
<1> USE DEF Life!Next, Life!vars
<1>1. CASE ReadConfig \/ ConfigFails \/ Run \/ SelectShutdown \/ Return \/ RequestShutdown
  BY <1>1 DEF ReadConfig, ConfigFails, Run, SelectShutdown, Return, RequestShutdown
<1>2. CASE Send \/ UNCHANGED vars
  BY <1>2 DEF Send, vars
<1>3. ASSUME MasterPanics, pc \in {"send", "join"}
      PROVE  [Life(t)!Next]_(Life(t)!vars)
  <2>1. UNCHANGED <<live[t], admitted[t]>>
    BY <1>3 DEF MasterPanics
  <2>2. CASE server[t] = "serving"
    BY <1>3, <2>1, <2>2 DEF MasterPanics, Life!Close
  <2>3. CASE server[t] # "serving"
    BY <1>3, <2>1, <2>3 DEF MasterPanics
  <2> QED
    BY <2>2, <2>3
<1>4. CASE InitFails
  BY <1>4 DEF InitFails, CloseAll
<1>5. ASSUME NEW s \in Servers, InitServer(s) \/ SelectJoin(s) \/ Join(s)
      PROVE  [Life(t)!Next]_(Life(t)!vars)
  BY <1>5 DEF InitServer, SelectJoin, Join
<1>6. ASSUME NEW s \in Servers, ServerOpens(s)
      PROVE  [Life(t)!Next]_(Life(t)!vars)
  BY <1>6 DEF ServerOpens, Life!Open
<1>7. ASSUME NEW s \in Servers, ServerHears(s) \/ ListenFails(s) \/ ServerPanics(s)
      PROVE  [Life(t)!Next]_(Life(t)!vars)
  BY <1>7 DEF ServerHears, ListenFails, ServerPanics, Life!Close
<1>8. ASSUME NEW s \in Servers, ServerReturns(s)
      PROVE  [Life(t)!Next]_(Life(t)!vars)
  BY <1>8 DEF ServerReturns, Life!Finish
<1>9. ASSUME NEW s \in Servers, NEW c \in Conns, Admit(s, c)
      PROVE  [Life(t)!Next]_(Life(t)!vars)
  <2>1. CASE s # t
    BY <1>9, <2>1 DEF Admit
  <2>2. CASE s = t
    <3>1. Phase(t) = "open" /\ UNCHANGED Phase(t)
      BY <1>9, <2>2 DEF Admit
    <3>2. Life(t)!Cardinality(live[t]) = Cardinality(live[t])
      BY DEF Life!Cardinality, Cardinality
    <3>3. /\ c \notin admitted[t]
          /\ Cardinality(live[t]) < MaxConnections
          /\ live'[t] = live[t] \cup {c}
          /\ admitted'[t] = admitted[t] \cup {c}
      BY <1>9, <2>2 DEF Admit
    <3>4. Life(t)!Admit(c)
      BY <3>1, <3>2, <3>3 DEF Life!Admit
    <3> QED
      BY <3>4
  <2> QED
    BY <2>1, <2>2
<1>10. ASSUME NEW s \in Servers, NEW c \in Conns, Leave(s, c)
       PROVE  [Life(t)!Next]_(Life(t)!vars)
  BY <1>10 DEF Leave, Life!Leave
<1> QED
  BY <1>1, <1>2, <1>3, <1>4, <1>5, <1>6, <1>7, <1>8, <1>9, <1>10
  DEF Next, MasterStep, SendPanics, JoinPanics, Terminated

(* Seen from the master, every server keeps the promise of ServerLife,     *)
(* which module Server implements.                                         *)
THEOREM ServersKeepTheirPromise == Spec => ServersImplementLife
<1>1. Init => \A s \in Servers : Life(s)!Init
  BY DEF Init, Life!Init, Phase
<1>2. Inv /\ [Next]_vars => [\A s \in Servers : [Life(s)!Next]_(Life(s)!vars)]_vars
  BY LifeStep
<1> QED
  BY <1>1, <1>2, InvInvariant, PTL DEF Spec, ServersImplementLife

=============================================================================
