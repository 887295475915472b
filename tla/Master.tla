------------------------------- MODULE Master -------------------------------
(***************************************************************************)
(* src/task/master.rs and src/main.rs: the program reads its config, makes *)
(* one Server per listening address, forwards the shutdown signal to all   *)
(* of them and waits for them.                                             *)
(*                                                                         *)
(* A server is seen here from outside, by what ServerLife promises of it   *)
(* (and module Server keeps): it admits connections until its listener     *)
(* fails or the signal arrives, then drains, then its task returns Ok,     *)
(* also after a listener error, since Server::run has no other result.     *)
(* Its receiver of the shutdown channel lives in its select!, and is       *)
(* dropped when it stops serving.  Connection tasks are detached: what     *)
(* becomes of the server's task does not stop them, the end of the process *)
(* does.                                                                   *)
(***************************************************************************)
EXTENDS Naturals, FiniteSets

CONSTANTS
  Servers,    \* the configured servers, once per listening address
  Panicky,    \* servers whose task may panic
  Conns,      \* connections that the clients of a server may open
  MaxConnections    \* config `connections`, taken to be the same for all

ASSUME PanickyAssumption == Panicky \subseteq Servers
ASSUME ConnectionsAssumption == MaxConnections \in Nat

VARIABLES
  pc,         \* where Master::init and Master::run are
  server,     \* where each server is
  live,       \* connections that each server is serving
  admitted,   \* connections that each server has ever served
  failed,     \* history: servers whose listener returned an error
  shutdown,   \* the master's shutdown future has completed
  signalled,  \* servers whose receiver holds the shutdown message
  joined,     \* servers whose result was taken out of the JoinSet
  joinOff     \* select! has disabled the join_next branch

connVars == <<live, admitted>>
vars == <<pc, server, connVars, failed, shutdown, signalled, joined, joinOff>>

(* new: not initialized.  bound: its socket listens.  closed: it was       *)
(* dropped before it ran.  spawned: its task has not been polled yet.      *)
(* aborted: the task was cancelled with the JoinSet.                       *)
ServerStages == {"new", "bound", "closed", "spawned", "serving", "draining",
                 "returned", "panicked", "aborted"}
Finished == {"returned", "panicked"}
\* The stages in which the server's shutdown future is alive.
Hearing == {"spawned", "serving"}

TypeOK ==
  /\ pc \in {"config", "init", "select", "send", "join", "returned", "failed", "panicked"}
  /\ server \in [Servers -> ServerStages]
  /\ live \in [Servers -> SUBSET Conns]
  /\ admitted \in [Servers -> SUBSET Conns]
  /\ failed \subseteq Servers
  /\ shutdown \in BOOLEAN
  /\ signalled \subseteq Servers
  /\ joined \subseteq {s \in Servers : server[s] \in Finished}
  /\ joinOff \in BOOLEAN

Init ==
  /\ pc = "config"
  /\ server = [s \in Servers |-> "new"]
  /\ live = [s \in Servers |-> {}]
  /\ admitted = [s \in Servers |-> {}]
  /\ failed = {}
  /\ shutdown = FALSE
  /\ signalled = {}
  /\ joined = {}
  /\ joinOff = FALSE

In(stage) == {s \in Servers : server[s] = stage}

MoveTo(s, stage) == server' = [server EXCEPT ![s] = stage]

-----------------------------------------------------------------------------
(* main, Master::init, shutdown_on and run.                                *)

\* rxh.toml was read and parsed.
ReadConfig ==
  /\ pc = "config"
  /\ pc' = "init"
  /\ UNCHANGED <<server, connVars, failed, shutdown, signalled, joined, joinOff>>

\* It could not be (`?`), or making one of its schedulers panicked.
ConfigFails ==
  /\ pc = "config"
  /\ pc' \in {"failed", "panicked"}
  /\ UNCHANGED <<server, connVars, failed, shutdown, signalled, joined, joinOff>>

\* Server::init succeeded for the next address (their order is abstracted).
InitServer(s) ==
  /\ pc = "init"
  /\ server[s] = "new"
  /\ MoveTo(s, "bound")
  /\ UNCHANGED <<pc, connVars, failed, shutdown, signalled, joined, joinOff>>

\* Mutant: the servers that could be initialized are kept.
CloseAllMutant == server
CloseAll == [s \in Servers |-> IF server[s] = "bound" THEN "closed" ELSE server[s]]

\* Server::init failed (`?`) or panicked (local_addr, or more permits than a
\* Semaphore can have): what was initialized so far is dropped.
InitFails ==
  /\ pc = "init"
  /\ In("new") # {}
  /\ pc' \in {"failed", "panicked"}
  /\ server' = CloseAll
  /\ UNCHANGED <<connVars, failed, shutdown, signalled, joined, joinOff>>

\* shutdown_on subscribes every server, and run spawns them all.
Run ==
  /\ pc = "init"
  /\ In("new") = {}
  /\ pc' = "select"
  /\ server' = [s \in Servers |-> "spawned"]
  /\ UNCHANGED <<connVars, failed, shutdown, signalled, joined, joinOff>>

\* Mutant: the branch runs the shutdown for any result.
SelectJoinMutant(s) ==
  /\ pc = "select" /\ ~joinOff
  /\ server[s] \in Finished
  /\ pc' = "send"
  /\ UNCHANGED <<server, connVars, failed, shutdown, signalled, joined, joinOff>>

\* join_next in select!: neither Ok(Ok(())) nor a JoinError matches the
\* pattern Some(Ok(Err(_))), so the result is dropped and the branch disabled.
SelectJoin(s) ==
  /\ pc = "select" /\ ~joinOff
  /\ server[s] \in Finished
  /\ joined' = joined \cup {s}
  /\ joinOff' = TRUE
  /\ UNCHANGED <<pc, server, connVars, failed, shutdown, signalled>>

SelectShutdown ==
  /\ pc = "select"
  /\ shutdown
  /\ pc' = "send"
  /\ UNCHANGED <<server, connVars, failed, shutdown, signalled, joined, joinOff>>

\* The live receivers of the shutdown channel.
Receivers == {s \in Servers : server[s] \in Hearing}

\* Mutant: one receiver gets the message, as on an mpsc channel.
SignalledMutant == {CHOOSE s \in Receivers : TRUE}
Signalled == Receivers

\* shutdown_notify.send(()) reaches whoever is subscribed.
Send ==
  /\ pc = "send"
  /\ Receivers # {}
  /\ signalled' = Signalled
  /\ pc' = "join"
  /\ UNCHANGED <<server, connVars, failed, shutdown, joined, joinOff>>

\* A panic of the master drops the JoinSet, which aborts what still runs.
MasterPanics ==
  /\ pc' = "panicked"
  /\ server' = [s \in Servers |->
                  CASE server[s] \in Finished -> server[s]
                    [] server[s] = "spawned" -> "closed"
                    [] OTHER -> "aborted"]
  /\ UNCHANGED <<connVars, failed, shutdown, signalled, joined, joinOff>>

\* send(()) is an error when nobody is subscribed any more, and is unwrapped.
SendPanics ==
  /\ pc = "send"
  /\ Receivers = {}
  /\ MasterPanics

\* Mutant: a task that is still running counts as joined.
JoinMutant(s) ==
  /\ pc = "join"
  /\ s \notin joined
  /\ joined' = joined \cup {s}
  /\ UNCHANGED <<pc, server, connVars, failed, shutdown, signalled, joinOff>>

\* join_next returned Some(Ok(Ok(()))).
Join(s) ==
  /\ pc = "join"
  /\ s \notin joined /\ server[s] = "returned"
  /\ joined' = joined \cup {s}
  /\ UNCHANGED <<pc, server, connVars, failed, shutdown, signalled, joinOff>>

\* result.unwrap() of a JoinError.
JoinPanics(s) ==
  /\ pc = "join"
  /\ s \notin joined /\ server[s] = "panicked"
  /\ MasterPanics

\* Mutant: the loop stops at the first result.
AllJoinedMutant == joined # {}
\* join_next returns None.
AllJoined == joined = Servers

Return ==
  /\ pc = "join"
  /\ AllJoined
  /\ pc' = "returned"
  /\ UNCHANGED <<server, connVars, failed, shutdown, signalled, joined, joinOff>>

MasterStep ==
  \/ ReadConfig
  \/ Run
  \/ SelectShutdown
  \/ Send
  \/ SendPanics
  \/ Return
  \/ \E s \in Servers : InitServer(s) \/ SelectJoin(s) \/ Join(s) \/ JoinPanics(s)

-----------------------------------------------------------------------------
(* The servers, see Server::run.  Once main has returned nothing runs.     *)
Running == pc \in {"select", "send", "join"}

\* The task is polled for the first time, up to its select!.
ServerOpens(s) ==
  /\ Running
  /\ server[s] = "spawned"
  /\ MoveTo(s, "serving")
  /\ UNCHANGED <<pc, connVars, failed, shutdown, signalled, joined, joinOff>>

Admit(s, c) ==
  /\ Running
  /\ server[s] = "serving"
  /\ c \notin admitted[s]
  /\ Cardinality(live[s]) < MaxConnections
  /\ live' = [live EXCEPT ![s] = @ \cup {c}]
  /\ admitted' = [admitted EXCEPT ![s] = @ \cup {c}]
  /\ UNCHANGED <<pc, server, failed, shutdown, signalled, joined, joinOff>>

\* A connection ends, also when the task of its server has panicked.
Leave(s, c) ==
  /\ Running
  /\ c \in live[s]
  /\ live' = [live EXCEPT ![s] = @ \ {c}]
  /\ UNCHANGED <<pc, server, admitted, failed, shutdown, signalled, joined, joinOff>>

\* The shutdown future of the server completes.
ServerHears(s) ==
  /\ Running
  /\ server[s] = "serving"
  /\ s \in signalled
  /\ MoveTo(s, "draining")
  /\ UNCHANGED <<pc, connVars, failed, shutdown, signalled, joined, joinOff>>

\* Listener::listen returns an error.
ListenFails(s) ==
  /\ Running
  /\ server[s] = "serving"
  /\ MoveTo(s, "draining")
  /\ failed' = failed \cup {s}
  /\ UNCHANGED <<pc, connVars, shutdown, signalled, joined, joinOff>>

\* Mutant: the server does not wait for its connections.
ServerReturnsMutant(s) ==
  /\ Running
  /\ server[s] = "draining"
  /\ MoveTo(s, "returned")
  /\ UNCHANGED <<pc, connVars, failed, shutdown, signalled, joined, joinOff>>
\* All connections are over: Server::run returns Ok(()).
ServerReturns(s) ==
  /\ Running
  /\ server[s] = "draining" /\ live[s] = {}
  /\ MoveTo(s, "returned")
  /\ UNCHANGED <<pc, connVars, failed, shutdown, signalled, joined, joinOff>>

ServerPanics(s) ==
  /\ Running
  /\ s \in Panicky
  /\ server[s] \in {"serving", "draining"}
  /\ MoveTo(s, "panicked")
  /\ UNCHANGED <<pc, connVars, failed, shutdown, signalled, joined, joinOff>>

\* CTRL-C
RequestShutdown ==
  /\ ~shutdown
  /\ shutdown' = TRUE
  /\ UNCHANGED <<pc, server, connVars, failed, signalled, joined, joinOff>>

Terminated ==
  /\ pc \in {"returned", "failed", "panicked"}
  /\ UNCHANGED vars

Next ==
  \/ MasterStep
  \/ ConfigFails
  \/ InitFails
  \/ RequestShutdown
  \/ \E s \in Servers : \/ ServerOpens(s)
                        \/ \E c \in Conns : Admit(s, c) \/ Leave(s, c)
                        \/ ServerHears(s)
                        \/ ListenFails(s)
                        \/ ServerReturns(s)
                        \/ ServerPanics(s)
  \/ Terminated

Spec == Init /\ [][Next]_vars

(* Tasks that can run are polled, and clients leave in the end.            *)
FairSpec ==
  /\ Spec
  /\ WF_vars(MasterStep)
  /\ \A s \in Servers :
       /\ WF_vars(ServerOpens(s))
       /\ WF_vars(ServerHears(s))
       /\ WF_vars(ServerReturns(s))
       /\ \A c \in Conns : WF_vars(Leave(s, c))

-----------------------------------------------------------------------------
(* The master returns only when no server is at work any more, whichever   *)
(* result its select! has swallowed before, and with the last connection   *)
(* of every server that did not panic: what the end of the process cuts    *)
(* short are at most the connections of one server, whose panic nobody saw.*)
NoServerOutlivesMaster ==
  pc = "returned" =>
    /\ \A s \in Servers : server[s] \in Finished
    /\ \A s \in Servers : live[s] # {} => server[s] = "panicked"
    /\ \A s, t \in In("panicked") : s = t

(* No address is served unless all of them could be bound, and an address  *)
(* that was bound in vain is given up with the others.                     *)
AllAddressesOrNone ==
  /\ pc = "failed" => \A s \in Servers : server[s] \in {"new", "closed"}
  /\ (\E s \in Servers : server[s] \in {"serving", "draining"})
       => \A s \in Servers : server[s] \notin {"new", "bound", "closed"}
  /\ pc = "panicked" => \A s \in Servers : server[s] # "bound"

(* While nobody has asked for a shutdown, a server stops serving only by   *)
(* its own failure; the end of another server does not take it down.       *)
FailuresAreIsolated ==
  [][\A s \in Servers :
       (server[s] = "serving" /\ server'[s] # "serving")
         => shutdown \/ s \in failed' \/ server'[s] = "panicked"]_vars

(* CTRL-C ends the program, whatever the servers went through before.      *)
ShutdownEndsMaster == shutdown ~> pc \in {"returned", "failed", "panicked"}

-----------------------------------------------------------------------------
(* The promise of ServerLife, for each server.                             *)

\* A server that panicked has dropped its socket, and never finishes.
Phase(s) == CASE server[s] \in {"new", "bound", "closed", "spawned"} -> "starting"
              [] server[s] = "serving" -> "open"
              [] server[s] \in {"draining", "panicked", "aborted"} -> "draining"
              [] server[s] = "returned" -> "done"

Life(s) == INSTANCE ServerLife WITH phase <- Phase(s), live <- live[s],
                                    admitted <- admitted[s]

(* The master's view of a server never goes beyond what Server was shown   *)
(* to implement, whatever happens to the others, to the master or to the   *)
(* task of the server itself.                                              *)
ServersImplementLife ==
  /\ \A s \in Servers : Life(s)!Init
  /\ [][\A s \in Servers : [Life(s)!Next]_(Life(s)!vars)]_vars

-----------------------------------------------------------------------------
(* What documentation and comments say, and the code does not do.          *)

(* master.rs:108 "when it's ready it sends the shutdown signal to all the  *)
(* servers, then waits for them to finish their pending tasks."            *)
MasterWaitsForServers ==
  pc \in {"returned", "panicked"} => \A s \in Servers : server[s] # "aborted"

(* docs/task.md:81 (translated) "If self.shutdown completes or a server    *)
(* fails: ... sends a signal through self.shutdown_notify" to every server.*)
FailureStopsEveryServer ==
  failed # {} ~> \A s \in Servers : server[s] # "serving"

=============================================================================
