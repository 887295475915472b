----------------------------- MODULE ServerLife -----------------------------
(***************************************************************************)
(* What a Server of src/task/server.rs promises to its clients and to the  *)
(* Master, without saying how: it opens once, serves at most               *)
(* MaxConnections connections at a time, serves each connection once,      *)
(* admits nobody after it has closed, and is done only when everyone it    *)
(* admitted has left.  Module Server implements it.                        *)
(***************************************************************************)
EXTENDS Naturals, FiniteSets

CONSTANTS
  Conns,            \* the connections clients may open
  MaxConnections    \* config `connections`

VARIABLES
  phase,      \* "starting", "open", "draining" or "done"
  live,       \* connections being served
  admitted    \* connections ever served

vars == <<phase, live, admitted>>

TypeOK ==
  /\ phase \in {"starting", "open", "draining", "done"}
  /\ live \subseteq Conns
  /\ admitted \subseteq Conns

Init ==
  /\ phase = "starting"
  /\ live = {}
  /\ admitted = {}

Open ==
  /\ phase = "starting"
  /\ phase' = "open"
  /\ UNCHANGED <<live, admitted>>

Admit(c) ==
  /\ phase = "open"
  /\ c \notin admitted
  /\ Cardinality(live) < MaxConnections
  /\ live' = live \cup {c}
  /\ admitted' = admitted \cup {c}
  /\ UNCHANGED phase

Leave(c) ==
  /\ c \in live
  /\ live' = live \ {c}
  /\ UNCHANGED <<phase, admitted>>

Close ==
  /\ phase = "open"
  /\ phase' = "draining"
  /\ UNCHANGED <<live, admitted>>

Finish ==
  /\ phase = "draining"
  /\ live = {}
  /\ phase' = "done"
  /\ UNCHANGED <<live, admitted>>

Next ==
  \/ Open
  \/ Close
  \/ Finish
  \/ \E c \in Conns : Admit(c) \/ Leave(c)

Spec == Init /\ [][Next]_vars

(* A server that was started opens; clients leave in the end; and a closed *)
(* server that everyone has left finishes.  Closing is up to the operator. *)
FairSpec ==
  /\ Spec
  /\ WF_vars(Open)
  /\ WF_vars(Finish)
  /\ \A c \in Conns : WF_vars(Leave(c))

-----------------------------------------------------------------------------
(* At most MaxConnections connections are served at any time, and none is  *)
(* being served once the server is done.                                   *)
Bounded == IsFiniteSet(live) /\ Cardinality(live) <= MaxConnections
DoneIsDrained == phase = "done" => live = {}

=============================================================================
