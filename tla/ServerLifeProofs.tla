-------------------------- MODULE ServerLifeProofs --------------------------
(***************************************************************************)
(* Theorems about ServerLife: that its steps, taken together, give the     *)
(* bounds which Server and Master inherit through their refinements.       *)
(***************************************************************************)
EXTENDS ServerLife, FiniteSetTheorems, TLAPS

(* Who is live was admitted, and nobody is live before the server opens or *)
(* after it is done.                                                       *)
LiveInv ==
  /\ TypeOK
  /\ live \subseteq admitted
  /\ phase \in {"starting", "done"} => live = {}

Inv == LiveInv /\ Bounded

LEMMA InvInit == ASSUME MaxConnections \in Nat, Init PROVE Inv
  BY FS_EmptySet DEF Init, Inv, LiveInv, TypeOK, Bounded

LEMMA InvStep == ASSUME MaxConnections \in Nat, Inv, [Next]_vars PROVE Inv'
<1> USE DEF Inv, LiveInv, TypeOK, Bounded
<1>1. Cardinality(live) \in Nat
  BY FS_CardinalityType
<1>2. CASE Open \/ Close \/ Finish \/ UNCHANGED vars
  BY <1>2 DEF Open, Close, Finish, vars
<1>3. ASSUME NEW c \in Conns, Admit(c) PROVE Inv'
  <2>1. c \notin live
    BY <1>3 DEF Admit
  <2>2. /\ IsFiniteSet(live \cup {c})
        /\ Cardinality(live \cup {c}) = Cardinality(live) + 1
    BY <2>1, FS_AddElement
  <2> QED
    BY <1>1, <1>3, <2>2 DEF Admit
<1>4. ASSUME NEW c \in Conns, Leave(c) PROVE Inv'
  <2>1. /\ IsFiniteSet(live \ {c})
        /\ Cardinality(live \ {c}) = Cardinality(live) - 1
    BY <1>4, FS_RemoveElement DEF Leave
  <2> QED
    BY <1>1, <1>4, <2>1 DEF Leave
<1> QED
  BY <1>2, <1>3, <1>4 DEF Next

(* At most MaxConnections connections are served at any time, and the      *)
(* server is done only when everyone it admitted has left.                 *)
THEOREM PromiseIsBounded ==
  ASSUME MaxConnections \in Nat
  PROVE  Spec => [](Bounded /\ DoneIsDrained)
<1>1. Init => Inv
  BY InvInit
<1>2. Inv /\ [Next]_vars => Inv'
  BY InvStep
<1>3. Inv => Bounded /\ DoneIsDrained
  BY DEF Inv, LiveInv, DoneIsDrained
<1> QED
  BY <1>1, <1>2, <1>3, PTL DEF Spec

=============================================================================
