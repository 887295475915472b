------------------------------ MODULE Exchange ------------------------------
(***************************************************************************)
(* What a connection does for its client, as the server that owns it and   *)
(* the service that answers its requests both see it: requests are         *)
(* answered one after the other, and the last may be answered with an      *)
(* upgrade, whose tunnel gets the socket when, and only if, the connection *)
(* ends by handing it over.  Modules Server and Service implement it, so   *)
(* that what one assumes of the other is what the other does.              *)
(***************************************************************************)
VARIABLES
  conn,       \* "ready" for a request, "busy" with one, or "over"
  tunnel      \* "none", "pending", "open" or "closed"

vars == <<conn, tunnel>>

Init == conn = "ready" /\ tunnel = "none"

Request ==
  /\ conn = "ready"
  /\ conn' = "busy"
  /\ UNCHANGED tunnel

Respond ==
  /\ conn = "busy" /\ tunnel = "none"
  /\ conn' = "ready"
  /\ UNCHANGED tunnel

\* The request is answered with an upgrade.
SpawnTunnel ==
  /\ conn = "busy" /\ tunnel = "none"
  /\ tunnel' = "pending"
  /\ UNCHANGED conn

HandOver ==
  /\ conn = "busy" /\ tunnel = "pending"
  /\ conn' = "over"
  /\ tunnel' = "open"

\* The client closes, the connection fails or the handler panics.  A tunnel
\* that has not got the socket yet never will.
Close ==
  /\ conn \in {"ready", "busy"}
  /\ conn' = "over"
  /\ tunnel' = IF tunnel = "pending" THEN "closed" ELSE tunnel

TunnelEnds ==
  /\ tunnel = "open"
  /\ tunnel' = "closed"
  /\ UNCHANGED conn

Next ==
  \/ Request
  \/ Respond
  \/ SpawnTunnel
  \/ HandOver
  \/ Close
  \/ TunnelEnds

Spec == Init /\ [][Next]_vars

=============================================================================
