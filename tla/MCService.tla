------------------------------ MODULE MCService ------------------------------
(***************************************************************************)
(* TLC instance of Service: two forwarding patterns, one of them shadowed  *)
(* for some URIs, a directory, and a URI that fits none (the proxy form    *)
(* http://host/path starts with no "/"); requests with and without an      *)
(* upgrade, with none, one and two Forwarded fields.                       *)
(***************************************************************************)
EXTENDS Service

CONSTANTS b1, b2, p1, p2

MCUris == {"/api/a", "/api", "/file", "http://host/"}
MCPrefixes ==
  [u \in MCUris |->
     CASE u = "/api/a" -> {"/api/a", "/api"}
       [] u = "/api" -> {"/api"}
       [] u = "/file" -> {"/file"}
       [] u = "http://host/" -> {}]
MCPatterns ==
  <<[uri |-> "/api/a", kind |-> "forward", cycle |-> <<b1>>],
    [uri |-> "/api", kind |-> "forward", cycle |-> <<b2, b1>>],
    [uri |-> "/file", kind |-> "serve", cycle |-> <<>>]>>

MCHosts == {"example.com"}
MCHeads ==
  {[upgrade |-> "none", forwarded |-> <<>>, host |-> "example.com"],
   [upgrade |-> "usable", forwarded |-> <<<<p1, p2>>>>, host |-> Unreadable],
   [upgrade |-> "unusable", forwarded |-> <<>>, host |-> Absent],
   [upgrade |-> "none", forwarded |-> <<<<p1>>, <<p2>>>>, host |-> Absent],
   [upgrade |-> "none", forwarded |-> <<Unreadable>>, host |-> "example.com"]}

=============================================================================
