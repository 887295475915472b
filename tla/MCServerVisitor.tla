--------------------------- MODULE MCServerVisitor ---------------------------
(***************************************************************************)
(* TLC instance of ServerVisitor: documents of a few keys, each with the   *)
(* values that its handler tells apart.                                    *)
(***************************************************************************)
EXTENDS ServerVisitor

CONSTANT Api    \* a uri other than the default

Forward(form, backends) == [form |-> form, backends |-> backends]

MCListenValues == {Malformed, 0, 2}
MCForwardValues ==
  {Malformed,
   Forward("one", <<Unweighted>>),
   Forward("list", <<2, Unweighted>>),
   Forward("list", <<>>),
   Forward("table", <<0, 1>>),
   Forward("table", <<0>>),
   Forward("arrayOfTables", <<1, 3>>)}
MCMatchValues ==
  LET Serve == [kind |-> "serve", value |-> "directory"]
      To(v) == [kind |-> "forward", value |-> v]
      At(u, actions) == [uri |-> u, actions |-> actions]
  IN {Malformed,
      <<>>,
      <<At(Api, <<To(Forward("one", <<Unweighted>>)), To(Malformed)>>), At(Absent, <<Serve>>)>>,
      <<At(Api, <<Serve, To(Malformed)>>), At(Absent, <<To(Malformed)>>)>>,
      <<At(Api, <<To(Forward("list", <<0>>))>>), At(Absent, <<>>)>>,
      <<At(Absent, <<>>), At(Absent, <<To(Forward("list", <<0>>))>>)>>}
MCServeValues == {Malformed, "directory"}
MCUriValues == {Malformed, Api}
MCNameValues == {Malformed, "name"}
MCConnectionsValues == {Malformed, 0, 5}

=============================================================================
