----------------------------- MODULE MCProtoDocs -----------------------------
(* A base set without messages, and a set that needs it.              *)
EXTENDS ProtoDocs

MCSchemaDocs == <<"app", "base">>
Set(file, needs, messages) == [file |-> file, needs |-> needs, messages |-> messages]
MCSetOf ==
  [types |-> Set("base.proto", {}, {}),
   first |-> Set("app.proto", {"base.proto"}, {"m"})]
MCUploads == {<<"app", "first">>, <<"base", "types">>}
MCPayload == [p \in ProtoPuts \cup Envelopes |-> "m"]

MCMixes ==
  {{"json", "again", "env"}, {"json", "proto", "del"}, {"env", "proto", "del"},
   {"env", "proto", "get"}, {"env", "att", "get"}, {"noid", "att", "json"}}
=============================================================================
