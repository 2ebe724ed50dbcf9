----------------------------- MODULE MCChannels -----------------------------
(* Small instances of Channels for TLC. *)
EXTENDS Channels

MCPosts == {<<"friend", "ask">>, <<"friend", "quit">>, <<"friend", "none">>, <<"stranger", "ask">>}
MCIdentities == [friend |-> {"alice", "1"}, stranger |-> {"unknown", "2"}]
=============================================================================
