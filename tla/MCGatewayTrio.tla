--------------------------- MODULE MCGatewayTrio ---------------------------
(* Two tasks, b depending on a; the run list given or left to selection. *)
EXTENDS GatewayTrio

MCDeps     == {<<"b", "a">>}
MCRunLists == {{}, {"a", "b"}}
MCNamed    == {{"a", "b"}}

=============================================================================
