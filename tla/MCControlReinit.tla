-------------------------- MODULE MCControlReinit --------------------------
EXTENDS ControlReinit

(* a session just created, one that several reconnects have cluttered, and *)
(* one in order                                                            *)
MCSessions == {<<"tab">>, <<"persistent", "persistent", "run-2", "tab">>,
               <<"persistent", "run-1", "tab">>}
=============================================================================
