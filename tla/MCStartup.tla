----------------------------- MODULE MCStartup -----------------------------
(* Two interfaces that come, go and change places in the list; one name    *)
(* that is never there; one collector.                                     *)
EXTENDS Startup

MCMenus == {<<>>, <<1>>, <<1, 2>>, <<2, 1>>}
=============================================================================
