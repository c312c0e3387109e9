------------------------------ MODULE MCNotify ------------------------------
(* Two changes, a channel of one event, one failing request; loads of the  *)
(* backends may overtake one another.                                      *)
EXTENDS Notify

MCMaxLoads == [requests |-> 1, backends |-> 2]
=============================================================================
