---------------------------- MODULE MCRudpSocketRx ----------------------------
(***************************************************************************)
(* TLC instance of RudpSocketRx.  Sizes are scaled: an empty datagram, a   *)
(* small one and a large one.                                              *)
(***************************************************************************)
EXTENDS RudpSocketRx

MCDatagrams == {[id |-> 1, size |-> 0], [id |-> 2, size |-> 1],
                [id |-> 3, size |-> 2]}
MCErrnos == {"NOTERROR", "AGAIN"}

===============================================================================
