---------------------------- MODULE EndPointTable ----------------------------
(***************************************************************************)
(* What sockets may rely on of the ports of a node: who has one keeps it   *)
(* until it gives it back itself, or until all are taken away at once and  *)
(* for good.  RudpSocketImpl implements this.                              *)
(***************************************************************************)
CONSTANTS
  Slots,   \* what can be had: a family, an address and a port
  Owners,
  Free     \* the owner of what nobody has: none of Owners

VARIABLES
  owner,    \* of each slot
  closing   \* no owner is served any more

tableVars == <<owner, closing>>

TableInit ==
  /\ owner = [k \in Slots |-> Free]
  /\ closing = FALSE

(* One owner takes what is free, gives back what is its own, or both.      *)
Use(s) ==
  /\ ~closing
  /\ owner' \in [Slots -> Owners \cup {Free}]
  /\ \A k \in Slots : owner'[k] # owner[k] => {owner[k], owner'[k]} = {s, Free}
  /\ UNCHANGED closing

StartClosing ==
  /\ ~closing
  /\ closing' = TRUE
  /\ UNCHANGED owner

TakeAway(k) ==
  /\ closing
  /\ owner' = [owner EXCEPT ![k] = Free]
  /\ UNCHANGED closing

TableNext ==
  \/ \E s \in Owners : Use(s)
  \/ StartClosing
  \/ \E k \in Slots : TakeAway(k)

TableSpec == TableInit /\ [][TableNext]_tableVars

===============================================================================
