--------------------------- MODULE MCLinearMemory ---------------------------
(***************************************************************************)
(* Two agents and a host on a memory of one page that can grow to three:   *)
(* by reslicing (capacity two) and by reallocating, or, when it is shared,  *)
(* inside its reservation.                                                 *)
(***************************************************************************)
EXTENDS LinearMemory

CONSTANTS main, agent, host

MCAgents == {main, agent}
MCHosts == {host}
MCValues == {0, 1}

Operation(kind, page, arg) == [kind |-> kind, page |-> page, arg |-> arg]

MCOps ==
  {Operation("store", 0, 1), Operation("store", 2, 1), Operation("load", 0, 0),
   Operation("wasi", 1, 1),
   Operation("grow", 0, 0), Operation("grow", 0, 1), Operation("grow", 0, 2),
   Operation("grow", 0, -1)}
=============================================================================
