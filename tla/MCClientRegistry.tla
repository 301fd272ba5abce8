--------------------------- MODULE MCClientRegistry ----------------------------
(* ClientRegistry on a small instance: one sidecar to which everything happens *)
(* that may, and another that only starts at some time and stays.              *)
EXTENDS ClientRegistry, TLC

CONSTANTS c1, c2

MCTrouble == c1 :> {"death", "return", "break", "loss"} @@ c2 :> {}
MCSkews == c1 :> {-1, 0, 1} @@ c2 :> {0}
================================================================================
