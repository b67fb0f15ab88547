------------------------------ MODULE MCLease ------------------------------
EXTENDS Lease

CONSTANTS o1, o2, o3

(* Two owners with two registrations, or with two lifetimes of one; three  *)
(* owners: one more than slots and the filter's token can admit; and a     *)
(* request left behind, with two owners on a pair or two pairs of one      *)
(* owner.                                                                  *)
MCSetups ==
    {[owners |-> {o1, o2}, regs |-> 2, ticks |-> 1, late |-> 0],
     [owners |-> {o1, o2}, regs |-> 1, ticks |-> 2, late |-> 0],
     [owners |-> {o1, o2, o3}, regs |-> 1, ticks |-> 1, late |-> 0],
     [owners |-> {o1, o2}, regs |-> 1, ticks |-> 1, late |-> 1],
     [owners |-> {o1}, regs |-> 2, ticks |-> 0, late |-> 1]}
=============================================================================
