----------------------------- MODULE MC_TaskManager -----------------------------
EXTENDS TaskManager

CONSTANTS m1, m2, e1, e2, v1, v2, a1, a2

MC_Models == {m1, m2}
MC_Entities == {e1, e2}
MC_Vals == {v1, v2}
MC_Addrs == {a1, a2}

Reg(m) == [kind |-> "register", model |-> m]
Set(m, e, v) == [kind |-> "set", model |-> m, entity |-> e, val |-> v]
Del(m, e) == [kind |-> "del", model |-> m, entity |-> e]
Ctrl(a, s) == [kind |-> "controller", addr |-> a, shape |-> s]

(* Blocks of a world in chain order: m1 registered, then e1 and e2 written *)
(* concurrently, e1 deleted and rewritten; m2 of a namespace that is not   *)
(* indexed; a Cartridge controller and a deployment without the magic.     *)
MC_TickWorld ==
  <<Reg(m1), Reg(m2), Set(m1, e1, v1), Set(m1, e2, v1), Ctrl(a1, "magic"),
    Del(m1, e1), Set(m2, e1, v2), Set(m1, e1, v2), Ctrl(a2, "nomagic"), Set(m1, e2, v2)>>
(* A controller deployment whose username does not parse fails the tick. *)
MC_TickBadName == <<Reg(m1), Set(m1, e1, v1), Ctrl(a2, "badname"), Set(m1, e1, v2)>>
MC_Ticks == {MC_TickWorld, MC_TickBadName}
=============================================================================
