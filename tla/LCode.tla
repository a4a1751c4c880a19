-------------------------------- MODULE LCode --------------------------------
(***************************************************************************)
(* Register effects of the code emitter (lcode.c), the external           *)
(* collaborator the parser lparser.c drives through lcode.h.  lcode.c is   *)
(* not part of the repository's src/, so these operators are modelled     *)
(* from spec.md section 6 (materialise a descriptor into "any register",  *)
(* "the next free register" or an RK operand; reserve and release runs of *)
(* registers) and from the emitter contract the parser's calls rely on.   *)
(*                                                                         *)
(* Only what the scope and register manager can observe is kept: the      *)
(* register a value lands in and the free-register pointer.  Jump lists,  *)
(* opcodes and constant folding are left out.  An operator takes the      *)
(* current function record f (fields nactvar, freereg, maxstack) and an   *)
(* expression descriptor e, and returns [f |-> f', e |-> e'].             *)
(***************************************************************************)
EXTENDS Integers, FiniteSetsExt

\* An RK operand that is a constant, i.e. no register at all.
NoReg == -1

\* The expression descriptor expdesc: kind k, u.s.info and u.s.aux.
Exp(k, i, a) == [k |-> k, info |-> i, aux |-> a]

Kinds == {"VVOID", "VNIL", "VK", "VLOCAL", "VUPVAL", "VGLOBAL", "VINDEXED",
          "VNONRELOC", "VRELOCABLE", "VCALL", "VVARARG", "VBLOCK"}

\* Kinds that denote a compile-time constant (VK, VKNUM, VTRUE, VFALSE).
IsConst(e) == e.k \in {"VK", "VNIL"}

\* luaK_reserveregs / luaK_checkstack: grow the frame, remember the high-water mark.
ReserveRegs(f, n) ==
  [f EXCEPT !.freereg = @ + n, !.maxstack = Max({@, f.freereg + n})]

\* freereg: a register at or above nactvar is a temporary and is released.
FreeReg(f, r) ==
  IF r # NoReg /\ r >= f.nactvar THEN [f EXCEPT !.freereg = @ - 1] ELSE f

\* freeexp: only a value pinned to a register owns that register.
FreeExp(f, e) == IF e.k = "VNONRELOC" THEN FreeReg(f, e.info) ELSE f

\* luaK_setoneret: a call or vararg truncated to one value.
SetOneRet(e) ==
  CASE e.k = "VCALL"   -> Exp("VNONRELOC", e.info, 0)
    [] e.k = "VVARARG" -> Exp("VRELOCABLE", 0, 0)
    [] OTHER           -> e

\* luaK_setreturns: a vararg is placed at freereg and reserves it.
SetReturns(f, e) ==
  IF e.k = "VVARARG" THEN ReserveRegs(f, 1) ELSE f

\* luaK_dischargevars: variables become values; an indexed access frees
\* its key and then its table register.
DischargeVars(f, e) ==
  CASE e.k = "VLOCAL" -> [f |-> f, e |-> Exp("VNONRELOC", e.info, 0)]
    [] e.k \in {"VUPVAL", "VGLOBAL"} -> [f |-> f, e |-> Exp("VRELOCABLE", 0, 0)]
    [] e.k = "VINDEXED" ->
         [f |-> FreeReg(FreeReg(f, e.aux), e.info), e |-> Exp("VRELOCABLE", 0, 0)]
    [] e.k \in {"VCALL", "VVARARG"} -> [f |-> f, e |-> SetOneRet(e)]
    [] OTHER -> [f |-> f, e |-> e]

\* exp2reg after dischargevars: the value now lives in register reg.  A
\* block value is copied out of its (unreserved) result register.
ToReg(e, reg) == IF e.k = "VVOID" THEN e ELSE Exp("VNONRELOC", reg, 0)

\* luaK_exp2nextreg: discharge, release the value's own temporary, then
\* put the value in a freshly reserved register.
Exp2NextReg(f, e) ==
  LET d  == DischargeVars(f, e)
      f1 == ReserveRegs(FreeExp(d.f, d.e), 1)
  IN  [f |-> f1, e |-> ToReg(d.e, f1.freereg - 1)]

\* luaK_exp2anyreg: a value already in a register stays where it is (for a
\* local, in the local's own register); anything else goes to the next one.
Exp2AnyReg(f, e) ==
  LET d == DischargeVars(f, e)
  IN  IF d.e.k = "VNONRELOC" THEN d ELSE Exp2NextReg(d.f, d.e)

\* luaK_exp2RK: constants become RK operands, everything else a register.
Exp2RK(f, e) ==
  IF IsConst(e) THEN [f |-> f, e |-> Exp("VK", NoReg, 0)] ELSE Exp2AnyReg(f, e)

\* RK operand of a descriptor produced by Exp2RK.
RKReg(e) == IF e.k = "VNONRELOC" THEN e.info ELSE NoReg

\* luaK_indexed: t is in a register; the key becomes an RK operand.
Indexed(f, t, key) ==
  LET k == Exp2RK(f, key) IN [f |-> k.f, e |-> Exp("VINDEXED", t.info, RKReg(k.e))]

\* luaK_goiftrue: a non-constant condition is tested in a register, which
\* is released again.
GoIfTrue(f, e) ==
  IF IsConst(e) THEN f
  ELSE LET d == DischargeVars(f, e)
           a == IF d.e.k = "VNONRELOC" THEN d ELSE Exp2NextReg(d.f, d.e)
       IN  FreeExp(a.f, a.e)

\* luaK_infix for an arithmetic operator: a non-numeral operand becomes RK.
Infix(f, e) == IF IsConst(e) THEN [f |-> f, e |-> e] ELSE Exp2RK(f, e)

\* luaK_posfix / codearith: both operands are released, the higher
\* register first, and the result is relocatable.
Posfix(f, e1, e2) ==
  LET r2 == Exp2RK(f, e2)
      o1 == RKReg(e1)
      o2 == RKReg(r2.e)
      f1 == IF o1 > o2 THEN FreeReg(FreeReg(r2.f, o1), o2)
                       ELSE FreeReg(FreeReg(r2.f, o2), o1)
  IN  [f |-> f1, e |-> Exp("VRELOCABLE", 0, 0)]

\* luaK_prefix for '-', '#' (exp2anyreg then codearith) and '!' (codenot).
Prefix(f, e) ==
  IF IsConst(e) THEN [f |-> f, e |-> e]
  ELSE LET a == Exp2AnyReg(f, e)
       IN  [f |-> FreeExp(a.f, a.e), e |-> Exp("VRELOCABLE", 0, 0)]

\* luaK_storevar: store ex into the variable var.
StoreVar(f, var, ex) ==
  CASE var.k = "VLOCAL" ->
         LET d == DischargeVars(FreeExp(f, ex), ex) IN d.f
    [] var.k = "VINDEXED" ->
         LET r == Exp2RK(f, ex) IN FreeExp(r.f, r.e)
    [] OTHER ->
         LET r == Exp2AnyReg(f, ex) IN FreeExp(r.f, r.e)

\* luaK_self: the object goes to a register and is released; the method
\* and the object take two fresh registers, the first the call's base.
Self(f, e) ==
  LET a  == Exp2AnyReg(f, e)
      f1 == FreeExp(a.f, a.e)
  IN  [f |-> ReserveRegs(f1, 2), e |-> Exp("VNONRELOC", f1.freereg, 0)]

\* luaK_blockresults2regs: the values of a block, registers [info, aux),
\* are copied down to freereg and reserved; returns their number.
BlockCount(e) == e.aux - e.info
BlockResults2Regs(f, e) == ReserveRegs(f, BlockCount(e))
=============================================================================
