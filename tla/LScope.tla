-------------------------------- MODULE LScope --------------------------------
(***************************************************************************)
(* Scope & Register Manager of lparser.c: the FuncState / BlockCnt        *)
(* records and the operations that change them (new_localvar,             *)
(* adjustlocalvars, removevars, enterblock, leaveblock, searchvar,        *)
(* markupval, indexupvalue, singlevaraux).  Each operation is an operator *)
(* from the records before the call to the records after it; LParser     *)
(* calls them from the actions of the grammar rules.                     *)
(*                                                                         *)
(* A function record f has the FuncState fields the parser reads and      *)
(* writes: nactvar, freereg, maxstack (f->maxstacksize), actvar (slot ->   *)
(* the name of the LocVar it indexes, INVALID for (unsigned short)-1),     *)
(* bl (the BlockCnt chain, innermost last), ups (fs->upvalues with the     *)
(* names of f->upvalues), isvararg; and two ghost fields: decl (the name   *)
(* the program text declared at each active slot) and opened (registers   *)
(* whose upvalue may be open on the path being compiled).                 *)
(***************************************************************************)
EXTENDS Integers, SequencesExt, LCode

CONSTANTS MaxRegs,   \* MAXSTACK: registers per function
          MaxVars,   \* INLUAI_MAXVARS: size of fs->actvar
          MaxUps     \* INLUAI_MAXUPVALUES

\* The marker enterblock writes into adopted slots, and a slot never written.
INVALID == "(invalid)"
NOVAR   == "(none)"

Slots == 0..(MaxRegs - 1)

\* open_func: a fresh FuncState (maxstacksize starts at 2).
NewFunc(vararg) ==
  [nactvar |-> 0, freereg |-> 0, maxstack |-> 2,
   actvar |-> [i \in Slots |-> NOVAR], bl |-> <<>>, ups |-> <<>>,
   isvararg |-> vararg, decl |-> [i \in Slots |-> NOVAR], opened |-> {}]

\* luaY_checklimit in new_localvar: the n-th pending name still fits.
VarFits(f, n) == f.nactvar + n + 1 <= MaxVars

\* new_localvar: record the name of the n-th pending local.
NewLocalVar(f, name, n) == [f EXCEPT !.actvar[f.nactvar + n] = name]

\* new_localvar for a whole list of names, pending at nactvar, nactvar+1, ...
NewLocalVars(f, names) ==
  [f EXCEPT !.actvar = [i \in Slots |->
      IF f.nactvar <= i /\ i < f.nactvar + Len(names)
      THEN names[i - f.nactvar + 1] ELSE @[i]]]

\* Every pending name passes new_localvar's limit check (else errorlimit).
NamesFit(f, names) == \A n \in 0..(Len(names) - 1) : VarFits(f, n)

\* adjustlocalvars: the pending names become active; the ghost decl
\* records the names the source text declared for those slots.
AdjustLocalVars(f, names) ==
  [f EXCEPT !.nactvar = @ + Len(names),
            !.decl = [i \in Slots |->
               IF f.nactvar <= i /\ i < f.nactvar + Len(names)
               THEN names[i - f.nactvar + 1] ELSE @[i]]]

\* Ghost: forget the declared names of the slots from level up.
ForgetDecl(f, level) ==
  [f EXCEPT !.decl = [i \in Slots |-> IF i >= level THEN NOVAR ELSE @[i]]]

\* removevars: deactivate locals down to tolevel.
RemoveVars(f, tolevel) ==
  ForgetDecl([f EXCEPT !.nactvar = IF @ > tolevel THEN tolevel ELSE @], tolevel)

\* searchvar: innermost active slot holding the name, or -1.
SearchVar(f, n) ==
  LET hits == {i \in 0..(f.nactvar - 1) : f.actvar[i] = n}
  IN  IF hits = {} THEN -1 ELSE Max(hits)

\* markupval: flag the innermost block whose nactvar is at most level.
MarkUpval(f, level) ==
  LET outer == {j \in 1..Len(f.bl) : f.bl[j].nactvar <= level}
  IN  IF outer = {} THEN f ELSE [f EXCEPT !.bl[Max(outer)].upval = TRUE]

\* indexupvalue: find (k, info) in the upvalue table or append it.
IndexUpvalue(f, name, k, info) ==
  LET hit == {u \in 1..Len(f.ups) : f.ups[u].k = k /\ f.ups[u].info = info}
  IN  IF hit # {} THEN [f |-> f, idx |-> Min(hit) - 1, err |-> FALSE]
      ELSE IF Len(f.ups) + 1 > MaxUps THEN [f |-> f, idx |-> 0, err |-> TRUE]
      ELSE [f |-> [f EXCEPT !.ups = Append(@, [k |-> k, info |-> info, name |-> name])],
            idx |-> Len(f.ups), err |-> FALSE]

\* singlevaraux over the FuncState chain F[1..i] (F[i] innermost).  Returns
\* the updated chain, the kind and info of the variable, and err when the
\* upvalue limit was exceeded.
RECURSIVE SingleVarAux(_, _, _, _)
SingleVarAux(F, i, n, base) ==
  IF i = 0 THEN [F |-> F, k |-> "VGLOBAL", info |-> NoReg, err |-> FALSE]
  ELSE LET v == SearchVar(F[i], n) IN
    IF v >= 0
    THEN [F |-> IF base THEN F ELSE [F EXCEPT ![i] = MarkUpval(@, v)],
          k |-> "VLOCAL", info |-> v, err |-> FALSE]
    ELSE LET r == SingleVarAux(F, i - 1, n, FALSE) IN
      IF r.k = "VGLOBAL" \/ r.err THEN r
      ELSE LET u == IndexUpvalue(r.F[i], n, r.k, r.info)
           IN  [F |-> [r.F EXCEPT ![i] = u.f], k |-> "VUPVAL",
                info |-> u.idx, err |-> u.err]

\* enterblock: push a BlockCnt snapshot, mark the live temporaries between
\* nactvar and freereg as invalid local slots and adopt them.
EnterBlock(f, isbreakable) ==
  [f EXCEPT !.bl = Append(@, [nactvar |-> f.nactvar, freereg |-> f.freereg,
                              upval |-> FALSE, isbreakable |-> isbreakable,
                              breaks |-> 0, brkopen |-> {}]),
            !.actvar = [i \in Slots |->
               IF f.nactvar <= i /\ i < f.freereg THEN INVALID ELSE @[i]],
            !.nactvar = f.freereg]

\* Registers whose open upvalues an OP_CLOSE at register a closes.
CloseFrom(open, a) == {r \in open : r < a}

\* Mutant of leaveblock: no OP_CLOSE for a block whose locals were captured.
LeaveBlockNoClose(f) ==
  LET b == Last(f.bl)
  IN  [f |-> [ForgetDecl(RemoveVars(f, b.freereg), b.nactvar) EXCEPT
                 !.nactvar = b.nactvar, !.freereg = b.freereg,
                 !.bl = Front(f.bl), !.opened = f.opened \cup b.brkopen],
       e |-> IF b.isbreakable THEN Exp("VBLOCK", b.freereg, b.freereg + 1)
                              ELSE Exp("VBLOCK", f.nactvar, f.freereg)]

\* Mutant of leaveblock: free the registers down to the outer locals
\* (fs->freereg = fs->nactvar) instead of restoring bl->freereg.
LeaveBlockFreeAll(f) ==
  LET b == Last(f.bl)
      open == IF b.upval THEN CloseFrom(f.opened, b.freereg) ELSE f.opened
  IN  [f |-> [ForgetDecl(RemoveVars(f, b.freereg), b.nactvar) EXCEPT
                 !.nactvar = b.nactvar, !.freereg = b.nactvar,
                 !.bl = Front(f.bl), !.opened = open \cup b.brkopen],
       e |-> IF b.isbreakable THEN Exp("VBLOCK", b.freereg, b.freereg + 1)
                              ELSE Exp("VBLOCK", f.nactvar, f.freereg)]

\* leaveblock: deactivate the block's locals, restore nactvar and freereg,
\* emit OP_CLOSE if a local was captured, patch the break list, and build
\* the block-value descriptor (when wanted).  The break paths join the
\* fall-through path at the exit, after the close.
LeaveBlock(f) ==
  LET b      == Last(f.bl)
      retreg == f.nactvar
      open   == IF b.upval THEN CloseFrom(f.opened, b.freereg) ELSE f.opened
  IN  [f |-> [ForgetDecl(RemoveVars(f, b.freereg), b.nactvar) EXCEPT
                 !.nactvar = b.nactvar, !.freereg = b.freereg,
                 !.bl = Front(f.bl), !.opened = open \cup b.brkopen],
       e |-> IF b.isbreakable THEN Exp("VBLOCK", b.freereg, b.freereg + 1)
                              ELSE Exp("VBLOCK", retreg, f.freereg)]

\* The innermost breakable block, as breakstat finds it (0 if none).
LoopIndex(f) ==
  LET loops == {j \in 1..Len(f.bl) : f.bl[j].isbreakable}
  IN  IF loops = {} THEN 0 ELSE Max(loops)

\* Mutant of breakstat: the upvalue flags of the skipped blocks are ignored.
BreakToNoClose(f) ==
  LET l == LoopIndex(f)
  IN  [f EXCEPT !.bl[l].breaks = @ + 1, !.bl[l].brkopen = @ \cup f.opened]

\* breakstat after the value is in place: OR the upvalue flags of the
\* blocks skipped, close them at the loop's register, and link a jump into
\* the loop's break list, carrying the upvalues still open on that path.
BreakTo(f) ==
  LET l     == LoopIndex(f)
      upval == \E j \in (l + 1)..Len(f.bl) : f.bl[j].upval
      open  == IF upval THEN CloseFrom(f.opened, f.bl[l].freereg) ELSE f.opened
  IN  [f EXCEPT !.bl[l].breaks = @ + 1, !.bl[l].brkopen = @ \cup open]
=============================================================================
