------------------------------- MODULE LParser -------------------------------
(***************************************************************************)
(* The statement/block parser and expression parser of lparser.c, as a    *)
(* pushdown machine.  stk is the C call stack of the recursive descent:   *)
(* one frame per active grammar function (chunk, localstat, exprstat,     *)
(* whileexpr, forexpr, breakstat, retstat, block, body, explist1,         *)
(* subexpr), each with a label pc naming the point it resumes at after    *)
(* the callee it pushed returns.  Every action is one straight-line       *)
(* segment of one grammar function, with all the scope and emitter calls  *)
(* that segment makes.  The token source is the environment: where the   *)
(* code branches on the current token, the action chooses among the       *)
(* productions the constant Productions allows.                           *)
(*                                                                         *)
(* fs is the FuncState chain (fs[1] is the main chunk, the last is        *)
(* ls->fs); rv/rn carry a callee's results (its expdesc and int return);  *)
(* ncc is L->nCcalls; status becomes "error" on any fatal compile error   *)
(* (all errors abort the whole compile) and "done" after close_func of    *)
(* the main function.                                                      *)
(***************************************************************************)
EXTENDS Integers, SequencesExt, LScope

CONSTANTS Names,       \* identifiers the token source may produce
          MaxCCalls,   \* INLUAI_MAXCCALLS, bound on L->nCcalls
          MaxStmts,    \* bound: statements in the whole program
          MaxFrames,   \* bound: depth of the parser's call stack
          MaxNames,    \* bound: names in one declaration or parameter list
          MaxExps,     \* bound: expressions in one expression list
          MaxTargets,  \* bound: targets in one assignment chain
          FieldsPerFlush, \* LFIELDS_PER_FLUSH
          Productions  \* grammar productions the token source offers

VARIABLES fs, stk, rv, rn, ncc, status,
          retok,    \* ghost: the last retstat returned its own values
          abortok,  \* ghost: the last aborted assignment left one value
          storeok,  \* ghost: the last assignment kept its targets' registers
          listok,   \* ghost: the last OP_SETLIST found its items in place
          nstat     \* statements begun so far (bounded by MaxStmts)
vars == <<fs, stk, rv, rn, ncc, status, retok, abortok, storeok, listok, nstat>>

\* Names of the hidden control variables of a numeric and a generic for.
ForCtl == <<"(for index)", "(for limit)", "(for step)">>
ForListCtl == <<"(for generator)", "(for state)", "(for control)">>

UNARY_PRIORITY == 8
ADD_PRIORITY   == 6    \* priority[OPR_ADD], left and right

Void == Exp("VVOID", 0, 0)

\* A frame of the recursive descent.
Fr(p, pc) == [p |-> p, pc |-> pc, v |-> Void, n |-> 0, names |-> <<>>,
              want |-> FALSE, limit |-> 0, x |-> 0, lhs |-> <<>>,
              tostore |-> 0, reg |-> 0]

Top == stk[Len(stk)]
Cur == fs[Len(fs)]

NameSeqs(lo) == UNION {[1..m -> Names] : m \in lo..MaxNames}

-----------------------------------------------------------------------------
(* Step helpers.  A step replaces the current FuncState by f; reserving   *)
(* past MAXSTACK is the emitter's "function or expression too complex"    *)
(* error, which aborts the compile like every other error.               *)

Fail == /\ status' = "error"
        /\ UNCHANGED <<fs, stk, rv, rn, ncc, retok, abortok, storeok, listok, nstat>>

\* Mutant of luaK_checkstack: the frame may grow to MAXSTACK registers.
OverflowLate(f) == f.maxstack > MaxRegs

Overflow(f) == f.maxstack >= MaxRegs

\* Continue with current function f, frames s, results r, n, nCcalls c,
\* statement count k and constructor ghost lok.
GoX(f, s, r, n, c, k, lok) ==
  IF Overflow(f) THEN Fail
  ELSE /\ fs' = [fs EXCEPT ![Len(fs)] = f]
       /\ stk' = s /\ rv' = r /\ rn' = n /\ ncc' = c /\ nstat' = k
       /\ listok' = lok
       /\ UNCHANGED <<status, retok, abortok, storeok>>
GoN(f, s, r, n, c, k) == GoX(f, s, r, n, c, k, listok)
GoC(f, s, r, n, c) == GoN(f, s, r, n, c, nstat)
Go(f, s, r, n) == GoC(f, s, r, n, ncc)

\* The top frame becomes fr and callee is pushed.
CallS(fr, callee) ==
  Append([stk EXCEPT ![Len(stk)] = fr], callee)
\* The top frame becomes fr.
SetS(fr) == [stk EXCEPT ![Len(stk)] = fr]
\* The top frame returns.
RetS == Front(stk)

CanCall == Len(stk) < MaxFrames

At(p, pc) == /\ status = "parsing" /\ stk # <<>>
             /\ Top.p = p /\ Top.pc = pc

\* Mutant of enterlevel: the limit is checked before the increment.
EnterLevelOKLate == ncc <= MaxCCalls

\* enterlevel: ++nCcalls beyond INLUAI_MAXCCALLS is fatal.
EnterLevelOK == ncc + 1 <= MaxCCalls
\* The frame of subexpr(ls, v, limit).
ExprFr(limit) == [Fr("expr", "start") EXCEPT !.limit = limit]

\* adjust_assign: make nexps values fill nvars registers.
AdjustAssign(f, nvars, nexps, e) ==
  LET extra == nvars - nexps IN
  IF e.k \in {"VCALL", "VVARARG"}
  THEN LET x  == IF extra + 1 < 0 THEN 0 ELSE extra + 1
           f1 == SetReturns(f, e)
       IN  IF x > 1 THEN ReserveRegs(f1, x - 1) ELSE f1
  ELSE LET f1 == IF e.k \notin {"VVOID", "VBLOCK"} THEN Exp2NextReg(f, e).f ELSE f
       IN  IF extra > 0 THEN ReserveRegs(f1, extra) ELSE f1

-----------------------------------------------------------------------------
(* chunk -> { stat [';'] }                                                 *)

ChunkEnter ==
  /\ At("chunk", "enter")
  /\ IF EnterLevelOK
     THEN GoC(Cur, SetS([Top EXCEPT !.pc = "loop"]), rv, rn, ncc + 1)
     ELSE Fail

\* The current token is a block terminator: the loop ends, leavelevel.
ChunkFollow ==
  /\ At("chunk", "loop")
  /\ GoC(Cur, RetS, Void, 0, ncc - 1)

\* statement: dispatch on the first token of the statement.
StatementKinds == {"local", "exprstat", "while", "for", "break", "return"}

ChunkStatement ==
  /\ At("chunk", "loop")
  /\ nstat < MaxStmts
  /\ \E s \in StatementKinds \cap Productions :
       /\ s \in {"while", "for"} => CanCall
       /\ GoN(Cur, CallS([Top EXCEPT !.pc = "next"], Fr(s, "start")), rv, rn, ncc, nstat + 1)

\* After a statement: testnext(';'); free the temporaries, except after the
\* last statement of the chunk when no ';' follows it.
ChunkNext ==
  /\ At("chunk", "next")
  /\ LET islast == rn = 1
         f      == Cur
     IN  \E follow \in IF nstat >= MaxStmts THEN {TRUE} ELSE BOOLEAN :
           IF islast \/ follow
           THEN \E colon \in BOOLEAN :
                  GoC(IF colon \/ islast THEN [f EXCEPT !.freereg = f.nactvar] ELSE f,
                      RetS, Void, 0, ncc - 1)
           ELSE Go([f EXCEPT !.freereg = f.nactvar],
                   SetS([Top EXCEPT !.pc = "loop"]), Void, 0)

-----------------------------------------------------------------------------
(* localstat -> '@' NAME {',' NAME} ['=' explist1]                          *)

LocalStart ==
  /\ At("local", "start")
  /\ \E names \in NameSeqs(1), eq \in BOOLEAN :
       IF ~NamesFit(Cur, names) THEN Fail
       ELSE LET f  == NewLocalVars(Cur, names)
                fr == [Top EXCEPT !.pc = "adjust", !.names = names]
            IN  IF eq THEN Go(f, CallS(fr, Fr("explist", "start")), rv, rn)
                      ELSE Go(f, SetS(fr), Void, 0)

LocalAdjust ==
  /\ At("local", "adjust")
  /\ LET f1 == AdjustAssign(Cur, Len(Top.names), rn, rv)
         f2 == AdjustLocalVars(f1, Top.names)
     IN  Go([f2 EXCEPT !.freereg = f2.nactvar], RetS, rv, 0)

-----------------------------------------------------------------------------
(* explist1 -> expr {',' expr}                                              *)

ExplistStart ==
  /\ At("explist", "start")
  /\ Go(Cur, CallS([Top EXCEPT !.pc = "more", !.n = 1], ExprFr(0)), rv, rn)

ExplistComma ==
  /\ At("explist", "more")
  /\ Top.n < MaxExps
  /\ LET a == Exp2NextReg(Cur, rv)
     IN  Go(a.f, CallS([Top EXCEPT !.n = @ + 1], ExprFr(0)), rv, rn)

\* The list ends; a trailing block value expands to all its results.
ExplistEnd ==
  /\ At("explist", "more")
  /\ IF rv.k = "VBLOCK"
     THEN Go(BlockResults2Regs(Cur, rv), RetS, rv, Top.n + BlockCount(rv) - 1)
     ELSE Go(Cur, RetS, rv, Top.n)

-----------------------------------------------------------------------------
(* exprstat -> expr assignment; assignment -> ',' expr assignment |        *)
(*                                            '=' explist1 | (abort)       *)
(* The frame's lhs is the LHS_assign chain, first target first.            *)

ExprstatStart ==
  /\ At("exprstat", "start")
  /\ Go(Cur, CallS([Top EXCEPT !.pc = "assign", !.x = Cur.freereg], ExprFr(0)), rv, rn)

\* abort_assignment for the last target lh: discharge it into the register
\* reserved for it.
AbortLast(f, v) ==
  IF v.k = "VBLOCK" THEN BlockResults2Regs(f, v)
  ELSE LET a  == Exp2AnyReg(f, v)
           f1 == ReserveRegs([a.f EXCEPT !.freereg = f.freereg], 1)
       IN  Exp2NextReg(f1, a.e).f

\* abort_assignment_aux over the earlier targets: one register is released
\* per target (and one for the NULL end of the chain) before any is
\* discharged; then each goes to the register expected for it, in order.
AbortPrev(f, prev) ==
  FoldLeft(LAMBDA g, v : ReserveRegs([Exp2AnyReg(g, v).f EXCEPT !.freereg = g.freereg], 1),
           [f EXCEPT !.freereg = @ - (Len(prev) + 1)], prev)

\* check_conflict for a new local target v: every earlier indexed target
\* whose table or key is v's register uses the copy at extra = freereg,
\* and the copy (OP_MOVE) reserves that register.
CheckConflict(f, lhs, v) ==
  LET extra == f.freereg
      uses(e) == e.k = "VINDEXED" /\ v.info \in {e.info, e.aux}
      fix(e) == IF e.k # "VINDEXED" THEN e
                ELSE [e EXCEPT !.info = IF @ = v.info THEN extra ELSE @,
                               !.aux  = IF @ = v.info THEN extra ELSE @]
  IN  [f |-> IF \E j \in DOMAIN lhs : uses(lhs[j]) THEN ReserveRegs(f, 1) ELSE f,
       lhs |-> [j \in DOMAIN lhs |-> fix(lhs[j])]]

Assignable(v) == v.k \in {"VLOCAL", "VUPVAL", "VGLOBAL", "VINDEXED"}

\* Ghost (for an assignment that can be stored): every register an indexed target still reads lies below free,
\* where the value list starts, and is not a local that a later target
\* (stored first, right to left) overwrites.
TargetsIntact(lhs, free) ==
  \A j \in DOMAIN lhs :
    lhs[j].k = "VINDEXED" =>
      \A r \in {lhs[j].info, lhs[j].aux} \ {NoReg} :
        /\ r < free
        /\ \A k \in (j + 1)..Len(lhs) : lhs[k].k = "VLOCAL" => lhs[k].info # r

\* assignment(ls, lh, nvars) with the chain lhs (lh its last element,
\* nvars its length): reserve a register, then look at the next token.
Assignment(f, lhs) ==
  LET f1 == ReserveRegs(f, 1)
      g  == [f1 EXCEPT !.freereg = @ - Len(lhs)]
  IN  IF Overflow(f1) THEN Fail ELSE
      \* ',' primaryexp assignment
      \/ /\ "multi" \in Productions /\ Len(lhs) < MaxTargets /\ CanCall
         /\ Go(f1, CallS([Top EXCEPT !.pc = "target", !.lhs = lhs], ExprFr(0)), rv, rn)
      \* '=' explist1: the reserved registers are released first
      \/ /\ fs' = [fs EXCEPT ![Len(fs)] = g]
         /\ stk' = CallS([Top EXCEPT !.pc = "store", !.lhs = lhs], Fr("explist", "start"))
         /\ storeok' = ((\A j \in DOMAIN lhs : Assignable(lhs[j])) => TargetsIntact(lhs, g.freereg))
         /\ UNCHANGED <<rv, rn, ncc, status, retok, abortok, listok, nstat>>
      \* neither: abort_assignment_aux, then the last target
      \/ LET h == AbortLast(AbortPrev(f1, Front(lhs)), Last(lhs)) IN
         IF Overflow(h) THEN Fail
         ELSE /\ fs' = [fs EXCEPT ![Len(fs)] = h]
              /\ stk' = RetS /\ rn' = 0
              /\ abortok' = (Last(lhs).k = "VBLOCK" \/ h.freereg = Top.x + Len(lhs))
              /\ UNCHANGED <<rv, ncc, status, retok, storeok, listok, nstat>>

\* exprstat drops the extra register of a call, then assignment(&v, 1).
ExprstatAssign ==
  /\ At("exprstat", "assign")
  /\ Assignment(IF rv.k = "VCALL" THEN [Cur EXCEPT !.freereg = @ - 1] ELSE Cur, <<rv>>)

\* A further target: a call's extra register is dropped, a local target is
\* checked for conflicts with the earlier ones, and the chain length is
\* checked against the nCcalls room (luaY_checklimit).
ExprstatTarget ==
  /\ At("exprstat", "target")
  /\ LET f0 == IF rv.k = "VCALL" THEN [Cur EXCEPT !.freereg = @ - 1] ELSE Cur
         c  == IF rv.k = "VLOCAL" THEN CheckConflict(f0, Top.lhs, rv)
               ELSE [f |-> f0, lhs |-> Top.lhs]
     IN  IF Len(Top.lhs) > MaxCCalls - ncc THEN Fail
         ELSE Assignment(c.f, Append(c.lhs, rv))

\* Store each earlier target, right to left, from the register below freereg.
StorePrev(f, prev) ==
  FoldRight(LAMBDA v, g : StoreVar(g, v, Exp("VNONRELOC", g.freereg - 1, 0)), prev, f)

\* '=' explist1: adjust the values to the targets and store the last
\* target, then (as the recursion unwinds) every earlier one; the
\* statement then frees every temporary.
ExprstatStore ==
  /\ At("exprstat", "store")
  /\ LET lhs == Top.lhs
         n   == Len(lhs)
     IN  IF \E j \in DOMAIN lhs : ~Assignable(lhs[j]) THEN Fail
         ELSE LET f == IF rn # n \/ rv.k = "VBLOCK"
                       THEN LET f1 == AdjustAssign(Cur, n, rn, rv)
                                f2 == IF rn > n THEN [f1 EXCEPT !.freereg = @ - (rn - n)] ELSE f1
                            IN  StoreVar(f2, Last(lhs), Exp("VNONRELOC", f2.freereg - 1, 0))
                       ELSE StoreVar(Cur, Last(lhs), SetOneRet(rv))
                  g == StorePrev(f, Front(lhs))
              IN  Go([g EXCEPT !.freereg = g.nactvar], RetS, rv, 0)
\* Return from a block-valued construct: the value is the block's
\* descriptor when the construct is used as an expression.
LeaveWith(l) == Go(l.f, RetS, IF Top.want THEN l.e ELSE rv, 0)

-----------------------------------------------------------------------------
(* block -> '(' chunk ')' with enterblock/leaveblock                        *)

BlockStart ==
  /\ At("block", "start")
  /\ Go(EnterBlock(Cur, FALSE), CallS([Top EXCEPT !.pc = "leave"], Fr("chunk", "enter")), rv, rn)

BlockLeave ==
  /\ At("block", "leave")
  /\ LeaveWith(LeaveBlock(Cur))

-----------------------------------------------------------------------------
(* whileexpr -> '?' cond '->' block                                         *)

WhileStart ==
  /\ At("while", "start")
  /\ Go(Cur, CallS([Top EXCEPT !.pc = "cond"], ExprFr(0)), rv, rn)

\* cond: nil becomes false, goiftrue; then the loop's breakable block.
WhileCond ==
  /\ At("while", "cond")
  /\ Go(EnterBlock(GoIfTrue(Cur, rv), TRUE),
        CallS([Top EXCEPT !.pc = "leave"], Fr("block", "start")), rv, rn)

WhileLeave ==
  /\ At("while", "leave")
  /\ LeaveWith(LeaveBlock(Cur))

-----------------------------------------------------------------------------
(* forexpr/fornum/forbody -> '[' NAME '=' exp1 ',' exp1 [',' exp1] ']'      *)
(*                           '->' block                                    *)

\* forexpr enters the loop block; fornum declares the three control
\* variables and the loop variable before parsing exp1; forlist ('[' after
\* the for token) declares its three control variables and the declared
\* variables before parsing explist1.
ForStart ==
  /\ At("for", "start")
  /\ LET f1 == EnterBlock(Cur, TRUE)
         Declare(names, pc, callee) ==
           IF ~NamesFit(f1, names) THEN Fail
           ELSE Go(NewLocalVars(f1, names),
                   CallS([Top EXCEPT !.pc = pc, !.names = names], callee), rv, rn)
     IN  \/ \E name \in Names : Declare(ForCtl \o <<name>>, "limit", ExprFr(0))
         \/ /\ "forlist" \in Productions
            /\ \E names \in NameSeqs(1) :
                 Declare(ForListCtl \o names, "list", Fr("explist", "start"))

\* exp1 for the initial value, then the limit.
ForInit ==
  /\ At("for", "limit")
  /\ Go(Exp2NextReg(Cur, rv).f, CallS([Top EXCEPT !.pc = "step"], ExprFr(0)), rv, rn)

\* Mutant of forbody: the declared variables' registers are not reserved.
ForBodyNoReserve(f, fr) ==
  LET f1 == AdjustLocalVars(f, SubSeq(fr.names, 1, 3))
      f2 == AdjustLocalVars(EnterBlock(f1, FALSE), SubSeq(fr.names, 4, Len(fr.names)))
  IN  Go(f2, CallS([fr EXCEPT !.pc = "leave"], Fr("block", "start")), rv, rn)

\* forbody: activate the control variables, enter the body block, activate
\* the declared variables and reserve their registers, parse the body.
ForBody(f, fr) ==
  LET decl == SubSeq(fr.names, 4, Len(fr.names))
      f1   == AdjustLocalVars(f, SubSeq(fr.names, 1, 3))
      f2   == ReserveRegs(AdjustLocalVars(EnterBlock(f1, FALSE), decl), Len(decl))
  IN  Go(f2, CallS([fr EXCEPT !.pc = "leave"], Fr("block", "start")), rv, rn)

\* luaK_checkstack: the frame must have n more registers free.
CheckStack(f, n) == [f EXCEPT !.maxstack = Max({@, f.freereg + n})]

\* forlist after explist1: the values fill the three control registers,
\* three more registers are needed to call the generator, then forbody.
ForList ==
  /\ At("for", "list")
  /\ LET f == CheckStack(AdjustAssign(Cur, 3, rn, rv), 3) IN
     IF Overflow(f) THEN Fail ELSE ForBody(f, Top)

\* After the limit: an explicit step, or the constant 1 in the next register.
ForLimit ==
  /\ At("for", "step")
  /\ LET f == Exp2NextReg(Cur, rv).f IN
     \/ Go(f, CallS([Top EXCEPT !.pc = "body"], ExprFr(0)), rv, rn)
     \/ ForBody(ReserveRegs(f, 1), Top)

ForStep ==
  /\ At("for", "body")
  /\ ForBody(Exp2NextReg(Cur, rv).f, Top)

\* forbody leaves the body block, forexpr the loop block.
ForLeave ==
  /\ At("for", "leave")
  /\ LeaveWith(LeaveBlock(LeaveBlock(Cur).f))

-----------------------------------------------------------------------------
(* breakstat -> '^' [expr]                                                  *)

\* The loop value goes to a register, the skipped blocks are closed and a
\* jump joins the loop's break list.  In expression position the value of
\* the break itself is nil.
BreakDone(f) ==
  IF LoopIndex(f) = 0 THEN Fail
  ELSE Go(BreakTo(f), RetS, IF Top.want THEN Exp("VNIL", 0, 0) ELSE rv, 1)

BreakStart ==
  /\ At("break", "start")
  /\ \/ BreakDone(Cur)
     \/ Go(Cur, CallS([Top EXCEPT !.pc = "value"], ExprFr(0)), rv, rn)

BreakValue ==
  /\ At("break", "value")
  /\ BreakDone(Exp2AnyReg(Cur, rv).f)

-----------------------------------------------------------------------------
(* retstat -> '<-' [explist1]                                               *)

\* The registers returned start at first; the values themselves start at
\* the register explist1 began filling (x), or at a single value's own
\* register.  retok records whether the two agree.
ReturnDone(f, first, at) ==
  IF Overflow(f) THEN Fail
  ELSE /\ fs' = [fs EXCEPT ![Len(fs)] = f]
       /\ stk' = RetS
       /\ rv' = IF Top.want THEN Exp("VNIL", 0, 0) ELSE rv
       /\ rn' = 1
       /\ retok' = (first = at)
       /\ UNCHANGED <<ncc, status, abortok, storeok, listok, nstat>>

ReturnStart ==
  /\ At("return", "start")
  /\ \/ ReturnDone(Cur, 0, 0)
     \/ Go(Cur, CallS([Top EXCEPT !.pc = "values", !.x = Cur.freereg],
                      Fr("explist", "start")), rv, rn)

ReturnValues ==
  /\ At("return", "values")
  /\ LET f == Cur IN
     CASE rv.k \in {"VCALL", "VVARARG"} -> ReturnDone(SetReturns(f, rv), f.nactvar, Top.x)
       [] rv.k = "VBLOCK"                -> ReturnDone(f, f.nactvar, Top.x)
       [] rn = 1 -> LET a == Exp2AnyReg(f, rv) IN ReturnDone(a.f, a.e.info, a.e.info)
       [] OTHER  -> ReturnDone(Exp2NextReg(f, rv).f, f.nactvar, Top.x)
-----------------------------------------------------------------------------
(* body -> '[' parlist ']' '(' chunk ')': open_func, parlist, chunk,      *)
(* close_func, pushclosure                                                 *)

\* open_func and parlist: the parameters become active locals and get
\* their registers; '...' (always last) makes the function vararg.
BodyStart ==
  /\ At("body", "start")
  /\ \E params \in NameSeqs(0), va \in BOOLEAN :
       LET f0 == NewFunc(va) IN
       IF ~NamesFit(f0, params) THEN Fail
       ELSE LET f1 == AdjustLocalVars(NewLocalVars(f0, params), params)
            IN  /\ fs' = Append(fs, ReserveRegs(f1, f1.nactvar))
                /\ stk' = CallS([Top EXCEPT !.pc = "close"], Fr("chunk", "enter"))
                /\ UNCHANGED <<rv, rn, ncc, status, retok, abortok, storeok, listok, nstat>>

\* close_func pops the function; pushclosure captures the enclosing
\* function's locals listed as VLOCAL upvalues, which may now be open.
BodyClose ==
  /\ At("body", "close")
  /\ LET child    == Cur
         n        == Len(fs) - 1
         captured == {child.ups[u].info : u \in {u \in DOMAIN child.ups : child.ups[u].k = "VLOCAL"}}
     IN  /\ fs' = [SubSeq(fs, 1, n) EXCEPT ![n].opened = @ \cup captured]
         /\ stk' = RetS
         /\ rv' = Exp("VRELOCABLE", 0, 0)
         /\ UNCHANGED <<rn, ncc, status, retok, abortok, storeok, listok, nstat>>

-----------------------------------------------------------------------------
(* subexpr -> (simpleexp | unop subexpr) { binop subexpr }, with           *)
(* simpleexp, primaryexp and prefixexp.  pc "suffix" is primaryexp's      *)
(* suffix loop, pc "binop" subexpr's operator loop.                        *)

\* A step of subexpr that does not touch the FuncState chain.
Step(fr) == Go(Cur, SetS(fr), rv, rn)

ExprStart ==
  /\ At("expr", "start")
  /\ IF ~EnterLevelOK THEN Fail ELSE
     LET c == ncc + 1
         Push(pc, callee) == GoC(Cur, CallS([Top EXCEPT !.pc = pc], callee), rv, rn, c)
     IN
     \* unop subexpr
     \/ /\ "unop" \in Productions /\ CanCall
        /\ Push("unop", ExprFr(UNARY_PRIORITY))
     \* NUMBER, STRING or '~' (nil)
     \/ GoC(Cur, SetS([Top EXCEPT !.pc = "binop", !.v = Exp("VK", NoReg, 0)]), rv, rn, c)
     \/ /\ "nil" \in Productions
        /\ GoC(Cur, SetS([Top EXCEPT !.pc = "binop", !.v = Exp("VNIL", 0, 0)]), rv, rn, c)
     \* '...': only inside a vararg function
     \/ /\ "vararg" \in Productions
        /\ IF ~Cur.isvararg THEN Fail
           ELSE GoC(Cur, SetS([Top EXCEPT !.pc = "binop", !.v = Exp("VVARARG", 0, 0)]), rv, rn, c)
     \* '{' constructor
     \/ /\ "cons" \in Productions /\ CanCall
        /\ Push("simple", Fr("cons", "start"))
     \* '[' body: a function literal
     \/ /\ "func" \in Productions /\ CanCall
        /\ Push("simple", Fr("body", "start"))
     \* primaryexp: RETURN / BREAK in expression position
     \/ /\ \E p \in {"return", "break"} \cap Productions :
             /\ CanCall
             /\ Push("simple", [Fr(p, "start") EXCEPT !.want = TRUE])
     \* prefixexp: '(' block ')', whileexpr, forexpr
     \/ /\ \E p \in {"block", "while", "for"} \cap Productions :
             /\ CanCall
             /\ Push("prefix", [Fr(p, "start") EXCEPT !.want = TRUE])
     \* prefixexp: NAME, resolved by singlevar
     \/ /\ "name" \in Productions
        /\ \E n \in Names :
             LET r == SingleVarAux(fs, Len(fs), n, TRUE) IN
             IF r.err THEN Fail
             ELSE /\ fs' = r.F
                  /\ stk' = SetS([Top EXCEPT !.pc = "suffix", !.v = Exp(r.k, r.info, 0)])
                  /\ ncc' = c
                  /\ UNCHANGED <<rv, rn, status, retok, abortok, storeok, listok, nstat>>

\* luaK_prefix after the operand of a unary operator.
ExprUnop ==
  /\ At("expr", "unop")
  /\ LET p == Prefix(Cur, rv) IN
     Go(p.f, SetS([Top EXCEPT !.pc = "binop", !.v = p.e]), rv, rn)

\* simpleexp returned (function literal, return, break).
ExprSimple ==
  /\ At("expr", "simple")
  /\ Step([Top EXCEPT !.pc = "binop", !.v = rv])

\* prefixexp returned a block value; primaryexp's suffix loop follows.
ExprPrefix ==
  /\ At("expr", "prefix")
  /\ Step([Top EXCEPT !.pc = "suffix", !.v = rv])

\* funcargs with the function (and, for a method, the object) in place at
\* base a.e.info: ')' at once (no arguments), or explist1.
Funcargs(a) ==
  \/ Go([a.f EXCEPT !.freereg = a.e.info + 1],
        SetS([Top EXCEPT !.v = Exp("VCALL", a.e.info, 0)]), rv, rn)
  \/ Go(a.f, CallS([Top EXCEPT !.pc = "args", !.v = a.e], Fr("explist", "start")), rv, rn)

\* '(' funcargs: the function goes to the next register, the base.
ExprCall ==
  /\ At("expr", "suffix")
  /\ "call" \in Productions /\ CanCall
  /\ Funcargs(Exp2NextReg(Cur, Top.v))

\* ':' NAME funcargs: luaK_self sets up the method and the object.
ExprMethod ==
  /\ At("expr", "suffix")
  /\ "method" \in Productions /\ CanCall
  /\ Funcargs(Self(Cur, Top.v))

\* funcargs after explist1: setmultret, close the last argument, and the
\* call leaves one result at base.
ExprArgs ==
  /\ At("expr", "args")
  /\ LET base == Top.v.info
         f1   == SetReturns(Cur, rv)
         f2   == IF rv.k \notin {"VCALL", "VVARARG", "VVOID", "VBLOCK"}
                 THEN Exp2NextReg(f1, rv).f ELSE f1
     IN  Go([f2 EXCEPT !.freereg = base + 1],
            SetS([Top EXCEPT !.pc = "suffix", !.v = Exp("VCALL", base, 0)]), rv, rn)

\* field: '.' NAME, luaK_exp2anyreg then luaK_indexed with a constant key.
ExprField ==
  /\ At("expr", "suffix")
  /\ "field" \in Productions
  /\ LET a == Exp2AnyReg(Cur, Top.v)
         i == Indexed(a.f, a.e, Exp("VK", NoReg, 0))
     IN  Go(i.f, SetS([Top EXCEPT !.v = i.e]), rv, rn)

\* '.(' expr ')': the table goes to a register, then eindex parses the key.
ExprIndex ==
  /\ At("expr", "suffix")
  /\ "index" \in Productions /\ CanCall
  /\ LET a == Exp2AnyReg(Cur, Top.v) IN
     Go(a.f, CallS([Top EXCEPT !.pc = "key", !.v = a.e], ExprFr(0)), rv, rn)

\* eindex's luaK_exp2val (no jumps: dischargevars), then luaK_indexed.
ExprKey ==
  /\ At("expr", "key")
  /\ LET d == DischargeVars(Cur, rv)
         i == Indexed(d.f, Top.v, d.e)
     IN  Go(i.f, SetS([Top EXCEPT !.pc = "suffix", !.v = i.e]), rv, rn)

\* A binary operator whose left priority exceeds limit: luaK_infix, then
\* the right operand with the operator's right priority.
ExprBinop ==
  /\ status = "parsing" /\ stk # <<>> /\ Top.p = "expr" /\ Top.pc \in {"suffix", "binop"}
  /\ "binop" \in Productions /\ ADD_PRIORITY > Top.limit /\ CanCall
  /\ LET i == Infix(Cur, Top.v) IN
     Go(i.f, CallS([Top EXCEPT !.pc = "posfix", !.v = i.e], ExprFr(ADD_PRIORITY)), rv, rn)

ExprPosfix ==
  /\ At("expr", "posfix")
  /\ LET p == Posfix(Cur, Top.v, rv) IN
     Go(p.f, SetS([Top EXCEPT !.pc = "binop", !.v = p.e]), rv, rn)

\* No further operator: leavelevel and return the value.
ExprEnd ==
  /\ status = "parsing" /\ stk # <<>> /\ Top.p = "expr" /\ Top.pc \in {"suffix", "binop"}
  /\ GoC(Cur, RetS, Top.v, rn, ncc - 1)

-----------------------------------------------------------------------------
(* constructor -> '{' [ item { (',' | ';') item } [',' | ';'] ] '}' with  *)
(* item -> recfield | listfield.  The frame keeps ConsControl: v (the last  *)
(* list item, not yet in a register), tostore, x (the table's register)   *)
(* and reg (freereg when a recfield began); n counts the items.           *)

\* OP_NEWTABLE, fixed at the stack top by luaK_exp2nextreg.
ConsStart ==
  /\ At("cons", "start")
  /\ LET a == Exp2NextReg(Cur, Exp("VRELOCABLE", 0, 0)) IN
     Go(a.f, SetS([Top EXCEPT !.pc = "item", !.x = a.e.info]), rv, rn)

\* OP_SETLIST for the pending items, whose highest register is top: they
\* must be the registers just above the table.  luaK_setlist then frees
\* them (freereg = base + 1).
InPlace(fr, top) == top = fr.x + fr.tostore

\* Mutant of closelistfield: tostore is not reset after a flush.
CloseListFieldNoReset(f, fr) ==
  IF fr.v.k = "VVOID" THEN [f |-> f, fr |-> fr, ok |-> listok]
  ELSE LET g  == Exp2NextReg(f, fr.v).f
           fv == [fr EXCEPT !.v = Void]
       IN  IF fr.tostore = FieldsPerFlush
           THEN [f |-> [g EXCEPT !.freereg = fr.x + 1], fr |-> fv,
                 ok |-> InPlace(fr, g.freereg - 1)]
           ELSE [f |-> g, fr |-> fv, ok |-> listok]

\* closelistfield: the pending item goes to the next register and, once
\* LFIELDS_PER_FLUSH items are pending, they are flushed.  Returns the
\* function, the frame and the SETLIST check (TRUE if there was none).
CloseListField(f, fr) ==
  IF fr.v.k = "VVOID" THEN [f |-> f, fr |-> fr, ok |-> listok]
  ELSE LET g  == Exp2NextReg(f, fr.v).f
           fv == [fr EXCEPT !.v = Void]
       IN  IF fr.tostore = FieldsPerFlush
           THEN [f |-> [g EXCEPT !.freereg = fr.x + 1], fr |-> [fv EXCEPT !.tostore = 0],
                 ok |-> InPlace(fr, g.freereg - 1)]
           ELSE [f |-> g, fr |-> fv, ok |-> listok]

\* One more item: closelistfield, then a listfield (expr), a recfield with
\* a NAME key, or a recfield with a '(' expr ')' key.
ConsItem ==
  /\ At("cons", "item")
  /\ Top.n < MaxExps /\ CanCall
  /\ LET c == CloseListField(Cur, Top)
         Item(pc) == GoX(c.f, CallS([c.fr EXCEPT !.pc = pc, !.reg = c.f.freereg], ExprFr(0)),
                         rv, rn, ncc, nstat, c.ok)
     IN  \/ Item("list")
         \/ Item("recval")
         \/ "index" \in Productions /\ Item("reckey")

\* listfield after expr: the item is pending.
ConsList ==
  /\ At("cons", "list")
  /\ Step([Top EXCEPT !.pc = "item", !.v = rv, !.tostore = @ + 1, !.n = @ + 1])

\* recfield after the key: eindex's exp2val, luaK_exp2RK, then the value.
ConsRecKey ==
  /\ At("cons", "reckey")
  /\ LET d == DischargeVars(Cur, rv)
         k == Exp2RK(d.f, d.e)
     IN  Go(k.f, CallS([Top EXCEPT !.pc = "recval"], ExprFr(0)), rv, rn)

\* recfield after the value: OP_SETTABLE with luaK_exp2RK of the value, and
\* the registers from reg up are freed.
ConsRecVal ==
  /\ At("cons", "recval")
  /\ LET r == Exp2RK(Cur, rv) IN
     Go([r.f EXCEPT !.freereg = Top.reg], SetS([Top EXCEPT !.pc = "item", !.n = @ + 1]), rv, rn)

\* lastlistfield: an open call or vararg is stored with all its results; a
\* block value's results go to registers and count as items; anything
\* else goes to the next register; then OP_SETLIST.
LastListField(f, fr) ==
  LET v == fr.v IN
  CASE fr.tostore = 0 -> [f |-> f, ok |-> listok]
    [] v.k \in {"VCALL", "VVARARG"} ->
         [f |-> [SetReturns(f, v) EXCEPT !.freereg = fr.x + 1],
          ok |-> InPlace(fr, IF v.k = "VCALL" THEN v.info ELSE f.freereg)]
    [] v.k = "VBLOCK" ->
         LET g == BlockResults2Regs(f, v) IN
         [f |-> [g EXCEPT !.freereg = fr.x + 1],
          ok |-> InPlace([fr EXCEPT !.tostore = @ + BlockCount(v) - 1], g.freereg - 1)]
    [] OTHER ->
         LET g == IF v.k # "VVOID" THEN Exp2NextReg(f, v).f ELSE f IN
         [f |-> [g EXCEPT !.freereg = fr.x + 1], ok |-> InPlace(fr, g.freereg - 1)]

\* '}': lastlistfield; the table is the value, in its register.
ConsClose ==
  /\ At("cons", "item")
  /\ LET l == LastListField(Cur, Top) IN
     GoX(l.f, RetS, Exp("VNONRELOC", Top.x, 0), rn, ncc, nstat, l.ok)

-----------------------------------------------------------------------------
(* luaY_parser: open the main function (vararg), chunk, close_func.        *)

Init ==
  /\ fs = <<NewFunc(TRUE)>>
  /\ stk = <<Fr("chunk", "enter")>>
  /\ rv = Void /\ rn = 0 /\ ncc = 0
  /\ status = "parsing"
  /\ retok = TRUE
  /\ abortok = TRUE
  /\ storeok = TRUE
  /\ listok = TRUE
  /\ nstat = 0

\* chunk of the main function returned at TK_EOS: close_func removes the
\* locals and its final return closes every open upvalue.
Finish ==
  /\ status = "parsing" /\ stk = <<>>
  /\ fs' = [fs EXCEPT ![1] = [RemoveVars(@, 0) EXCEPT !.opened = {}]]
  /\ status' = "done"
  /\ UNCHANGED <<stk, rv, rn, ncc, retok, abortok, storeok, listok, nstat>>

\* The compile has ended (accepted or rejected).
Terminated ==
  /\ status # "parsing"
  /\ UNCHANGED vars

Next ==
  \/ ChunkEnter \/ ChunkFollow \/ ChunkStatement \/ ChunkNext
  \/ LocalStart \/ LocalAdjust
  \/ ExplistStart \/ ExplistComma \/ ExplistEnd
  \/ ExprstatStart \/ ExprstatAssign \/ ExprstatTarget \/ ExprstatStore
  \/ BlockStart \/ BlockLeave
  \/ WhileStart \/ WhileCond \/ WhileLeave
  \/ ForStart \/ ForInit \/ ForLimit \/ ForStep \/ ForList \/ ForLeave
  \/ BreakStart \/ BreakValue
  \/ ReturnStart \/ ReturnValues
  \/ BodyStart \/ BodyClose
  \/ ExprStart \/ ExprUnop \/ ExprSimple \/ ExprPrefix \/ ExprCall \/ ExprArgs
  \/ ExprField \/ ExprBinop \/ ExprPosfix \/ ExprEnd
  \/ ExprMethod \/ ExprIndex \/ ExprKey
  \/ ConsStart \/ ConsItem \/ ConsList \/ ConsRecKey \/ ConsRecVal \/ ConsClose
  \/ Finish \/ Terminated

Spec == Init /\ [][Next]_vars
-----------------------------------------------------------------------------
(* Properties                                                              *)

Procs == {"chunk", "local", "exprstat", "explist", "block", "while", "for",
          "break", "return", "body", "expr", "cons"}

\* Types of the parser state: the nCcalls counter stays within
\* INLUAI_MAXCCALLS (enterlevel), each upvalue table within
\* INLUAI_MAXUPVALUES (indexupvalue), and each frame below MAXSTACK
\* registers (luaK_checkstack).
TypeOK ==
  /\ status \in {"parsing", "error", "done"}
  /\ ncc \in 0..MaxCCalls
  /\ rv.k \in Kinds
  /\ retok \in BOOLEAN
  /\ \A j \in DOMAIN stk : stk[j].p \in Procs /\ stk[j].v.k \in Kinds
  /\ \A i \in DOMAIN fs :
       /\ fs[i].nactvar \in Int /\ fs[i].freereg \in Int
       /\ fs[i].maxstack \in 2..(MaxRegs - 1)
       /\ Len(fs[i].ups) <= MaxUps
       /\ fs[i].opened \subseteq Slots

\* chunk's assertion, extended to every function and every open block:
\* active locals lie below the free-register pointer, which lies below the
\* frame size, and each block's snapshot lies below the current locals.
\* A register released twice (exprstat's VCALL adjustment, assignment's
\* freereg -= nvars, freeexp order) or a block that fails to restore
\* freereg breaks it.
RegisterOrder ==
  \A i \in DOMAIN fs :
    LET f == fs[i] IN
    /\ f.nactvar <= f.freereg /\ f.freereg <= f.maxstack
    /\ \A j \in DOMAIN f.bl :
         /\ f.bl[j].nactvar <= f.bl[j].freereg
         /\ f.bl[j].freereg <= f.nactvar
         /\ j > 1 => f.bl[j - 1].freereg <= f.bl[j].nactvar

\* Every register whose upvalue may still be open on the path being
\* compiled holds an active, named local: leaveblock's OP_CLOSE (guarded by
\* the upval flag markupval sets) closes the captures of a block's locals
\* before their registers are reused.
OpenUpvalsActive ==
  \A i \in DOMAIN fs :
    \A r \in fs[i].opened :
      r < fs[i].nactvar /\ fs[i].actvar[r] \notin {INVALID, NOVAR}

\* A break jumps past the loop's own OP_CLOSE, so breakstat must close
\* every upvalue of the blocks it leaves: on every break path into a loop,
\* no upvalue at or above the loop's first register is open.
BreaksCloseUpvals ==
  \A i \in DOMAIN fs :
    \A j \in DOMAIN fs[i].bl :
      fs[i].bl[j].isbreakable =>
        \A r \in fs[i].bl[j].brkopen : r < fs[i].bl[j].freereg

\* Every active local outside a block's adopted temporaries is bound to the
\* name the source declared for it (new_localvar before the initializer,
\* adjustlocalvars after it; enterblock and the block's own declarations
\* write actvar in between).
Adopted(f, r) == \E j \in DOMAIN f.bl : f.bl[j].nactvar <= r /\ r < f.bl[j].freereg

NameBinding ==
  \A i \in DOMAIN fs :
    \A r \in 0..(fs[i].nactvar - 1) :
      ~Adopted(fs[i], r) => fs[i].actvar[r] = fs[i].decl[r]

\* enterblock writes fs->actvar[i] only within the array's
\* INLUAI_MAXVARS entries.
ActvarInBounds ==
  \A i \in DOMAIN fs :
    \A r \in MaxVars..(MaxRegs - 1) : fs[i].actvar[r] = NOVAR

\* retstat returns the registers that hold the returned values.
ReturnsOwnValues == retok

\* An expression statement that is not an assignment (assignment's abort
\* path) leaves exactly one value, as the same expression parsed as an
\* ordinary expression does (spec: assignment abort idempotence).
AbortLeavesOneValue == abortok

\* leaveblock's assertion that a block either controls scope or breaks,
\* never both: no loop block (whileexpr's, forexpr's) is flagged by
\* markupval as holding a captured local.
BreakableUncaptured ==
  \A i \in DOMAIN fs :
    \A j \in DOMAIN fs[i].bl : fs[i].bl[j].isbreakable => ~fs[i].bl[j].upval


\* In a multiple assignment, every table and key register an indexed
\* target reads still holds, when that target is stored, the value it had
\* when the target was parsed: check_conflict's copy of a local that a
\* later target overwrites survives the value list (spec: a table or key
\* register reused by a later target must be copied before it is
\* overwritten).
TargetsKept == storeok


\* Every OP_SETLIST a constructor emits finds its pending list items in
\* the registers just above the table (closelistfield, lastlistfield and
\* recfield's freeing of its key and value keep them there).
ListItemsInPlace == listok

=============================================================================
