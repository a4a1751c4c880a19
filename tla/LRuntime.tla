------------------------------ MODULE LRuntime ------------------------------
(***************************************************************************)
(* The run-time services a Lua program calls across threads: the         *)
(* coroutine functions of src/src/lbaselib.c (create, wrap, resume, the  *)
(* wrap function, yield and the status costatus computes) and require    *)
(* and module of src/src/loadlib.c, whose package.loaded entries every   *)
(* thread shares; LPackage says what the loaders find.                    *)
(*                                                                         *)
(* The program is not fixed: each step the running function executes any *)
(* statement the constants allow, so the model covers every program of    *)
(* MaxSteps statements.  A thread is a record                              *)
(*   [st  |-> lua_status: "ok" (0), "yield", "err"; "none" before create, *)
(*    stk |-> its Lua frames, bottom first: [via, m] with via "main",     *)
(*            "base" (the coroutine's function), "pcall" or "require"      *)
(*            (a module body run by ll_require for module m),              *)
(*    top |-> lua_gettop when it has no frame, wrap |-> made by wrap]      *)
(* lua_resume, lua_yield and lua_error (ldo.c, not in the repository)     *)
(* follow the C API manual: resume runs the thread until it yields,       *)
(* returns or raises; an error unwinds to the innermost pcall of its      *)
(* thread, or ends the thread and returns to its resumer.                  *)
(***************************************************************************)
EXTENDS Integers, Sequences, SequencesExt, Functions, LPackage

CONSTANTS Cos,        \* the coroutines the program may create
          MaxSteps,   \* statements the program runs (a model bound)
          MaxDepth    \* Lua frames per thread (a model bound)

Main == "main"

Threads == {Main} \cup Cos

VARIABLES th,       \* [Threads -> thread record]
          chain,    \* the threads inside lua_resume, main first; the last runs
          how,      \* [Cos -> "resume" or "wrap"]: how it was last resumed
          loaded,   \* _LOADED: [Mods -> "nil", "sentinel", "table", "true",
                    \*  "val" (a value a module body returned)]
          raising,  \* an error is propagating in the running thread
          rsteps,   \* statements run so far
          rdone,    \* "no", "ok" (main returned) or "error" (main raised)
          astat,    \* ghost: each coroutine's status as the manual defines it
          runs,     \* ghost: how often each module's body was started
          failed,   \* history: the modules whose body an error unwound
          findok    \* ghost: every path search require made found what
                    \*  the manual's search finds

rvars == <<th, chain, how, loaded, raising, rsteps, rdone, astat, runs, failed, findok>>

(* CO_RUN, CO_SUS, CO_NOR, CO_DEAD and statnames *)
CO_RUN == 0
CO_SUS == 1
CO_NOR == 2
CO_DEAD == 3
StatNames == [i \in 0 .. 3 |-> <<"running", "suspended", "normal", "dead">>[i + 1]]

NoThread == [st |-> "none", stk |-> <<>>, top |-> 0, wrap |-> FALSE]

RInit == /\ th = [t \in Threads |->
                    IF t = Main THEN [NoThread EXCEPT !.st = "ok",
                                                      !.stk = <<[via |-> "main", m |-> Main]>>]
                    ELSE NoThread]
         /\ chain = <<Main>> /\ how = [c \in Cos |-> "resume"]
         /\ loaded = [m \in Mods |-> "nil"]
         /\ raising = FALSE /\ rsteps = 0 /\ rdone = "no"
         /\ astat = [c \in Cos |-> "none"] /\ runs = [m \in Mods |-> 0] /\ failed = {}
         /\ findok = TRUE

cur == Last(chain)
Frames == th[cur].stk
TopFrame == Last(Frames)

(* the manual's status of the threads around a switch: who runs now *)
Running(a, t) == IF t \in Cos THEN [a EXCEPT ![t] = "running"] ELSE a
Paused(a, t, s) == IF t \in Cos THEN [a EXCEPT ![t] = s] ELSE a
-----------------------------------------------------------------------------
(* mutant: no initial-state test, a coroutine with no frame is dead *)
costatus_noinit(L, co) ==
  IF L = co THEN CO_RUN
  ELSE CASE th[co].st = "yield" -> CO_SUS
         [] th[co].st = "ok"    -> IF th[co].stk # <<>> THEN CO_NOR ELSE CO_DEAD
         [] OTHER               -> CO_DEAD

(* costatus(L, co): running if it is L; suspended if yielded; with status *)
(* 0, normal if it has frames (it resumed another), dead if its stack is  *)
(* empty, else suspended (not started); after an error, dead             *)
costatus(L, co) ==
  IF L = co THEN CO_RUN
  ELSE CASE th[co].st = "yield" -> CO_SUS
         [] th[co].st = "ok"    -> IF th[co].stk # <<>> THEN CO_NOR
                                   ELSE IF th[co].top = 0 THEN CO_DEAD ELSE CO_SUS
         [] OTHER               -> CO_DEAD

(* a statement that opens something: counted against MaxSteps *)
Stmt == /\ rdone = "no" /\ ~raising /\ rsteps < MaxSteps
        /\ rsteps' = rsteps + 1

(* luaB_cocreate (w = FALSE) and luaB_cowrap (w = TRUE): lua_newthread, *)
(* and the function moved onto the new thread's stack                    *)
CoCreate(c, w) ==
  /\ Stmt /\ th[c].st = "none"
  /\ th' = [th EXCEPT ![c] = [st |-> "ok", stk |-> <<>>, top |-> 1, wrap |-> w]]
  /\ astat' = [astat EXCEPT ![c] = "suspended"]
  /\ UNCHANGED <<chain, how, loaded, raising, rdone, runs, failed, findok>>

(* mutant: auxresume only refuses a dead coroutine *)
AuxResumeDeadOnly(c, wrapped) ==
  /\ Stmt /\ th[c].st # "none" /\ th[c].wrap = wrapped
  /\ IF costatus(cur, c) = CO_DEAD
     THEN /\ raising' = wrapped
          /\ UNCHANGED <<th, chain, how, astat>>
     ELSE /\ th' = [th EXCEPT ![c].st = "ok",
                              ![c].stk = IF @ = <<>> THEN <<[via |-> "base", m |-> c]>> ELSE @]
          /\ chain' = Append(chain, c)
          /\ how' = [how EXCEPT ![c] = IF wrapped THEN "wrap" ELSE "resume"]
          /\ astat' = Running(Paused(astat, cur, "normal"), c)
          /\ UNCHANGED raising
  /\ UNCHANGED <<loaded, rdone, runs, failed, findok>>

(* luaB_coresume (wrapped = FALSE) and luaB_auxwrap (wrapped = TRUE) on  *)
(* auxresume: a coroutine that costatus does not call suspended is not   *)
(* resumed ("cannot resume %s coroutine"): resume returns false, the wrap *)
(* function raises the message in the caller.  Otherwise lua_resume     *)
(* starts its function or continues it after its yield                   *)
AuxResume(c, wrapped) ==
  /\ Stmt /\ th[c].st # "none" /\ th[c].wrap = wrapped
  /\ IF costatus(cur, c) # CO_SUS
     THEN /\ raising' = wrapped
          /\ UNCHANGED <<th, chain, how, astat>>
     ELSE /\ th' = [th EXCEPT ![c].st = "ok",
                              ![c].stk = IF @ = <<>> THEN <<[via |-> "base", m |-> c]>> ELSE @]
          /\ chain' = Append(chain, c)
          /\ how' = [how EXCEPT ![c] = IF wrapped THEN "wrap" ELSE "resume"]
          /\ astat' = Running(Paused(astat, cur, "normal"), c)
          /\ UNCHANGED raising
  /\ UNCHANGED <<loaded, rdone, runs, failed, findok>>

(* luaB_yield: lua_yield from the coroutine's own function suspends it; *)
(* the resumer's resume returns true, its wrap function the values.      *)
(* lua_yield raises instead in the main thread and across a C call      *)
(* (inside a pcall or a module body run by require)                      *)
CoYield ==
  /\ Stmt
  /\ IF cur \in Cos /\ Len(Frames) = 1
     THEN /\ th' = [th EXCEPT ![cur].st = "yield"]
          /\ chain' = Front(chain)
          /\ astat' = Running(Paused(astat, cur, "suspended"), Last(Front(chain)))
          /\ UNCHANGED raising
     ELSE raising' = TRUE /\ UNCHANGED <<th, chain, astat>>
  /\ UNCHANGED <<how, loaded, rdone, runs, failed, findok>>
-----------------------------------------------------------------------------
(* mutant: the body is called without setting the sentinel first *)
RequireNoSentinel(m) ==
  /\ Stmt /\ Len(Frames) < MaxDepth
  /\ CASE loaded[m] = "sentinel" ->
            raising' = TRUE /\ UNCHANGED <<th, loaded, runs, failed, findok>>
       [] loaded[m] # "nil" ->
            UNCHANGED <<th, loaded, raising, runs, failed, findok>>
       [] Found[m] \in {"none", "broken"} ->
            /\ raising' = TRUE /\ findok' = (findok /\ FindsOK[m])
            /\ UNCHANGED <<th, loaded, runs, failed>>
       [] OTHER ->
            /\ th' = [th EXCEPT ![cur].stk = Append(@, [via |-> "require", m |-> m])]
            /\ runs' = [runs EXCEPT ![m] = @ + 1]
            /\ findok' = (findok /\ FindsOK[m])
            /\ UNCHANGED <<loaded, raising, failed>>
  /\ UNCHANGED <<chain, how, rdone, astat>>

(* ll_require(name): a true _LOADED[name] is returned, unless it is the  *)
(* sentinel ("loop or previous error loading module"); otherwise the     *)
(* loaders are tried in order (an error if none finds it, loaderror if  *)
(* the Lua loader cannot load the file it found), then _LOADED[name] is *)
(* set to the sentinel and the module body is called                     *)
Require(m) ==
  /\ Stmt /\ Len(Frames) < MaxDepth
  /\ CASE loaded[m] = "sentinel" ->
            raising' = TRUE /\ UNCHANGED <<th, loaded, runs, failed, findok>>
       [] loaded[m] # "nil" ->
            UNCHANGED <<th, loaded, raising, runs, failed, findok>>
       [] Found[m] \in {"none", "broken"} ->
            /\ raising' = TRUE /\ findok' = (findok /\ FindsOK[m])
            /\ UNCHANGED <<th, loaded, runs, failed>>
       [] OTHER ->
            /\ loaded' = [loaded EXCEPT ![m] = "sentinel"]
            /\ th' = [th EXCEPT ![cur].stk = Append(@, [via |-> "require", m |-> m])]
            /\ runs' = [runs EXCEPT ![m] = @ + 1]
            /\ findok' = (findok /\ FindsOK[m])
            /\ UNCHANGED <<raising, failed>>
  /\ UNCHANGED <<chain, how, rdone, astat>>

(* ll_module(name): unless _LOADED[name] is a table, the global table  *)
(* of that name (found or created by luaL_findtable) becomes            *)
(* _LOADED[name]; modinit, setfenv and dooptions only fill in that      *)
(* table and the calling function's environment                          *)
Module(m) ==
  /\ Stmt
  /\ loaded' = [loaded EXCEPT ![m] = "table"]
  /\ UNCHANGED <<th, chain, how, raising, rdone, astat, runs, failed, findok>>

(* pcall(f): a protected frame *)
PCall ==
  /\ Stmt /\ Len(Frames) < MaxDepth
  /\ th' = [th EXCEPT ![cur].stk = Append(@, [via |-> "pcall", m |-> Main])]
  /\ UNCHANGED <<chain, how, loaded, raising, rdone, astat, runs, failed, findok>>

(* error(...) *)
Error ==
  /\ Stmt /\ raising' = TRUE
  /\ UNCHANGED <<th, chain, how, loaded, rdone, astat, runs, failed, findok>>

(* mutant: the sentinel is not replaced by true when the body returns nil *)
AfterBodyNoTrue(ld, m, v) == IF v = "val" THEN [ld EXCEPT ![m] = "val"] ELSE ld

(* what ll_require does after the body returned v: a non-nil v becomes  *)
(* _LOADED[name]; if _LOADED[name] is still the sentinel it becomes true *)
AfterBody(ld, m, v) ==
  LET l1 == IF v = "val" THEN [ld EXCEPT ![m] = "val"] ELSE ld
  IN  IF l1[m] = "sentinel" THEN [l1 EXCEPT ![m] = "true"] ELSE l1

(* the running function returns v: main ends the program; a pcall frame *)
(* returns true; a module body returns to ll_require, whose result is   *)
(* _LOADED[name] afterwards; a coroutine's function ends the coroutine, *)
(* whose results auxresume moves to the resumer (gettop becomes 0)       *)
FnReturn(v) ==
  /\ rdone = "no" /\ ~raising
  /\ CASE TopFrame.via = "main" ->
            rdone' = "ok" /\ UNCHANGED <<th, chain, loaded, astat>>
       [] TopFrame.via = "pcall" ->
            th' = [th EXCEPT ![cur].stk = Front(@)] /\ UNCHANGED <<chain, loaded, rdone, astat>>
       [] TopFrame.via = "require" ->
            LET r == AfterBody(loaded, TopFrame.m, v) IN
            /\ th' = [th EXCEPT ![cur].stk = Front(@)]
            /\ loaded' = r
            /\ UNCHANGED <<chain, rdone, astat>>
       [] OTHER ->
            /\ th' = [th EXCEPT ![cur] = [@ EXCEPT !.stk = <<>>, !.top = 0]]
            /\ chain' = Front(chain)
            /\ astat' = Running(Paused(astat, cur, "dead"), Last(Front(chain)))
            /\ UNCHANGED <<loaded, rdone>>
  /\ UNCHANGED <<how, raising, rsteps, runs, failed, findok>>

(* the modules whose bodies run in the frames fs *)
Bodies(fs) == {fs[k].m : k \in {j \in DOMAIN fs : fs[j].via = "require"}}

(* lua_error's unwinding, one thread at a time: to the innermost pcall  *)
(* of the running thread, which returns false (require frames above it  *)
(* are dropped, their _LOADED entries left at the sentinel); with none, *)
(* main's error ends the program, and a coroutine dies (status is the   *)
(* error code) and lua_resume returns to its resumer: resume returns    *)
(* false, the wrap function raises the error again (lua_error)           *)
Unwind ==
  /\ raising /\ rdone = "no"
  /\ LET P == {k \in DOMAIN Frames : Frames[k].via = "pcall"} IN
     IF P # {}
     THEN /\ th' = [th EXCEPT ![cur].stk = SubSeq(@, 1, Max(P) - 1)]
          /\ raising' = FALSE
          /\ failed' = failed \cup Bodies(SubSeq(Frames, Max(P), Len(Frames)))
          /\ UNCHANGED <<chain, rdone, astat>>
     ELSE IF cur = Main
     THEN /\ rdone' = "error" /\ raising' = FALSE
          /\ failed' = failed \cup Bodies(Frames)
          /\ UNCHANGED <<th, chain, astat>>
     ELSE /\ th' = [th EXCEPT ![cur].st = "err"]
          /\ chain' = Front(chain)
          /\ astat' = Running(Paused(astat, cur, "dead"), Last(Front(chain)))
          /\ raising' = (how[cur] = "wrap")
          /\ failed' = failed \cup Bodies(Frames)
          /\ UNCHANGED rdone
  /\ UNCHANGED <<how, loaded, rsteps, runs, findok>>

RTerminated == rdone # "no" /\ UNCHANGED rvars

RNext == \/ \E c \in Cos, w \in BOOLEAN : CoCreate(c, w) \/ AuxResume(c, w)
         \/ CoYield
         \/ \E m \in Mods : Require(m)
         \/ \E m \in Mods : Module(m)
         \/ PCall \/ Error
         \/ \E v \in IF TopFrame.via = "require" THEN {"nil", "val"} ELSE {"nil"} : FnReturn(v)
         \/ Unwind
         \/ RTerminated

RSpec == RInit /\ [][RNext]_rvars
-----------------------------------------------------------------------------
(* coroutine.status answers what the manual says, for every coroutine  *)
(* in every state: costatus's tests on lua_status, the frames and       *)
(* gettop tell a coroutine that has not started from one that returned, *)
(* and one that resumed another (normal) from a suspended one            *)
CoStatusAsManual ==
  \A c \in Cos : th[c].st # "none" => StatNames[costatus(cur, c)] = astat[c]

(* no coroutine is resumed while it is running or has resumed another  *)
(* one: the threads inside lua_resume are all different, however the   *)
(* coroutines resume and wrap each other                                 *)
ResumeChainSimple == IsInjective(chain)

(* a module's body runs at most once, however the modules and the       *)
(* coroutines require each other: the sentinel stops a cycle and a      *)
(* retry after the body raised                                           *)
LoadedOnce == \A m \in Mods : runs[m] <= 1

(* a require that finds the sentinel raises "loop or previous error     *)
(* loading module": ll_require's message is right, the sentinel stays  *)
(* in _LOADED[name] only while the body runs, in some thread (a require *)
(* cycle may pass through coroutines resuming each other), or after an  *)
(* error unwound the body; a body that returns, with or without a value *)
(* or a module() call, never leaves it behind                            *)
SentinelMeansLoopOrError ==
  \A m \in Mods :
    loaded[m] = "sentinel" =>
      \/ m \in failed
      \/ \E t \in Threads : th[t].st # "err" /\ m \in Bodies(th[t].stk)

(* every path search require made, through pushnexttemplate's scan of  *)
(* package.path and package.cpath and luaL_gsub's substitutions, found  *)
(* the file the manual's path search names: empty templates, a template *)
(* at the end of the path, dotted names and roots included              *)
FindFileAsManual == findok
=============================================================================
