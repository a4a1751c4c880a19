-------------------------------- MODULE LRef --------------------------------
(***************************************************************************)
(* luaL_ref and luaL_unref of src/src/lauxlib.c: references into a table *)
(* (the registry, say) whose free keys form a list threaded through the   *)
(* table itself, t[FREELIST_REF] holding the first free key and each free *)
(* slot the next one.  A C client stores values and frees references in  *)
(* any order; it holds what luaL_ref returned and frees only that.        *)
(*                                                                         *)
(* A slot holds nil, a stored value or a positive integer (a free-list   *)
(* link); nil is -1 and a stored value -2, which no link equals.          *)
(* lua_objlen is luaH_getn (ltable.c, not in the repository): any border *)
(* of the table, all that Lua promises.                                   *)
(***************************************************************************)
EXTENDS Integers, FiniteSets

CONSTANTS MaxKey      \* the largest key a reference may get (a model bound)

VARIABLES reg,        \* the table: [0 .. MaxKey + 1 -> slot]
          held,       \* ghost: how many live handles the client holds per key
          used        \* ghost: the largest key luaL_ref has returned

refvars == <<reg, held, used>>

FREELIST_REF == 0
INLUA_REFNIL == -1
INLUA_NOREF == -2
NilSlot == -1
Stored == -2

Keys0 == 0 .. MaxKey + 1

(* lua_tointeger: 0 for nil or a stored value *)
ToInteger(v) == IF v > 0 THEN v ELSE 0

(* lua_objlen(L, t): the borders of tt among the positive keys *)
RefBorders(tt) ==
  {n \in 0 .. MaxKey : (n = 0 \/ tt[n] # NilSlot) /\ tt[n + 1] = NilSlot}

RefInit == /\ reg = [k \in Keys0 |-> NilSlot]
           /\ held = [k \in Keys0 |-> 0]
           /\ used = 0

(* mutant: a new reference is objlen(t), without ref++ *)
LuaLRefNoIncr(tt) ==
  LET f == ToInteger(tt[FREELIST_REF]) IN
  IF f # 0 THEN {[key |-> f, tab |-> [tt EXCEPT ![FREELIST_REF] = tt[f], ![f] = Stored]]}
  ELSE {[key |-> n, tab |-> [tt EXCEPT ![n] = Stored]] : n \in RefBorders(tt)}

(* luaL_ref(L, t) of a non-nil value: the first free key, unlinked from  *)
(* the list (t[FREELIST_REF] = t[ref]); with none, objlen(t) + 1; the    *)
(* value is stored at the key.  A set, because objlen may be any border  *)
LuaLRef(tt) ==
  LET f == ToInteger(tt[FREELIST_REF]) IN
  IF f # 0 THEN {[key |-> f, tab |-> [tt EXCEPT ![FREELIST_REF] = tt[f], ![f] = Stored]]}
  ELSE {[key |-> n + 1, tab |-> [tt EXCEPT ![n + 1] = Stored]] : n \in RefBorders(tt)}

(* mutant: the freed slot is cleared instead of linked to the old head *)
LuaLUnrefNoLink(tt, r) ==
  IF r >= 0 THEN [tt EXCEPT ![r] = NilSlot, ![FREELIST_REF] = r] ELSE tt

(* luaL_unref(L, t, ref): for ref >= 0, t[ref] = t[FREELIST_REF] and     *)
(* t[FREELIST_REF] = ref; LUA_REFNIL and LUA_NOREF are ignored           *)
LuaLUnref(tt, r) ==
  IF r >= 0 THEN [tt EXCEPT ![r] = tt[FREELIST_REF], ![FREELIST_REF] = r] ELSE tt

(* luaL_ref with a value on the stack; a key past MaxKey is not offered *)
Ref ==
  \E o \in LuaLRef(reg) :
    /\ o.key <= MaxKey
    /\ reg' = o.tab
    /\ held' = [held EXCEPT ![o.key] = @ + 1]
    /\ used' = IF o.key > used THEN o.key ELSE used

(* luaL_ref with nil on the stack: LUA_REFNIL, the table untouched *)
RefNil == UNCHANGED refvars

(* luaL_unref of a reference the client holds, or of LUA_REFNIL / NOREF *)
Unref(r) ==
  /\ r \in {k \in Keys0 : held[k] > 0} \cup {INLUA_REFNIL, INLUA_NOREF}
  /\ reg' = LuaLUnref(reg, r)
  /\ held' = IF r >= 0 THEN [held EXCEPT ![r] = @ - 1] ELSE held
  /\ UNCHANGED used

RefNext == Ref \/ RefNil \/ \E r \in Keys0 \cup {INLUA_REFNIL, INLUA_NOREF} : Unref(r)
-----------------------------------------------------------------------------
(* the keys on the free list, following the links from t[FREELIST_REF] *)
RECURSIVE FreeChain(_, _, _)
FreeChain(tt, k, fuel) ==
  IF k = 0 \/ fuel = 0 THEN {} ELSE {k} \cup FreeChain(tt, ToInteger(tt[k]), fuel - 1)

FreeKeys == FreeChain(reg, ToInteger(reg[FREELIST_REF]), MaxKey + 1)

(* luaL_ref never returns a key the client still holds, and every held *)
(* key still holds its value: after any sequence of refs and unrefs,   *)
(* objlen's border, taken only when the free list is empty, lies above  *)
(* every live key                                                        *)
RefsUnique ==
  \A k \in Keys0 : held[k] <= 1 /\ (held[k] = 1 => k # FREELIST_REF /\ reg[k] = Stored)

(* no reference is lost: every key luaL_ref has handed out is held by   *)
(* the client or on the free list, so unref'd keys are reused before   *)
(* the table grows                                                       *)
NoLeak == \A k \in 1 .. used : held[k] = 1 \/ k \in FreeKeys
=============================================================================
