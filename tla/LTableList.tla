----------------------------- MODULE LTableList -----------------------------
(***************************************************************************)
(* The table library of src/src/ltablib.c (insert, remove, concat, getn,  *)
(* maxn, setn, foreachi) on one table, driven by a client that calls them *)
(* in any order with positions from a small window around the array part.*)
(* table.concat builds its result in the lauxlib buffer (LAuxBuffer).     Each call is one action: the C function  *)
(* runs to completion without calling back into Lua.                       *)
(*                                                                         *)
(* aux_getn is lua_objlen, which for a table is luaH_getn (ltable.c is not *)
(* in the repository): any border of the table, i.e. any n >= 0 with      *)
(* t[n] ~= nil (or n = 0) and t[n+1] == nil.  With a hole in the table     *)
(* there are several borders and the model takes any of them.              *)
(***************************************************************************)
EXTENDS Integers, Sequences, SequencesExt, LAuxBuffer

CONSTANTS Vals,       \* values stored, positive integers
          Cap,        \* the highest index a call may write (a model bound)
          Positions,  \* the explicit positions the client passes
          MaxOps,     \* the number of calls the client makes
          Seps,       \* the separators table.concat is given (strings)
          Firsts,     \* the explicit i of table.concat(t, sep, i, j)
          Lasts,      \* the explicit j of table.concat(t, sep, i, j)
          Probe       \* the value the foreachi callback looks for

ASSUME Vals \subseteq Nat \ {0} /\ Cap \in Nat /\ Positions \subseteq Int

Nil == 0

(* the integer keys the calls can reach *)
Lo == IF \E p \in Positions : p < 0
      THEN CHOOSE p \in Positions : \A q \in Positions : p <= q ELSE 0
Keys == Lo .. Cap + 1

ASSUME Firsts \cup Lasts \subseteq Keys

VARIABLES t,     \* the table: Keys -> value or Nil
          res,   \* the number the last remove, getn, maxn or foreachi
                 \* returned (Nil: nothing)
          ops,   \* calls made so far
          ref,   \* ghost: the sequence a client of the documented API expects
          want,  \* ghost: what that call returns on ref
          exact, \* ghost: every insert so far used a position in range
          cres,  \* the last table.concat: [ok |-> raised no error, s |-> result]
          cwant, \* ghost: what the manual says that call returns on ref
          peak   \* ghost: most Lua stack slots a concat buffer ever used

vars == <<t, res, ops, ref, want, exact, cres, cwant, peak>>

(* luaH_getn: the borders of tt *)
Borders(tt) == {n \in 0 .. Cap : (n = 0 \/ tt[n] # Nil) /\ tt[n + 1] = Nil}

Init == /\ t = [k \in Keys |-> Nil]
        /\ res = Nil /\ ops = 0 /\ ref = <<>> /\ want = Nil /\ exact = TRUE
        /\ cres = [ok |-> TRUE, s |-> <<>>] /\ cwant = cres /\ peak = 0

Call == ops < MaxOps /\ ops' = ops + 1

(* tinsert, case 3: e = getn+1; if (pos > e) e = pos; t[i] = t[i-1] for    *)
(* i = e down to pos+1; t[pos] = v                                        *)
Shifted(tt, pos, e, v) ==
  [k \in Keys |-> IF k = pos THEN v
                  ELSE IF pos < k /\ k <= e THEN tt[k - 1] ELSE tt[k]]

(* table.insert(t, v): the 2-argument case, pos = e *)
TInsertLast(v) ==
  /\ Call
  /\ \E n \in Borders(t) :
       /\ n + 1 <= Cap
       /\ t' = [t EXCEPT ![n + 1] = v]
  /\ ref' = IF exact THEN Append(ref, v) ELSE <<>>
  /\ UNCHANGED <<res, want, exact, cres, cwant, peak>>

(* table.insert(t, pos, v) *)
TInsert(pos, v) ==
  /\ Call
  /\ \E n \in Borders(t) :
       LET e == IF pos > n + 1 THEN pos ELSE n + 1 IN
       /\ e <= Cap
       /\ t' = Shifted(t, pos, e, v)
  /\ exact' = (exact /\ pos \in 1 .. Len(ref) + 1)
  /\ ref' = IF exact' THEN InsertAt(ref, pos, v) ELSE <<>>
  /\ UNCHANGED <<res, want, cres, cwant, peak>>

(* mutant: the trailing t[e] = nil is left out *)
RemoveFromNoClear(pos, n) ==
  IF ~(1 <= pos /\ pos <= n)
  THEN /\ res' = Nil /\ UNCHANGED t
  ELSE /\ res' = t[pos]
       /\ t' = [k \in Keys |-> IF pos <= k /\ k < n THEN t[k + 1] ELSE t[k]]

(* tremove: e = getn; pos = optint(2, e); if not 1 <= pos <= e return 0;   *)
(* result t[pos]; t[p] = t[p+1] for p = pos .. e-1; t[e] = nil            *)
RemoveFrom(pos, n) ==
  IF ~(1 <= pos /\ pos <= n)
  THEN /\ res' = Nil /\ UNCHANGED t
  ELSE /\ res' = t[pos]
       /\ t' = [k \in Keys |-> IF k = n THEN Nil
                               ELSE IF pos <= k /\ k < n THEN t[k + 1]
                               ELSE t[k]]

(* table.remove(t): the position defaults to e *)
TRemoveLast ==
  /\ Call
  /\ \E n \in Borders(t) : RemoveFrom(n, n)
  /\ ref' = IF ref = <<>> THEN ref ELSE Front(ref)
  /\ want' = IF ref = <<>> THEN Nil ELSE Last(ref)
  /\ UNCHANGED <<exact, cres, cwant, peak>>

(* table.remove(t, pos) *)
TRemove(pos) ==
  /\ Call
  /\ \E n \in Borders(t) : RemoveFrom(pos, n)
  /\ ref' = IF pos \in 1 .. Len(ref) THEN RemoveAt(ref, pos) ELSE ref
  /\ want' = IF pos \in 1 .. Len(ref) THEN ref[pos] ELSE Nil
  /\ UNCHANGED <<exact, cres, cwant, peak>>

(* lua_tolstring of a number: "%.14g", the decimal digits of a positive  *)
(* integer                                                                 *)
DigitChar == <<"0", "1", "2", "3", "4", "5", "6", "7", "8", "9">>
RECURSIVE Digits(_)
Digits(n) == IF n < 10 THEN <<DigitChar[n + 1]>> ELSE Digits(n \div 10) \o <<DigitChar[(n % 10) + 1]>>

(* addfield: rawgeti(t, i), then inluaL_addvalue *)
AddField(B, v) == AddValue(PushStr(B, Digits(v)))

(* tconcat's loop for i < last (addfield, addlstring(sep)), then the last *)
(* field if the loop ended at i == last (it began at i <= last), then    *)
(* inluaL_pushresult                                                       *)
ConcatBuffer(tt, sep, i, last) ==
  LET Body == FoldLeft(LAMBDA B, k : AddLString(AddField(B, tt[k]), sep),
                       BuffInit, [j \in 1 .. last - i |-> i + j - 1])
  IN  PushResult(IF i <= last THEN AddField(Body, tt[last]) ELSE Body)

(* the manual: t[i]..sep..t[i+1] ... sep..t[j]; "" if i > j; an error if *)
(* an element is not a string or number                                   *)
RefConcat(seq, sep, i, j) ==
  IF \E k \in i .. j : k \notin 1 .. Len(seq)
  THEN [ok |-> FALSE, s |-> <<>>]
  ELSE [ok |-> TRUE,
        s  |-> IF i > j THEN <<>>
               ELSE FoldLeft(LAMBDA a, k : a \o sep \o Digits(seq[k]),
                             Digits(seq[i]), [m \in 1 .. j - i |-> i + m])]

(* table.concat(t, sep, i, last): addfield raises an error at the first    *)
(* nil in i..last, which discards the buffer                               *)
ConcatTo(sep, i, last) ==
  /\ Call
  /\ IF \E k \in i .. last : t[k] = Nil
     THEN cres' = [ok |-> FALSE, s |-> <<>>] /\ UNCHANGED peak
     ELSE LET B == ConcatBuffer(t, sep, i, last) IN
          /\ cres' = [ok |-> TRUE, s |-> B.stk[1]]
          /\ peak' = IF B.peak > peak THEN B.peak ELSE peak
  /\ cwant' = RefConcat(ref, sep, i, last)
  /\ UNCHANGED <<t, res, ref, want, exact>>

(* table.concat(t, sep, i): last = inluaL_getn(t) *)
TConcatAll(sep, i) == \E n \in Borders(t) : ConcatTo(sep, i, n)

(* table.concat(t, sep, i, j) *)
TConcat(sep, i, j) == ConcatTo(sep, i, j)

(* the numeric results; the callbacks run no code that changes t *)
Answer(r, w) ==
  /\ Call /\ res' = r /\ want' = w
  /\ UNCHANGED <<t, ref, exact, cres, cwant, peak>>

(* table.getn: aux_getn *)
TGetn == \E n \in Borders(t) : Answer(n, Len(ref))

(* table.maxn: the largest positive numeric key, over lua_next *)
TMaxn == Answer(Max({0} \cup {k \in Keys : t[k] # Nil}), Len(ref))

(* table.foreachi(t, f) with f(i, v) returning i when v is Probe: n is   *)
(* read once, the first non-nil result is returned                       *)
FirstIndex(tt, lo, hi) ==
  LET I == {i \in lo .. hi : tt[i] = Probe}
  IN  IF I = {} THEN Nil ELSE Min(I)
TForeachi == \E n \in Borders(t) :
  Answer(FirstIndex(t, 1, n), FirstIndex(ref, 1, Len(ref)))

(* table.setn: inluaL_setn is defined (a no-op macro), so it always raises *)
(* "'setn' is obsolete" and changes nothing                                *)
TSetn == Call /\ UNCHANGED <<t, res, ref, want, exact, cres, cwant, peak>>

Done == ops = MaxOps /\ UNCHANGED vars

Next == \/ \E v \in Vals : TInsertLast(v)
        \/ \E p \in Positions, v \in Vals : TInsert(p, v)
        \/ TRemoveLast
        \/ \E p \in Positions : TRemove(p)
        \/ \E sep \in Seps, i \in Firsts : TConcatAll(sep, i)
        \/ \E sep \in Seps, i \in Firsts, j \in Lasts : TConcat(sep, i, j)
        \/ TGetn \/ TMaxn \/ TForeachi \/ TSetn
        \/ Done

Spec == Init /\ [][Next]_vars
-----------------------------------------------------------------------------
(* as long as every table.insert position is in 1..#t+1, the table is the  *)
(* sequence the calls describe, with no hole and nothing outside it, and  *)
(* each table.remove returned the element at its position, whatever        *)
(* positions table.remove was given                                       *)
MatchesSequence ==
  exact => /\ \A k \in Keys : t[k] = IF k \in 1 .. Len(ref) THEN ref[k] ELSE Nil
           /\ res = want

(* table.concat, which stores its fields and separators through the     *)
(* lauxlib buffer (array flushes, values too long for the array pushed  *)
(* as their own level, levels merged by adjuststack), returns what the  *)
(* manual says: the elements i..j joined by sep, or an error on a hole   *)
ConcatJoins == exact => cres = cwant

(* a buffer never holds more than LIMIT + 1 Lua stack slots (LIMIT levels *)
(* after adjuststack, plus the array and the value inside addvalue), so *)
(* with INLUA_MINSTACK = 20 a library function that uses it stays within *)
(* the 20 slots a C function is given                                    *)
BufferWithinLimit == peak <= Limit + 1
=============================================================================
