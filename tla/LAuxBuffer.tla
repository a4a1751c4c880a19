----------------------------- MODULE LAuxBuffer -----------------------------
(***************************************************************************)
(* The string buffer of src/src/lauxlib.c (inluaL_Buffer).  A buffer is a *)
(* fixed char array of INLUAL_BUFFERSIZE bytes plus a number of partial    *)
(* strings (lvl) kept on the Lua stack.  Every function is a pure         *)
(* operator on a record                                                    *)
(*   [buf  |-> the chars in the array, B->buffer .. B->p,                  *)
(*    stk  |-> the Lua stack slots above the caller's, bottom first; the  *)
(*             first lvl of them are the buffer levels,                    *)
(*    peak |-> the most of those slots ever in use]                        *)
(* so that a library function built on the buffer is one action that      *)
(* folds these operators over its input.  A string is a sequence of small *)
(* integers (the chars).                                                  *)
(***************************************************************************)
EXTENDS Integers, Sequences, SequencesExt

CONSTANTS BufferSize,  \* INLUAL_BUFFERSIZE (BUFSIZ in inluaconf.h)
          MinStack     \* INLUA_MINSTACK (20 in inlua.h)

ASSUME BufferSize \in Nat \ {0} /\ MinStack \in Nat

(* #define LIMIT (INLUA_MINSTACK/2) *)
Limit == MinStack \div 2

(* inluaL_buffinit: p = buffer, lvl = 0 *)
BuffInit == [buf |-> <<>>, stk |-> <<>>, peak |-> 0]

(* a lua_push* of the string s onto the stack *)
PushStr(B, s) == [B EXCEPT !.stk = Append(@, s),
                           !.peak = IF Len(B.stk) + 1 > @ THEN Len(B.stk) + 1 ELSE @]

(* emptybuffer: if the array holds l > 0 chars, push them and reset p; the *)
(* caller learns whether a level was pushed from B.buf # <<>>             *)
EmptyBuffer(B) == IF B.buf = <<>> THEN B ELSE [PushStr(B, B.buf) EXCEPT !.buf = <<>>]

(* mutant: the level count is compared with > LIMIT *)
KeepMergingPastLimit(lvl, toget, toplen, l) == lvl - toget + 1 > Limit \/ toplen > l

(* adjuststack's loop test: merge one more level while the levels left  *)
(* would be LIMIT or more, or the merged top is longer than the next one *)
KeepMerging(lvl, toget, toplen, l) == lvl - toget + 1 >= Limit \/ toplen > l

(* adjuststack's do-while: the number of top levels to concatenate *)
RECURSIVE ToGet(_, _, _)
ToGet(stk, toget, toplen) ==
  LET lvl == Len(stk)
      l   == Len(stk[lvl - toget])
  IN  IF KeepMerging(lvl, toget, toplen, l)
      THEN IF toget + 1 < lvl THEN ToGet(stk, toget + 1, toplen + l) ELSE toget + 1
      ELSE toget

(* lua_concat(L, n): the top n strings become their concatenation (n = 0 *)
(* pushes the empty string)                                               *)
ConcatTop(B, n) ==
  LET k == Len(B.stk) - n IN
  PushStr([B EXCEPT !.stk = SubSeq(@, 1, k)], FlattenSeq(SubSeq(B.stk, k + 1, Len(B.stk))))

(* adjuststack: only when lvl > 1; lvl = lvl - toget + 1 *)
AdjustStack(B) ==
  IF Len(B.stk) > 1 THEN ConcatTop(B, ToGet(B.stk, 1, Len(Last(B.stk)))) ELSE B

(* inluaL_prepbuffer: if (emptybuffer(B)) adjuststack(B) *)
PrepBuffer(B) == IF B.buf # <<>> THEN AdjustStack(EmptyBuffer(B)) ELSE B

(* inluaL_addchar (inlauxlib.h): prepbuffer when p reaches the end *)
AddChar(B, c) ==
  LET B1 == IF Len(B.buf) < BufferSize THEN B ELSE PrepBuffer(B)
  IN  [B1 EXCEPT !.buf = Append(@, c)]

(* inluaL_addlstring: addchar for each char *)
AddLString(B, s) == FoldLeft(AddChar, B, s)

(* lua_insert(L, -2) *)
SwapTop(stk) == LET n == Len(stk) IN
  [stk EXCEPT ![n] = stk[n - 1], ![n - 1] = stk[n]]

(* mutant: lua_insert(L, -2) is left out, the array lands above the value *)
AddValueNoInsert(B) ==
  LET s == Last(B.stk) IN
  IF Len(s) <= BufferSize - Len(B.buf)
  THEN [B EXCEPT !.buf = @ \o s, !.stk = Front(@)]
  ELSE AdjustStack(EmptyBuffer(B))

(* inluaL_addvalue: the value is the top slot.  If it fits in the array it *)
(* is copied there and popped; otherwise the array is pushed and moved    *)
(* below it, the value becomes a level, and the stack is adjusted         *)
AddValue(B) ==
  LET s == Last(B.stk) IN
  IF Len(s) <= BufferSize - Len(B.buf)
  THEN [B EXCEPT !.buf = @ \o s, !.stk = Front(@)]
  ELSE LET B1 == EmptyBuffer(B) IN
       AdjustStack(IF B.buf # <<>> THEN [B1 EXCEPT !.stk = SwapTop(@)] ELSE B1)

(* inluaL_pushresult: emptybuffer; lua_concat(L, lvl); lvl = 1 *)
PushResult(B) == LET B1 == EmptyBuffer(B) IN ConcatTop(B1, Len(B1.stk))
=============================================================================
