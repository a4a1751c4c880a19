------------------------------ MODULE LBaseLib ------------------------------
(***************************************************************************)
(* The base library functions of src/src/lbaselib.c that work on a table  *)
(* or a string without calling back into Lua: unpack, select, the ipairs  *)
(* iterator and tonumber with an explicit base.  Each is a pure operator  *)
(* from its arguments to the tuple of values it returns (NumV, StrV, NilV *)
(* of LStrMatch; ErrV for a raised error).  A table is a function from    *)
(* integer keys to values, 0 standing for nil as in LTableList.           *)
(*                                                                         *)
(* C ints have INLUAI_BITSINT bits and wrap (two's complement), which is  *)
(* what unpack's overflow test relies on.                                  *)
(***************************************************************************)
EXTENDS Integers, Sequences, SequencesExt, LStrMatch

CONSTANTS BitsInt,    \* INLUAI_BITSINT (16 or 32, inluaconf.h)
          MaxCStack   \* INLUAI_MAXCSTACK (8000)

LOCAL NoValue == 0

(* an int result of C arithmetic: the mathematical value modulo 2^BitsInt *)
CInt(x) == ((x + 2^(BitsInt - 1)) % 2^BitsInt) - 2^(BitsInt - 1)

(* lua_rawgeti(L, t, k) *)
RawGetI(tt, k) == IF k \in DOMAIN tt /\ tt[k] # NoValue THEN NumV(tt[k]) ELSE NilV

(* lua_checkstack(L, n) of a call with top values on its stack (lapi.c: *)
(* size > INLUAI_MAXCSTACK or top + size > INLUAI_MAXCSTACK fails)       *)
CheckStack(top, n) == n <= MaxCStack /\ top + n <= MaxCStack

(* mutant: the (n <= 0) overflow test is left out *)
UnpackNoOverflowTest(tt, i, e, top) ==
  IF i > e THEN <<>>
  ELSE LET n == CInt(e - i + 1) IN
       IF ~CheckStack(top, n) THEN <<ErrV>>
       ELSE [k \in 1 .. n |-> RawGetI(tt, i + k - 1)]

(* luaB_unpack(t, i, e): n = e - i + 1 in int arithmetic; n <= 0 means  *)
(* it overflowed; otherwise t[i], then t[i+1..e] while (i++ < e)          *)
luaB_unpack(tt, i, e, top) ==
  IF i > e THEN <<>>
  ELSE LET n == CInt(e - i + 1) IN
       IF n <= 0 \/ ~CheckStack(top, n) THEN <<ErrV>>
       ELSE [k \in 1 .. n |-> RawGetI(tt, i + k - 1)]

(* luaB_select(k, ...) with n = gettop (the index and the args): "#"     *)
(* gives n-1; a number i < 0 becomes n+i, one above n becomes n, and the *)
(* n - i values above slot i are returned; i < 1 raises                  *)
luaB_select(k, args) ==
  LET n == Len(args) + 1 IN
  IF k.k = "str" THEN <<NumV(n - 1)>>
  ELSE LET i == IF k.n < 0 THEN n + k.n ELSE IF k.n > n THEN n ELSE k.n
       IN  IF 1 <= i THEN SubSeq(args, i, n - 1) ELSE <<ErrV>>

(* the generic for over ipairs(t): ipairsaux(t, i) returns i+1, t[i+1],  *)
(* and nothing (ending the loop) when t[i+1] is nil; the result is the   *)
(* pairs it returned, flattened                                          *)
RECURSIVE IpairsFrom(_, _)
IpairsFrom(tt, i) ==
  IF RawGetI(tt, CInt(i + 1)) = NilV THEN <<>>
  ELSE <<NumV(i + 1), RawGetI(tt, i + 1)>> \o IpairsFrom(tt, i + 1)

(* isspace on a char *)
SpaceChar(c) == IsSpace(Ord[c])

(* the value of a digit char; the subjects hold digits and spaces only *)
DigitValue(c) == IF IsDigit(Ord[c]) THEN Ord[c] - Ord["0"] ELSE 36

(* the skip-spaces loop (isspace): the first index from 'from' on that is not a *)
(* space, Len(s)+1 at the end                                             *)
SkipSpaces(s, from) == Min({k \in from .. Len(s) : ~SpaceChar(s[k])} \cup {Len(s) + 1})

(* the end of the run of digits below base starting at 'from' *)
DigitsEnd(s, from, base) ==
  Min({k \in from .. Len(s) : DigitValue(s[k]) >= base} \cup {Len(s) + 1})

(* strtoul(s1, &s2, base): spaces, then the longest run of digits below  *)
(* base; s2 is the end of the run, or s1 itself when the run is empty    *)
StrToUL(s, base) ==
  LET b == SkipSpaces(s, 1)
      e == DigitsEnd(s, b, base)
  IN  [n   |-> FoldLeft(LAMBDA a, c : a * base + DigitValue(c), 0, SubSeq(s, b, e - 1)),
       end |-> IF e = b THEN 1 ELSE e]

(* luaB_tonumber(s, base) for base ~= 10: the base must be in 2..36; the *)
(* number counts when strtoul read a digit and only spaces follow it     *)
luaB_tonumber(s, base) ==
  IF ~(2 <= base /\ base <= 36) THEN <<ErrV>>
  ELSE LET r == StrToUL(s, base) IN
       IF r.end # 1 /\ SkipSpaces(s, r.end) = Len(s) + 1
       THEN <<NumV(r.n)>> ELSE <<NilV>>
=============================================================================
