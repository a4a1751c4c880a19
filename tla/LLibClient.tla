----------------------------- MODULE LLibClient -----------------------------
(***************************************************************************)
(* A client of the table and string libraries.  It calls the table       *)
(* functions of LTableList on one table and the string functions of      *)
(* LStrLib on the string its last table.concat returned, so the strings   *)
(* the string library sees are built by the lauxlib buffer, and every     *)
(* function that builds a string (concat, gsub, rep, reverse) counts      *)
(* towards the buffer's stack peak.  Each call is one action; none calls  *)
(* back into Lua code that could change the table.                        *)
(***************************************************************************)
EXTENDS LTableList, LStrLib, LPatternRef, LBaseLib

CONSTANTS Pats,     \* patterns given to find, match and gsub
          Repls,    \* gsub replacements: [k |-> "str", s] or [k |-> "tbl", t]
          Inits,    \* init of find and match
          MaxNs,    \* explicit maxn of gsub
          Ranges,   \* <<i, j>> pairs for sub and byte
          Counts,   \* n of rep
          Unpacks,  \* explicit <<i, e>> of unpack
          Selects,  \* the index of select: NumV(i) or StrV("#")
          Bases     \* the base of tonumber

VARIABLES sres,   \* what the last string call returned (a tuple of values)
          swant,  \* ghost: what the manual says that call returns
          bagree  \* ghost: the last base library call returned what the
                  \* manual says it returns

lvars == <<vars, sres, swant, bagree>>

LInit == Init /\ sres = <<>> /\ swant = <<>> /\ bagree = TRUE

(* the items of every pattern, as the manual reads them *)
PatItems == [p \in Pats |-> ItemsOf(p)]

(* the subject of a string call *)
Subj == cres.s

(* a string call: one of ops, the table untouched *)
StrCall(r, w) ==
  /\ Call /\ sres' = r /\ swant' = w
  /\ UNCHANGED <<t, res, ref, want, exact, cres, cwant, peak, bagree>>

(* a string call that builds its result in a buffer (the guard of Call  *)
(* is tested before the result is computed)                              *)
BufCall(r, b, w) ==
  /\ Call /\ sres' = r /\ swant' = w
  /\ peak' = IF b.peak > peak THEN b.peak ELSE peak
  /\ UNCHANGED <<t, res, ref, want, exact, cres, cwant, bagree>>

SLen == StrCall(str_len(Subj), <<NumV(Len(Subj))>>)
SSub(i, j) == StrCall(str_sub(Subj, i, j), RefSub(Subj, i, j))
SByte(i, j) == StrCall(str_byte(Subj, i, j), RefByte(Subj, i, j))
SRep(n) == ops < MaxOps /\ \E b \in {str_rep(Subj, n)} : BufCall(<<StrV(b.stk[1])>>, b, RefRep(Subj, n))
SReverse == ops < MaxOps /\ \E b \in {str_reverse(Subj)} : BufCall(<<StrV(b.stk[1])>>, b, <<StrV(Reverse(Subj))>>)
SFind(p, init, plain) ==
  StrCall(str_find_aux(Subj, p, init, plain, TRUE), RefFindIts(Subj, p, PatItems[p], init, plain, TRUE))
SMatch(p, init) ==
  StrCall(str_find_aux(Subj, p, init, FALSE, FALSE), RefFindIts(Subj, p, PatItems[p], init, FALSE, FALSE))
(* maxn defaults to srcl + 1 *)
SGsub(p, r, maxn) ==
  ops < MaxOps /\ \E g \in {str_gsub(Subj, p, r, maxn)} : BufCall(g.v, g.b, RefGsubIts(Subj, p, PatItems[p], r, maxn))

-----------------------------------------------------------------------------
(* The manual on the base functions.  unpack(list, i, j) returns list[i], *)
(* ..., list[j], i defaulting to 1 and j to #list, and raises when the    *)
(* j - i + 1 results do not fit the C stack (lua_checkstack)              *)
RefUnpack(seq, i, j, top) ==
  IF i > j THEN <<>>
  ELSE IF ~CheckStack(top, j - i + 1) THEN <<ErrV>>
  ELSE [k \in 1 .. j - i + 1 |->
          IF i + k - 1 \in 1 .. Len(seq) THEN NumV(seq[i + k - 1]) ELSE NilV]

(* select(index, ...): with "#" the number of extra arguments; with a   *)
(* number the arguments after that one, a negative one counting from the *)
(* end; 0, or a negative one past the first argument, is out of range     *)
RefSelect(k, args) ==
  IF k.k = "str" THEN <<NumV(Len(args))>>
  ELSE IF k.n > 0 THEN IF k.n <= Len(args) THEN SubSeq(args, k.n, Len(args)) ELSE <<>>
  ELSE IF k.n < 0 /\ -k.n <= Len(args) THEN SubSeq(args, Len(args) + k.n + 1, Len(args))
  ELSE <<ErrV>>

(* ipairs(t) iterates (1, t[1]), (2, t[2]), ... up to the first absent key *)
RefIpairs(seq) == FlattenSeq([k \in 1 .. Len(seq) |-> <<NumV(k), NumV(seq[k])>>])

(* tonumber(e, base): base in 2..36; in bases other than 10 only an     *)
(* unsigned integer (its digits below base, spaces around it) converts  *)
RefToNumber(s, base) ==
  LET digits == SelectSeq(s, LAMBDA c : ~SpaceChar(c))
      first  == SkipSpaces(s, 1)
  IN  IF ~(2 <= base /\ base <= 36) THEN <<ErrV>>
      ELSE IF digits # <<>> /\ \A k \in DOMAIN digits : DigitValue(digits[k]) < base
              /\ \A m \in first .. first + Len(digits) - 1 : ~SpaceChar(s[m])
      THEN <<NumV(FoldLeft(LAMBDA a, c : a * base + DigitValue(c), 0, digits))>>
      ELSE <<NilV>>

(* a base library call: one of ops, the table untouched *)
BaseCall(r, w) ==
  /\ Call /\ bagree' = (r = w)
  /\ UNCHANGED <<t, res, ref, want, exact, cres, cwant, peak, sres, swant>>

(* unpack(t, i, e): three values on the stack *)
BUnpack(i, e) == BaseCall(luaB_unpack(t, i, e, 3), RefUnpack(ref, i, e, 3))
(* unpack(t): e = inluaL_getn(t) *)
BUnpackAll == \E n \in Borders(t) : BaseCall(luaB_unpack(t, 1, n, 1), RefUnpack(ref, 1, Len(ref), 1))
(* select(k, unpack(t)) *)
BSelect(k) == \E n \in Borders(t) :
  BaseCall(luaB_select(k, luaB_unpack(t, 1, n, 1)), RefSelect(k, RefUnpack(ref, 1, Len(ref), 1)))
(* for i, v in ipairs(t) *)
BIpairs == BaseCall(IpairsFrom(t, 0), RefIpairs(ref))
(* tonumber(s, base) on the last concat's result *)
BToNumber(b) == BaseCall(luaB_tonumber(Subj, b), RefToNumber(Subj, b))

LDone == Done /\ UNCHANGED <<sres, swant, bagree>>

(* a table call leaves the string results alone *)
LNext == \/ \E v \in Vals : TInsertLast(v) /\ UNCHANGED <<sres, swant, bagree>>
         \/ \E p \in Positions, v \in Vals : TInsert(p, v) /\ UNCHANGED <<sres, swant, bagree>>
         \/ TRemoveLast /\ UNCHANGED <<sres, swant, bagree>>
         \/ \E p \in Positions : TRemove(p) /\ UNCHANGED <<sres, swant, bagree>>
         \/ \E sep \in Seps, i \in Firsts : TConcatAll(sep, i) /\ UNCHANGED <<sres, swant, bagree>>
         \/ \E sep \in Seps, i \in Firsts, j \in Lasts : TConcat(sep, i, j) /\ UNCHANGED <<sres, swant, bagree>>
         \/ TGetn /\ UNCHANGED <<sres, swant, bagree>>
         \/ TMaxn /\ UNCHANGED <<sres, swant, bagree>>
         \/ TForeachi /\ UNCHANGED <<sres, swant, bagree>>
         \/ TSetn /\ UNCHANGED <<sres, swant, bagree>>
         \/ SLen \/ SReverse
         \/ \E r \in Ranges : SSub(r[1], r[2]) \/ SByte(r[1], r[2])
         \/ \E n \in Counts : SRep(n)
         \/ \E p \in Pats, i \in Inits, pl \in BOOLEAN : SFind(p, i, pl)
         \/ \E p \in Pats, i \in Inits : SMatch(p, i)
         \/ \E p \in Pats, r \in Repls, m \in MaxNs \cup {Len(Subj) + 1} : SGsub(p, r, m)
         \/ \E u \in Unpacks : BUnpack(u[1], u[2])
         \/ BUnpackAll \/ BIpairs
         \/ \E k \in Selects : BSelect(k)
         \/ \E b \in Bases : BToNumber(b)
         \/ LDone

LSpec == LInit /\ [][LNext]_lvars
-----------------------------------------------------------------------------
(* every string call on a string the buffer built (len, sub, byte, rep,   *)
(* reverse, find with and without plain, match, gsub with string and      *)
(* table replacements and a maxn) returns what the manual says: find's   *)
(* and match's scan, lmemfind's memchr loop, gsub's handling of empty    *)
(* matches, anchors and maxn, and add_s's %-escapes agree with it         *)
StringCallsAsManual == sres = swant

(* while the table is a sequence, every base call on it (unpack with and *)
(* without bounds, select over its elements, ipairs) and tonumber on the *)
(* concat result return what the manual says: in particular unpack's    *)
(* int arithmetic and its (n <= 0) test turn a range too long for the C *)
(* stack, even one whose length overflows an int, into an error          *)
BaseCallsAsManual == exact => bagree
=============================================================================
