------------------------------ MODULE LStrLib -------------------------------
(***************************************************************************)
(* The one-call functions of src/src/lstrlib.c: string.len, sub, byte,    *)
(* rep, reverse, find, match and gsub.  Each is a pure operator from its  *)
(* arguments to the values it returns (LStrMatch's NumV/StrV/NilV, ErrV   *)
(* for a raised error); the ones that build their result in an            *)
(* inluaL_Buffer return the final buffer instead, whose stack holds the   *)
(* result and whose peak the caller records.  Strings are sequences of    *)
(* one-character strings, indices 1-based as in LStrMatch.                 *)
(***************************************************************************)
EXTENDS Integers, Sequences, SequencesExt, LStrMatch, LAuxBuffer

(* posrelat: a negative position counts back from the end; below 0 is 0 *)
posrelat(pos, len) ==
  LET p == IF pos < 0 THEN pos + len + 1 ELSE pos IN IF p >= 0 THEN p ELSE 0

str_len(s) == <<NumV(Len(s))>>

(* str_sub: start and end clamped to [1, l] *)
str_sub(s, i, j) ==
  LET st == IF posrelat(i, Len(s)) < 1 THEN 1 ELSE posrelat(i, Len(s))
      en == IF posrelat(j, Len(s)) > Len(s) THEN Len(s) ELSE posrelat(j, Len(s))
  IN  <<StrV(IF st <= en THEN SubSeq(s, st, en) ELSE <<>>)>>

(* str_byte: the codes of s[posi..pose], none for an empty interval *)
str_byte(s, i, j) ==
  LET posi == IF posrelat(i, Len(s)) <= 0 THEN 1 ELSE posrelat(i, Len(s))
      pose == IF posrelat(j, Len(s)) > Len(s) THEN Len(s) ELSE posrelat(j, Len(s))
  IN  IF posi > pose THEN <<>>
      ELSE [k \in 1 .. pose - posi + 1 |-> NumV(Ord[s[posi + k - 1]])]

(* str_rep: addlstring(s) n times, then pushresult *)
str_rep(s, n) ==
  PushResult(FoldLeft(LAMBDA B, k : AddLString(B, s), BuffInit, [k \in 1 .. n |-> k]))

(* str_reverse: while (l--) addchar(s[l]) *)
str_reverse(s) == PushResult(AddLString(BuffInit, Reverse(s)))
-----------------------------------------------------------------------------
(* memchr(s + from - 1, c, n): the first index of c in s[from .. from+n-1] *)
MemChr(s, from, n, c) ==
  LET at == {k \in from .. from + n - 1 : s[k] = c} IN IF at = {} THEN Null ELSE Min(at)

(* lmemfind's loop: l1 candidate starts from s1 on *)
RECURSIVE MemLoop(_, _, _, _)
MemLoop(s, s1, l1, p) ==
  IF l1 <= 0 THEN Null
  ELSE LET init == MemChr(s, s1, l1, p[1]) IN
       IF init = Null THEN Null
       ELSE IF SubSeq(s, init + 1, init + Len(p) - 1) = Tail(p) THEN init
       ELSE MemLoop(s, init + 1, l1 - (init + 1 - s1), p)

(* lmemfind(s + init, l1 - init, p, l2): the index where p occurs *)
lmemfind(s, init, p) ==
  LET l1 == Len(s) - init IN
  IF Len(p) = 0 THEN init + 1
  ELSE IF Len(p) > l1 THEN Null
  ELSE MemLoop(s, init + 1, l1 - (Len(p) - 1), p)

(* #define SPECIALS "^$*+?.([%-" *)
SPECIALS == {"^", "$", "*", "+", "?", ".", "(", "[", "%", "-"}

(* a capture as a Lua value: a position capture is an integer *)
CapV(ms, l, st, e) ==
  IF l < ms.level /\ ms.capture[l + 1].len = CAP_POSITION
  THEN NumV(push_onecapture(ms, l, st, e)) ELSE StrV(push_onecapture(ms, l, st, e))

(* push_captures(ms, s, e) for a match, and for find, where s is NULL and *)
(* only the captures are pushed                                           *)
MatchCaps(ms, st, e) ==
  [l \in 1 .. IF ms.level = 0 THEN 1 ELSE ms.level |-> CapV(ms, l - 1, st, e)]
FindCaps(ms) == [l \in 1 .. ms.level |-> CapV(ms, l - 1, 0, 0)]

(* str_find_aux's do-while: match at s1, s1 + 1, ... up to src_end *)
RECURSIVE FindLoop(_, _, _, _, _, _)
FindLoop(s, p, s1, k0, anchor, find) ==
  With(match([src |-> s, pat |-> p, level |-> 0, capture |-> <<>>], s1, k0),
       LAMBDA r :
         IF r.e # Null
         THEN IF find THEN <<NumV(s1), NumV(r.e - 1)>> \o FindCaps(r.ms)
              ELSE MatchCaps(r.ms, s1, r.e)
         ELSE IF s1 < Len(s) + 1 /\ ~anchor THEN FindLoop(s, p, s1 + 1, k0, anchor, find)
         ELSE <<NilV>>)

(* str_find_aux: find = 1 for string.find, 0 for string.match *)
str_find_aux(s, p, init0, plain, find) ==
  LET i0   == posrelat(init0, Len(s)) - 1
      init == IF i0 < 0 THEN 0 ELSE IF i0 > Len(s) THEN Len(s) ELSE i0
      s2   == lmemfind(s, init, p)
      anchor == Pc(p, 1) = "^"
  IN  IF find /\ (plain \/ \A k \in DOMAIN p : p[k] \notin SPECIALS)
      THEN IF s2 # Null THEN <<NumV(s2), NumV(s2 + Len(p) - 1)>> ELSE <<NilV>>
      ELSE FindLoop(s, p, init + 1, IF anchor THEN 2 ELSE 1, anchor, find)
-----------------------------------------------------------------------------
(* add_s: copy repl, with %0 the match (addlstring), %1-%9 a capture     *)
(* (push_onecapture and addvalue), %x the char x; the '%' at the end of  *)
(* repl escapes the string's terminating '\0'.  [b, err]                  *)
RECURSIVE add_s(_, _, _, _, _, _)
add_s(ms, B, st, e, news, i) ==
  IF i > Len(news) THEN [b |-> B, err |-> FALSE]
  ELSE IF news[i] # "%" THEN add_s(ms, AddChar(B, news[i]), st, e, news, i + 1)
  ELSE LET c == Sc(news, i + 1)
           l == Ord[c] - Ord["1"]
       IN  IF ~IsDigit(Ord[c]) THEN add_s(ms, AddChar(B, c), st, e, news, i + 2)
           ELSE IF c = "0"
           THEN add_s(ms, AddLString(B, SubSeq(ms.src, st, e - 1)), st, e, news, i + 2)
           ELSE IF l >= ms.level /\ l # 0 THEN [b |-> B, err |-> TRUE]
           ELSE add_s(ms, AddValue(PushStr(B, push_onecapture(ms, l, st, e))),
                      st, e, news, i + 2)

(* add_value: a string repl goes through add_s; a table repl is indexed *)
(* with the first capture (the match if none), and a nil entry keeps the *)
(* original text; the value is added with addvalue                        *)
add_value(ms, B, st, e, repl) ==
  IF repl.k = "str" THEN add_s(ms, B, st, e, repl.s, 1)
  ELSE LET key == push_onecapture(ms, 0, st, e)
           v   == IF key \in DOMAIN repl.t THEN repl.t[key] ELSE SubSeq(ms.src, st, e - 1)
       IN  [b |-> AddValue(PushStr(B, v)), err |-> FALSE]

(* str_gsub's loop; anchor breaks after the first round.  [b, src, n, err] *)
RECURSIVE GsubLoop(_, _, _, _, _, _, _, _, _)
GsubLoop(s, p, k0, anchor, repl, max_s, B, src, n) ==
  LET stop(b, at, m) == [b |-> b, src |-> at, n |-> m, err |-> FALSE]
      next(b, at, m) == IF anchor THEN stop(b, at, m)
                        ELSE GsubLoop(s, p, k0, anchor, repl, max_s, b, at, m)
  IN
  IF n >= max_s THEN stop(B, src, n)
  ELSE With(match([src |-> s, pat |-> p, level |-> 0, capture |-> <<>>], src, k0),
       LAMBDA r :
         With(IF r.e # Null THEN add_value(r.ms, B, src, r.e, repl)
              ELSE [b |-> B, err |-> FALSE],
         LAMBDA av :
           LET m == IF r.e # Null THEN n + 1 ELSE n IN
           IF av.err THEN [b |-> av.b, src |-> src, n |-> m, err |-> TRUE]
           ELSE IF r.e # Null /\ r.e > src THEN next(av.b, r.e, m)
           ELSE IF src < Len(s) + 1 THEN next(AddChar(av.b, s[src]), src + 1, m)
           ELSE stop(av.b, src, m)))

(* mutant: the rest of s after the last match is not added *)
str_gsub_norest(s, p, repl, max_s) ==
  LET anchor == Pc(p, 1) = "^" IN
  With(GsubLoop(s, p, IF anchor THEN 2 ELSE 1, anchor, repl, max_s, BuffInit, 1, 0),
       LAMBDA g :
         IF g.err THEN [v |-> <<ErrV>>, b |-> g.b]
         ELSE With(PushResult(g.b),
                   LAMBDA b : [v |-> <<StrV(b.stk[1]), NumV(g.n)>>, b |-> b]))

(* str_gsub(s, p, repl, max_s): the rest of s after the loop is added,  *)
(* then pushresult; the result is [v |-> values returned, b |-> buffer] *)
str_gsub(s, p, repl, max_s) ==
  LET anchor == Pc(p, 1) = "^" IN
  With(GsubLoop(s, p, IF anchor THEN 2 ELSE 1, anchor, repl, max_s, BuffInit, 1, 0),
       LAMBDA g :
         IF g.err THEN [v |-> <<ErrV>>, b |-> g.b]
         ELSE With(PushResult(AddLString(g.b, SubSeq(s, g.src, Len(s)))),
                   LAMBDA b : [v |-> <<StrV(b.stk[1]), NumV(g.n)>>, b |-> b]))
=============================================================================
