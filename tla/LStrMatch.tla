----------------------------- MODULE LStrMatch ------------------------------
(***************************************************************************)
(* The pattern matcher of src/src/lstrlib.c (match and its helpers) and    *)
(* string.gmatch's iterator gmatch_aux.  A string is a sequence of one-   *)
(* character strings and a char * into it is a 1-based index: the subject *)
(* s runs from 1 to Len(s), and Len(s)+1 is ms->src_end, where the C      *)
(* string's terminating '\0' (NUL here) is read.  A pointer into the       *)
(* pattern is an index k, and Pc(p, k) is NUL past its end.                *)
(*                                                                         *)
(* match mutates the MatchState's capture array and undoes what a failed  *)
(* branch did; every operator takes the state and returns the state it    *)
(* leaves with the result: [e |-> index of the match end or Null, ms].    *)
(* The error branches (malformed pattern, invalid capture index, too many *)
(* captures) raise a Lua error; the patterns a model is given are well    *)
(* formed, so they are not taken.                                          *)
(***************************************************************************)
EXTENDS Integers, Sequences, TLC

NUL == "nul"
Null == 0                 \* a NULL const char *
CAP_UNFINISHED == -1
CAP_POSITION == -2

(* the byte values of the characters subjects and patterns are made of   *)
Ord == (NUL :> 0) @@ (" " :> 32) @@ ("$" :> 36) @@ ("%" :> 37) @@ ("(" :> 40)
       @@ (")" :> 41) @@ ("*" :> 42) @@ ("+" :> 43) @@ ("-" :> 45) @@ ("." :> 46)
       @@ ("0" :> 48) @@ ("1" :> 49) @@ ("2" :> 50) @@ ("3" :> 51) @@ ("?" :> 63) @@ ("A" :> 65)
       @@ ("B" :> 66) @@ ("[" :> 91) @@ ("]" :> 93) @@ ("^" :> 94) @@ ("a" :> 97)
       @@ ("b" :> 98) @@ ("c" :> 99) @@ ("d" :> 100) @@ ("f" :> 102) @@ ("l" :> 108)
       @@ ("p" :> 112) @@ ("s" :> 115) @@ ("u" :> 117) @@ ("w" :> 119) @@ ("x" :> 120)
       @@ ("z" :> 122)

(* the Lua values a library call returns: every field is always present *)
NumV(x) == [k |-> "num", n |-> x, s |-> <<>>]
StrV(x) == [k |-> "str", n |-> 0, s |-> x]
NilV    == [k |-> "nil", n |-> 0, s |-> <<>>]
ErrV    == [k |-> "err", n |-> 0, s |-> <<>>]  \* the call raised an error

Sc(s, i) == IF i <= Len(s) THEN s[i] ELSE NUL
Pc(p, k) == IF k <= Len(p) THEN p[k] ELSE NUL

(* <ctype.h> in the C locale, on byte values *)
IsUpper(c) == c \in 65 .. 90
IsLower(c) == c \in 97 .. 122
IsAlpha(c) == IsUpper(c) \/ IsLower(c)
IsDigit(c) == c \in 48 .. 57
IsAlnum(c) == IsAlpha(c) \/ IsDigit(c)
IsSpace(c) == c \in 9 .. 13 \cup {32}
IsCntrl(c) == c \in 0 .. 31 \cup {127}
IsPunct(c) == c \in 33 .. 126 /\ ~IsAlnum(c)
IsXDigit(c) == IsDigit(c) \/ c \in 65 .. 70 \cup 97 .. 102
ToLower(c) == IF IsUpper(c) THEN c + 32 ELSE c

(* match_class: %a, %d, ... by the lower-case letter, negated for upper  *)
(* case; any other character stands for itself                           *)
match_class(c, cl) ==
  LET l == ToLower(cl)
      res == CASE l = 97  -> IsAlpha(c)  [] l = 99  -> IsCntrl(c)
               [] l = 100 -> IsDigit(c)  [] l = 108 -> IsLower(c)
               [] l = 112 -> IsPunct(c)  [] l = 115 -> IsSpace(c)
               [] l = 117 -> IsUpper(c)  [] l = 119 -> IsAlnum(c)
               [] l = 120 -> IsXDigit(c) [] l = 122 -> c = 0
  IN  IF l \notin {97, 99, 100, 108, 112, 115, 117, 119, 120, 122} THEN cl = c
      ELSE IF IsLower(cl) THEN res ELSE ~res

(* classend: the index just past the single-character class at k; a set *)
(* ends at the first ']' after its first character, skipping %x escapes  *)
RECURSIVE SetEnd(_, _)
SetEnd(p, q) ==
  LET q1 == IF Pc(p, q) = "%" /\ Pc(p, q + 1) # NUL THEN q + 2 ELSE q + 1
  IN  IF Pc(p, q1) = "]" THEN q1 + 1 ELSE SetEnd(p, q1)

classend(p, k) ==
  CASE Pc(p, k) = "%" -> k + 2
    [] Pc(p, k) = "[" -> SetEnd(p, IF Pc(p, k + 1) = "^" THEN k + 2 ELSE k + 1)
    [] OTHER          -> k + 1

(* matchbracketclass: the set at k ('[') whose ']' is at ec; q is where  *)
(* the C loop's ++p lands: an escape, a range x-y (only if y is not the  *)
(* closing ']'), or a single character                                   *)
RECURSIVE BracketScan(_, _, _, _, _)
BracketScan(c, p, q, ec, sig) ==
  IF q >= ec THEN ~sig
  ELSE IF Pc(p, q) = "%"
       THEN IF match_class(c, Ord[Pc(p, q + 1)]) THEN sig ELSE BracketScan(c, p, q + 2, ec, sig)
  ELSE IF Pc(p, q + 1) = "-" /\ q + 2 < ec
       THEN IF Ord[Pc(p, q)] <= c /\ c <= Ord[Pc(p, q + 2)] THEN sig
            ELSE BracketScan(c, p, q + 3, ec, sig)
  ELSE IF Ord[Pc(p, q)] = c THEN sig ELSE BracketScan(c, p, q + 1, ec, sig)

matchbracketclass(c, p, k, ec) ==
  IF Pc(p, k + 1) = "^" THEN BracketScan(c, p, k + 2, ec, FALSE)
  ELSE BracketScan(c, p, k + 1, ec, TRUE)

singlematch(c, p, k, ep) ==
  CASE Pc(p, k) = "." -> TRUE
    [] Pc(p, k) = "%" -> match_class(c, Ord[Pc(p, k + 1)])
    [] Pc(p, k) = "[" -> matchbracketclass(c, p, k, ep - 1)
    [] OTHER          -> Ord[Pc(p, k)] = c

(* the subject character at i matches the class at k *)
Single(ms, i, k, ep) == i <= Len(ms.src) /\ singlematch(Ord[ms.src[i]], ms.pat, k, ep)

MatchRes(ms, e) == [e |-> e, ms |-> ms]

(* F applied to the value of v: v is evaluated once and F sees a value,   *)
(* where a LET definition used several times would be evaluated at each   *)
(* use when TLC collects coverage                                         *)
With(v, F(_)) == CHOOSE y \in {F(x) : x \in {v}} : TRUE

(* matchbalance: %bxy at k; counts x and y from i until they balance *)
RECURSIVE Balance(_, _, _, _, _)
Balance(s, j, b, e, cont) ==
  IF j > Len(s) THEN Null
  ELSE IF s[j] = e THEN IF cont - 1 = 0 THEN j + 1 ELSE Balance(s, j + 1, b, e, cont - 1)
  ELSE IF s[j] = b THEN Balance(s, j + 1, b, e, cont + 1)
  ELSE Balance(s, j + 1, b, e, cont)

matchbalance(ms, i, k) ==
  IF Sc(ms.src, i) # Pc(ms.pat, k) THEN Null
  ELSE Balance(ms.src, i + 1, Pc(ms.pat, k), Pc(ms.pat, k + 1), 1)

(* capture_to_close: the innermost unfinished capture (1-based) *)
capture_to_close(ms) ==
  CHOOSE l \in 1 .. ms.level : /\ ms.capture[l].len = CAP_UNFINISHED
                               /\ \A m \in l + 1 .. ms.level : ms.capture[m].len # CAP_UNFINISHED

(* match_capture: %1-%9 at i; a position capture's length, as size_t, is *)
(* larger than any rest of the subject, so it never matches              *)
match_capture(ms, i, d) ==
  LET c == ms.capture[d - Ord["1"] + 1] IN
  IF c.len >= 0 /\ Len(ms.src) + 1 - i >= c.len
     /\ SubSeq(ms.src, c.init, c.init + c.len - 1) = SubSeq(ms.src, i, i + c.len - 1)
  THEN i + c.len ELSE Null

(* capture[level] = {s, what}: the slot may hold a stale capture *)
SetCap(caps, l, c) == IF l <= Len(caps) THEN [caps EXCEPT ![l] = c] ELSE Append(caps, c)

RECURSIVE match(_, _, _), max_expand(_, _, _, _), MaxTry(_, _, _, _),
          min_expand(_, _, _, _), start_capture(_, _, _, _), end_capture(_, _, _)

(* max_expand: count the longest run, then retry the rest of the pattern  *)
(* with one repetition fewer each time                                    *)
RECURSIVE Run(_, _, _, _)
Run(ms, i, k, ep) == IF Single(ms, i, k, ep) THEN 1 + Run(ms, i + 1, k, ep) ELSE 0

max_expand(ms, i, k, ep) == MaxTry(ms, i, Run(ms, i, k, ep), ep)

MaxTry(ms, i, n, ep) ==
  IF n < 0 THEN MatchRes(ms, Null)
  ELSE With(match(ms, i + n, ep + 1),
            LAMBDA r : IF r.e # Null THEN r ELSE MaxTry(r.ms, i, n - 1, ep))

(* min_expand: try the rest first, then one more repetition *)
min_expand(ms, i, k, ep) ==
  With(match(ms, i, ep + 1),
       LAMBDA r : IF r.e # Null THEN r
                  ELSE IF Single(r.ms, i, k, ep) THEN min_expand(r.ms, i + 1, k, ep)
                  ELSE MatchRes(r.ms, Null))

start_capture(ms, i, k, what) ==
  With(match([ms EXCEPT !.capture = SetCap(@, ms.level + 1, [init |-> i, len |-> what]),
                        !.level = ms.level + 1], i, k),
       LAMBDA r : IF r.e = Null THEN [r EXCEPT !.ms.level = @ - 1] ELSE r)

end_capture(ms, i, k) ==
  With(capture_to_close(ms), LAMBDA l :
    With(match([ms EXCEPT !.capture[l].len = i - ms.capture[l].init], i, k),
         LAMBDA r : IF r.e = Null THEN [r EXCEPT !.ms.capture[l].len = CAP_UNFINISHED] ELSE r))

(* match: one pattern item at k against the subject at i *)
match(ms, i, k) ==
  LET p  == ms.pat
      ep == classend(p, k)
      m  == Single(ms, i, k, ep)
      fe == classend(p, k + 2)
      prev == IF i = 1 THEN 0 ELSE Ord[ms.src[i - 1]]
  IN
  CASE Pc(p, k) = "(" /\ Pc(p, k + 1) = ")" -> start_capture(ms, i, k + 2, CAP_POSITION)
    [] Pc(p, k) = "(" -> start_capture(ms, i, k + 1, CAP_UNFINISHED)
    [] Pc(p, k) = ")" -> end_capture(ms, i, k + 1)
    [] Pc(p, k) = "%" /\ Pc(p, k + 1) = "b" ->
         With(matchbalance(ms, i, k + 2),
              LAMBDA e : IF e = Null THEN MatchRes(ms, Null) ELSE match(ms, e, k + 4))
    [] Pc(p, k) = "%" /\ Pc(p, k + 1) = "f" ->
         IF \/ matchbracketclass(prev, p, k + 2, fe - 1)
            \/ ~matchbracketclass(Ord[Sc(ms.src, i)], p, k + 2, fe - 1)
         THEN MatchRes(ms, Null) ELSE match(ms, i, fe)
    [] Pc(p, k) = "%" /\ IsDigit(Ord[Pc(p, k + 1)]) ->
         With(match_capture(ms, i, Ord[Pc(p, k + 1)]),
              LAMBDA e : IF e = Null THEN MatchRes(ms, Null) ELSE match(ms, e, k + 2))
    [] Pc(p, k) = NUL -> MatchRes(ms, i)
    [] Pc(p, k) = "$" /\ Pc(p, k + 1) = NUL ->
         MatchRes(ms, IF i = Len(ms.src) + 1 THEN i ELSE Null)
    \* a pattern item: a single-character class and its repetition suffix
    [] OTHER ->
         CASE Pc(p, ep) = "?" ->
                IF m THEN With(match(ms, i + 1, ep + 1),
                               LAMBDA r : IF r.e # Null THEN r ELSE match(r.ms, i, ep + 1))
                ELSE match(ms, i, ep + 1)
           [] Pc(p, ep) = "*" -> max_expand(ms, i, k, ep)
           [] Pc(p, ep) = "+" -> IF m THEN max_expand(ms, i + 1, k, ep) ELSE MatchRes(ms, Null)
           [] Pc(p, ep) = "-" -> min_expand(ms, i, k, ep)
           [] OTHER -> IF m THEN match(ms, i + 1, ep) ELSE MatchRes(ms, Null)

-----------------------------------------------------------------------------
(* push_onecapture for capture l (0-based) of a match [st, e): the whole *)
(* match when there is no capture, a position as an integer, or the      *)
(* captured substring                                                     *)
push_onecapture(ms, l, st, e) ==
  IF l >= ms.level THEN SubSeq(ms.src, st, e - 1)
  ELSE LET c == ms.capture[l + 1] IN
       IF c.len = CAP_POSITION THEN c.init
       ELSE SubSeq(ms.src, c.init, c.init + c.len - 1)

push_captures(ms, st, e) ==
  LET n == IF ms.level = 0 THEN 1 ELSE ms.level
  IN  [l \in 1 .. n |-> push_onecapture(ms, l - 1, st, e)]

(* gmatch_aux's loop: match at each src from the upvalue's position on,  *)
(* up to and including src_end, with ms.level reset each time            *)
RECURSIVE GmatchFrom(_, _, _)
GmatchFrom(s, p, src) ==
  IF src > Len(s) + 1 THEN [found |-> FALSE]
  ELSE With(match([src |-> s, pat |-> p, level |-> 0, capture |-> <<>>], src, 1),
            LAMBDA r : IF r.e # Null THEN [found |-> TRUE, src |-> src, r |-> r]
                       ELSE GmatchFrom(s, p, src + 1))

(* gmatch_aux on upvalues (s, p, pos): the captures of the next match,   *)
(* and pos advanced to its end, one further for an empty match; nothing *)
(* once no match is left.  Returns [pos, r] with r the tuple pushed.     *)
gmatch_aux(s, p, pos) ==
  With(GmatchFrom(s, p, pos + 1),
       LAMBDA f : IF ~f.found THEN [pos |-> pos, r |-> <<>>]
                  ELSE [pos |-> (f.r.e - 1) + (IF f.r.e = f.src THEN 1 ELSE 0),
                        r   |-> push_captures(f.r.ms, f.src, f.r.e)])
=============================================================================
