---------------------------- MODULE LPatternRef -----------------------------
(***************************************************************************)
(* What a Lua 5.1 pattern means, as the reference manual (section 5.4.1)   *)
(* states it, independently of how lstrlib.c's match walks the pattern.   *)
(* A pattern is a sequence of items; a character class denotes a set of   *)
(* characters.  Matching an item list at position i yields the LIST of     *)
(* all successes (end position and captures) in the order the manual's   *)
(* rules prefer them: '*' and '+' the longest run first, '-' the shortest *)
(* first, '?' one occurrence before none.  The match is the first element *)
(* of that list; string.gmatch yields the match at each start position    *)
(* after the previous match (one further after an empty match).           *)
(***************************************************************************)
EXTENDS Integers, Sequences, SequencesExt, LStrMatch

(* every character a subject or a pattern can hold, and '\0' *)
Universe == DOMAIN Ord

(* the set a class %x denotes *)
ClassOf(x) ==
  LET c == Ord[x]
      base == CASE ToLower(c) = 97  -> {u \in Universe : IsAlpha(Ord[u])}
                [] ToLower(c) = 99  -> {u \in Universe : IsCntrl(Ord[u])}
                [] ToLower(c) = 100 -> {u \in Universe : IsDigit(Ord[u])}
                [] ToLower(c) = 108 -> {u \in Universe : IsLower(Ord[u])}
                [] ToLower(c) = 112 -> {u \in Universe : IsPunct(Ord[u])}
                [] ToLower(c) = 115 -> {u \in Universe : IsSpace(Ord[u])}
                [] ToLower(c) = 117 -> {u \in Universe : IsUpper(Ord[u])}
                [] ToLower(c) = 119 -> {u \in Universe : IsAlnum(Ord[u])}
                [] ToLower(c) = 120 -> {u \in Universe : IsXDigit(Ord[u])}
                [] ToLower(c) = 122 -> {NUL}
                [] OTHER -> {x}
  IN  IF ~IsAlpha(c) \/ base = {x} THEN base ELSE IF IsLower(c) THEN base ELSE Universe \ base

(* the members of a set body (what lies between '[' or '[^' and ']'):     *)
(* %x escapes, ranges x-y, single characters                              *)
RECURSIVE SetBody(_)
SetBody(b) ==
  IF b = <<>> THEN {}
  ELSE IF b[1] = "%" THEN ClassOf(b[2]) \cup SetBody(SubSeq(b, 3, Len(b)))
  ELSE IF Len(b) >= 3 /\ b[2] = "-"
       THEN {u \in Universe : Ord[b[1]] <= Ord[u] /\ Ord[u] <= Ord[b[3]]}
            \cup SetBody(SubSeq(b, 4, Len(b)))
  ELSE {b[1]} \cup SetBody(Tail(b))

(* the length of the class at the head of p: '.', a character, %x, or a *)
(* set, which closes at the first ']' that is neither its first member   *)
(* nor escaped by a '%' (patterns here hold no '%%' inside a set)        *)
ClassLen(p) ==
  CASE p[1] = "%" -> 2
    [] p[1] = "[" ->
         LET first == IF Len(p) >= 2 /\ p[2] = "^" THEN 3 ELSE 2
             Closes(j) == p[j] = "]" /\ ~(j - 1 >= first /\ p[j - 1] = "%")
         IN  CHOOSE j \in first + 1 .. Len(p) :
               Closes(j) /\ \A m \in first + 1 .. j - 1 : ~Closes(m)
    [] OTHER -> 1

ClassSet(cl) ==
  CASE cl[1] = "." -> Universe \ {NUL}
    [] cl[1] = "%" -> ClassOf(cl[2])
    [] cl[1] = "[" ->
         IF cl[2] = "^" THEN Universe \ SetBody(SubSeq(cl, 3, Len(cl) - 1))
         ELSE SetBody(SubSeq(cl, 2, Len(cl) - 1))
    [] OTHER -> {cl[1]}

Rest(p, n) == SubSeq(p, n + 1, Len(p))

(* the items of a pattern *)
RECURSIVE Items(_)
Items(p) ==
  IF p = <<>> THEN <<>>
  ELSE IF p[1] = "(" /\ Len(p) >= 2 /\ p[2] = ")" THEN <<[t |-> "pos"]>> \o Items(Rest(p, 2))
  ELSE IF p[1] = "(" THEN <<[t |-> "open"]>> \o Items(Rest(p, 1))
  ELSE IF p[1] = ")" THEN <<[t |-> "close"]>> \o Items(Rest(p, 1))
  ELSE IF p = <<"$">> THEN <<[t |-> "eos"]>>
  ELSE IF p[1] = "%" /\ p[2] = "b" THEN <<[t |-> "bal", x |-> p[3], y |-> p[4]]>> \o Items(Rest(p, 4))
  ELSE IF p[1] = "%" /\ p[2] = "f"
       THEN LET n == ClassLen(Rest(p, 2)) IN
            <<[t |-> "front", set |-> ClassSet(SubSeq(p, 3, 2 + n))]>> \o Items(Rest(p, 2 + n))
  ELSE IF p[1] = "%" /\ IsDigit(Ord[p[2]])
       THEN <<[t |-> "back", n |-> Ord[p[2]] - Ord["1"] + 1]>> \o Items(Rest(p, 2))
  ELSE LET n == ClassLen(p)
           q == IF Len(p) > n /\ p[n + 1] \in {"*", "+", "-", "?"} THEN p[n + 1] ELSE ""
       IN  <<[t |-> "item", set |-> ClassSet(SubSeq(p, 1, n)), q |-> q]>>
           \o Items(Rest(p, IF q = "" THEN n ELSE n + 1))

(* the number of characters from i on that belong to set *)
RunIn(s, i, set) ==
  LET ks == {k \in 0 .. Len(s) + 1 - i : \A m \in i .. i + k - 1 : s[m] \in set} IN
  CHOOSE k \in ks : \A k2 \in ks : k2 <= k

Closing(caps) == CHOOSE j \in DOMAIN caps : caps[j].kind = "open" /\
                   \A j2 \in j + 1 .. Len(caps) : caps[j2].kind # "open"

(* %bxy from i: the first end where the y's balance the x's *)
BalEnd(s, i, x, y) ==
  LET depth(j) == Cardinality({m \in i .. j : s[m] = x}) - Cardinality({m \in i .. j : s[m] = y})
      ends == {j \in i + 1 .. Len(s) : s[j] = y /\ depth(j) = 0}
  IN  IF i > Len(s) \/ s[i] # x \/ ends = {} THEN Null
      ELSE CHOOSE j \in ends : \A j2 \in ends : j <= j2

(* all successes of the items its at position i, in preference order; *)
(* Reps the successes of the rest after each count of repetitions in ks *)
RECURSIVE Succ(_, _, _, _), Reps(_, _, _, _, _)
Succ(s, i, its, caps) ==
  IF its = <<>> THEN <<[e |-> i, caps |-> caps]>>
  ELSE LET it == Head(its)
           rest == Tail(its)
       IN
       CASE it.t = "pos"   -> Succ(s, i, rest, Append(caps, [init |-> i, kind |-> "pos", len |-> 0]))
         [] it.t = "open"  -> Succ(s, i, rest, Append(caps, [init |-> i, kind |-> "open", len |-> 0]))
         [] it.t = "close" ->
              LET j == Closing(caps) IN Succ(s, i, rest, [caps EXCEPT ![j].kind = "str", ![j].len = i - caps[j].init])
         [] it.t = "eos"   -> IF i = Len(s) + 1 THEN <<[e |-> i, caps |-> caps]>> ELSE <<>>
         [] it.t = "bal"   ->
              LET j == BalEnd(s, i, it.x, it.y) IN
              IF j = Null THEN <<>> ELSE Succ(s, j + 1, rest, caps)
         [] it.t = "front" ->
              IF /\ (IF i = 1 THEN NUL ELSE s[i - 1]) \notin it.set
                 /\ (IF i <= Len(s) THEN s[i] ELSE NUL) \in it.set
              THEN Succ(s, i, rest, caps) ELSE <<>>
         [] it.t = "back"  ->
              LET c == caps[it.n] IN
              IF c.kind = "str" /\ i + c.len <= Len(s) + 1
                 /\ SubSeq(s, i, i + c.len - 1) = SubSeq(s, c.init, c.init + c.len - 1)
              THEN Succ(s, i + c.len, rest, caps) ELSE <<>>
         [] it.t = "item"  ->
              LET n == RunIn(s, i, it.set) IN
              CASE it.q = ""  -> IF n >= 1 THEN Succ(s, i + 1, rest, caps) ELSE <<>>
                [] it.q = "?" -> Reps(s, i, IF n >= 1 THEN <<1, 0>> ELSE <<0>>, rest, caps)
                [] it.q = "*" -> Reps(s, i, [m \in 1 .. n + 1 |-> n + 1 - m], rest, caps)
                [] it.q = "+" -> Reps(s, i, [m \in 1 .. n |-> n + 1 - m], rest, caps)
                [] it.q = "-" -> Reps(s, i, [m \in 1 .. n + 1 |-> m - 1], rest, caps)

Reps(s, i, ks, its, caps) ==
  IF ks = <<>> THEN <<>>
  ELSE Succ(s, i + Head(ks), its, caps) \o Reps(s, i, Tail(ks), its, caps)

(* the values a match yields: its captures, or the whole match *)
Yield(s, st, r) ==
  IF r.caps = <<>> THEN <<SubSeq(s, st, r.e - 1)>>
  ELSE [j \in DOMAIN r.caps |->
          IF r.caps[j].kind = "pos" THEN r.caps[j].init
          ELSE SubSeq(s, r.caps[j].init, r.caps[j].init + r.caps[j].len - 1)]

(* the tuples string.gmatch(s, p) yields from start position st on *)
RECURSIVE Matches(_, _, _)
Matches(s, its, st) ==
  IF st > Len(s) + 1 THEN <<>>
  ELSE LET all == Succ(s, st, its, <<>>) IN
       IF all = <<>> THEN Matches(s, its, st + 1)
       ELSE LET r == Head(all) IN
            <<Yield(s, st, r)>> \o Matches(s, its, IF r.e = st THEN r.e + 1 ELSE r.e)

RefGmatch(s, p, pos) == Matches(s, Items(p), pos + 1)

-----------------------------------------------------------------------------
(* string.find, string.match and string.gsub as the manual states them.  *)
(* A negative init counts back from the end; init is clamped to the      *)
(* subject.  A '^' at the start of a pattern anchors it.                 *)
RefStart(init, len) ==
  LET i == IF init < 0 THEN len + 1 + init ELSE init
  IN  IF i < 1 THEN 1 ELSE IF i > len + 1 THEN len + 1 ELSE i

Anchored(p) == p # <<>> /\ p[1] = "^"
ItemsOf(p) == Items(IF Anchored(p) THEN Tail(p) ELSE p)

(* the values of the captures of a success r *)
CapVals(s, r) ==
  [j \in DOMAIN r.caps |->
     IF r.caps[j].kind = "pos" THEN NumV(r.caps[j].init)
     ELSE StrV(SubSeq(s, r.caps[j].init, r.caps[j].init + r.caps[j].len - 1))]

(* the first match starting at st or later (only at st when anchored) *)
RECURSIVE FirstMatch(_, _, _, _)
FirstMatch(s, its, st, anchor) ==
  IF st > Len(s) + 1 THEN [found |-> FALSE]
  ELSE LET all == Succ(s, st, its, <<>>) IN
       IF all # <<>> THEN [found |-> TRUE, st |-> st, r |-> Head(all)]
       ELSE IF anchor THEN [found |-> FALSE]
       ELSE FirstMatch(s, its, st + 1, anchor)

(* string.find(s, p, init, plain) (find) and string.match(s, p, init), *)
(* its the items of p                                                   *)
RefFindIts(s, p, its, init, plain, find) ==
  LET st == RefStart(init, Len(s)) IN
  IF find /\ plain
  THEN LET at == {k \in st .. Len(s) + 1 - Len(p) : SubSeq(s, k, k + Len(p) - 1) = p}
       IN  IF at = {} THEN <<NilV>>
           ELSE LET k == Min(at) IN <<NumV(k), NumV(k + Len(p) - 1)>>
  ELSE LET f == FirstMatch(s, its, st, Anchored(p)) IN
       IF ~f.found THEN <<NilV>>
       ELSE IF find THEN <<NumV(f.st), NumV(f.r.e - 1)>> \o CapVals(s, f.r)
       ELSE IF f.r.caps = <<>> THEN <<StrV(SubSeq(s, f.st, f.r.e - 1))>>
       ELSE CapVals(s, f.r)
RefFind(s, p, init, plain, find) == RefFindIts(s, p, ItemsOf(p), init, plain, find)

(* the text that replaces a match: a string repl with %0 (the match),  *)
(* %1-%9 (the captures, %1 the whole match when there are none) and %x *)
(* (x itself); a table repl looked up with the first capture, the match *)
(* itself kept when the table has no entry.  [ok, s]                    *)
RECURSIVE Expand(_, _, _)
Expand(news, whole, caps) ==
  IF news = <<>> THEN [ok |-> TRUE, s |-> <<>>]
  ELSE IF news[1] # "%" \/ Len(news) = 1
  THEN LET r == Expand(Tail(news), whole, caps) IN [r EXCEPT !.s = <<news[1]>> \o @]
  ELSE LET c == news[2]
           n == Ord[c] - 48
           v == IF ~IsDigit(Ord[c]) THEN [ok |-> TRUE, s |-> <<c>>]
                ELSE IF n = 0 \/ (n = 1 /\ caps = <<>>) THEN [ok |-> TRUE, s |-> whole]
                ELSE IF n <= Len(caps) THEN [ok |-> TRUE, s |-> caps[n].s]
                ELSE [ok |-> FALSE, s |-> <<>>]
           r == Expand(SubSeq(news, 3, Len(news)), whole, caps)
       IN  [ok |-> v.ok /\ r.ok, s |-> v.s \o r.s]

RefRepl(s, st, r, repl) ==
  LET whole == SubSeq(s, st, r.e - 1)
      caps  == CapVals(s, r)
      key   == IF caps = <<>> THEN whole ELSE caps[1].s
  IN  IF repl.k = "str" THEN Expand(repl.s, whole, caps)
      ELSE [ok |-> TRUE, s |-> IF key \in DOMAIN repl.t THEN repl.t[key] ELSE whole]

(* every non-overlapping match from st on, left to right, an empty match *)
(* allowed right after a non-empty one, at most maxn of them, only at   *)
(* the start when anchored: [ok, s, n]                                   *)
RECURSIVE GsubFrom(_, _, _, _, _, _, _)
GsubFrom(s, its, st, n, maxn, anchor, repl) ==
  LET rest == [ok |-> TRUE, s |-> SubSeq(s, st, Len(s)), n |-> n]
      all  == IF n < maxn THEN Succ(s, st, its, <<>>) ELSE <<>>
      r    == Head(all)
      rep  == RefRepl(s, st, r, repl)
      skip == IF all # <<>> /\ r.e > st THEN r.e ELSE st + 1
      more == IF anchor \/ n + (IF all # <<>> THEN 1 ELSE 0) >= maxn \/ skip > Len(s) + 1
              THEN [ok |-> TRUE, s |-> SubSeq(s, skip, Len(s)),
                    n |-> n + (IF all # <<>> THEN 1 ELSE 0)]
              ELSE GsubFrom(s, its, skip, n + (IF all # <<>> THEN 1 ELSE 0), maxn, anchor, repl)
  IN  IF n >= maxn THEN rest
      ELSE IF all # <<>> /\ ~rep.ok THEN [ok |-> FALSE, s |-> <<>>, n |-> 0]
      ELSE [more EXCEPT !.s = (IF all # <<>> THEN rep.s ELSE <<>>)
                            \o (IF (all # <<>> /\ r.e > st) \/ st > Len(s) THEN <<>> ELSE <<s[st]>>)
                            \o @]

(* the positions a string function given i and j covers: negative ones *)
(* count back from the end *)
Covered(s, i, j) ==
  LET a == IF i < 0 THEN Len(s) + 1 + i ELSE i
      b == IF j < 0 THEN Len(s) + 1 + j ELSE j
  IN  {k \in 1 .. Len(s) : a <= k /\ k <= b}

(* string.sub(s, i, j) *)
RefSub(s, i, j) ==
  LET ks == Covered(s, i, j) IN <<StrV(IF ks = {} THEN <<>> ELSE SubSeq(s, Min(ks), Max(ks)))>>

(* string.byte(s, i, j): the internal codes of s[i..j] *)
RefByte(s, i, j) ==
  LET ks == Covered(s, i, j) IN
  IF ks = {} THEN <<>> ELSE [k \in 1 .. Cardinality(ks) |-> NumV(Ord[s[Min(ks) + k - 1]])]

(* string.rep(s, n): n copies of s *)
RefRep(s, n) == <<StrV(FlattenSeq([k \in 1 .. n |-> s]))>>

(* string.gsub(s, p, repl, maxn): the new string and the number of matches *)
RefGsubIts(s, p, its, repl, maxn) ==
  LET g == GsubFrom(s, its, 1, 0, maxn, Anchored(p), repl)
  IN  IF g.ok THEN <<StrV(g.s), NumV(g.n)>> ELSE <<ErrV>>
RefGsub(s, p, repl, maxn) == RefGsubIts(s, p, ItemsOf(p), repl, maxn)
=============================================================================
