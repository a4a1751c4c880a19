-------------------------------- MODULE LIter --------------------------------
(***************************************************************************)
(* The iterator library of src/src/literlib.c.  An iterator object holds  *)
(* one next function; every adapter wraps that function in a C closure    *)
(* (iter_map_next, iter_take_next, ...) whose upvalues are its state, and *)
(* stores the closure back in the same object.  The object is therefore a *)
(* pipeline: stage 1 is the source closure, stage k wraps stage k-1, and  *)
(* chain and zip hold a second source in their stage.                     *)
(*                                                                         *)
(* A stage is a record of the closure's upvalues.  "on" is upvalue 1 (the *)
(* previous next, set to nil when it finishes), "hasn" is take's and      *)
(* skip's upvalue 2, "on2" zip's second next.  Each library function the  *)
(* client calls is one action; a consumer's loop over next is a RECURSIVE *)
(* operator, since the client's functions are deterministic data.         *)
(* Lua stack positions are abstracted: a call's results are a tuple.      *)
(***************************************************************************)
EXTENDS Integers, Sequences, SequencesExt, LIterUser, LPatternRef

CONSTANTS Tables,    \* the tables given to ivals and to iter(next, t)
          RangeArgs, \* argument lists given to range
          Gmatches,  \* (subject, pattern) pairs given to string.gmatch
          Firsts1,   \* the kinds of source the client iterates: "vals" ...
          Seconds,   \* ... and passes to chain and zip: "vals", "pairs", "range",
                     \* "gmatch"
          Counts,    \* the counts passed to skip, take, nth and fold
          MaxStages, \* the adapters one object may carry, plus its source
          MaxOps     \* the library calls the client makes

VARIABLES it,        \* the object's pipeline of closures
          op,        \* the library function called last
          result,    \* what it returned
          ops,       \* calls made so far
          pending,   \* the tuples the object stands for (see Remaining)
          tabs       \* GmatchAux and RefGmatchTab, set once (see below)

vars == <<it, op, result, ops, pending, tabs>>

Rec(kind, tbl, idx, n, cnt) ==
  [kind |-> kind, tbl |-> tbl, idx |-> idx, n |-> n, cnt |-> cnt, on |-> TRUE,
   pat |-> <<>>]

(* inlua_range: stop defaults to start, step to 1, and range(n) is 1..n *)
range(args) ==
  LET start == IF Len(args) = 1 THEN 1 ELSE args[1]
      stop  == IF Len(args) >= 2 THEN args[2] ELSE args[1]
      step  == IF Len(args) = 3 THEN args[3] ELSE 1
  IN Rec("range", <<>>, start, stop, step)

(* gmatch: upvalues s, p and the position 0 *)
gmatch(g) == [Rec("gmatch", g[1], 0, 0, 0) EXCEPT !.pat = g[2]]

(* the closures iter(...) wraps: iter(ivals(t)), iter(range(...)),       *)
(* iter(next, t), iter(s:gmatch(p)); iter_wrap_stateless passes          *)
(* values_aux, range_aux and gmatch_aux through unchanged, and keeps     *)
(* next's key                                                            *)
SourcesOf(kind) ==
  CASE kind = "vals"   -> {Rec("vals", t, 0, 0, 0) : t \in Tables}
    [] kind = "pairs"  -> {Rec("pairs", t, 0, 0, 0) : t \in Tables}
    [] kind = "range"  -> {range(a) : a \in RangeArgs}
    [] kind = "gmatch" -> {gmatch(g) : g \in Gmatches}

NoSrc == [Rec("none", <<>>, 0, 0, 0) EXCEPT !.on = FALSE]

Stage(kind, s2, idx, n) ==
  [kind |-> kind, tbl |-> <<>>, idx |-> idx, n |-> n, cnt |-> 0, on |-> TRUE,
   pat |-> <<>>, hasn |-> TRUE, on2 |-> TRUE, src2 |-> s2]

AsStage(s) == [Stage(s.kind, NoSrc, s.idx, s.n) EXCEPT
                 !.on = s.on, !.tbl = s.tbl, !.cnt = s.cnt, !.pat = s.pat]

Ret(s, r) == [s |-> s, r |-> r]
Res(p, r) == [p |-> p, r |-> r]

(* values_aux: i = upvalue 2 + 1 is stored, t[i] returned, nil ends it   *)
values_aux(s) ==
  IF ~s.on THEN Ret(s, End)
  ELSE LET i == s.idx + 1 IN
       IF i > Len(s.tbl) THEN Ret([s EXCEPT !.idx = i, !.on = FALSE], End)
       ELSE Ret([s EXCEPT !.idx = i], <<s.tbl[i]>>)

(* iter_wrap_stateless over next(t, key): key = first result, nil at end *)
wrap_next(s) ==
  IF s.idx + 1 > Len(s.tbl) THEN Ret([s EXCEPT !.idx = 0], End)
  ELSE Ret([s EXCEPT !.idx = s.idx + 1], <<s.idx + 1, s.tbl[s.idx + 1]>>)

(* range_aux: push cur; cur += step; past stop: return 0; store cur     *)
range_aux(s) ==
  LET nxt == s.idx + s.cnt IN
  IF (s.cnt > 0 /\ nxt > s.n) \/ (s.cnt < 0 /\ nxt < s.n) THEN Ret(s, End)
  ELSE Ret([s EXCEPT !.idx = nxt], <<s.idx>>)

(* gmatch_aux reads only s, p and upvalue 3, the position the next search *)
(* starts after, which is at most #s + 1: its results for the client's   *)
(* pairs are computed once, as a table                                    *)
GmatchAux == [g \in Gmatches |-> [pos \in 0 .. Len(g[1]) + 1 |-> gmatch_aux(g[1], g[2], pos)]]

gmatch_next(s) ==
  LET g == tabs.aux[<<s.tbl, s.pat>>][s.idx] IN Ret([s EXCEPT !.idx = g.pos], g.r)

CallSrc(s) ==
  CASE s.kind = "vals"   -> values_aux(s)
    [] s.kind = "pairs"  -> wrap_next(s)
    [] s.kind = "range"  -> range_aux(s)
    [] s.kind = "gmatch" -> gmatch_next(s)

(* the pipeline after stage k's upvalue 1 is set to nil *)
Dead(p, k) == [p EXCEPT ![k].on = FALSE]

RECURSIVE Call(_, _)

(* iter_map_next: nil upvalue 1 returns 0; else f(next()), and nil ends *)
iter_map_next(p, k) ==
  IF ~p[k].on THEN Res(p, End)
  ELSE With(Call(p, k - 1), LAMBDA c :
         IF c.r = End THEN Res(Dead(c.p, k), End) ELSE Res(c.p, MapF(c.r)))

(* iter_filter_next: while upvalue 1: call it, return the first results  *)
(* the predicate accepts                                                 *)
RECURSIVE iter_filter_next(_, _)
iter_filter_next(p, k) ==
  IF ~p[k].on THEN Res(p, End)
  ELSE With(Call(p, k - 1), LAMBDA c :
         IF c.r = End THEN Res(Dead(c.p, k), End)
         ELSE IF Pred(c.r) THEN c ELSE iter_filter_next(c.p, k))

(* iter_enumerate_next: i = upvalue 2 + 1 is read before the call and    *)
(* stored after it                                                       *)
iter_enumerate_next(p, k) ==
  IF ~p[k].on THEN Res(p, End)
  ELSE LET i == p[k].idx + 1 IN
       With(Call(p, k - 1), LAMBDA c :
         IF c.r = End THEN Res(Dead(c.p, k), End)
         ELSE Res([c.p EXCEPT ![k].idx = i], <<i>> \o c.r))

(* the final call of iter_skip_next, and of iter_inspect_next *)
Forward(p, k) ==
  With(Call(p, k - 1), LAMBDA c : IF c.r = End THEN Res(Dead(c.p, k), End) ELSE c)

(* iter_skip_next: the first time, call upvalue 1 n times and clear      *)
(* upvalue 2; then forward one call                                      *)
RECURSIVE skip_loop(_, _, _)
skip_loop(p, k, i) ==
  IF i < p[k].n
  THEN With(Call(p, k - 1), LAMBDA c :
         IF c.r = End THEN Res(Dead(c.p, k), End) ELSE skip_loop(c.p, k, i + 1))
  ELSE Forward([p EXCEPT ![k].hasn = FALSE], k)

iter_skip_next(p, k) ==
  IF ~p[k].on THEN Res(p, End)
  ELSE IF p[k].hasn THEN skip_loop(p, k, 0) ELSE Forward(p, k)

(* mutant: upvalue 2 is cleared only once i > n *)
iter_take_next_late(p, k) ==
  IF ~p[k].on \/ ~p[k].hasn THEN Res(p, End)
  ELSE With(Call(p, k - 1), LAMBDA c :
       IF c.r = End THEN Res(Dead(c.p, k), End)
       ELSE LET i == c.p[k].cnt + 1 IN
            IF i > c.p[k].n THEN Res([c.p EXCEPT ![k].hasn = FALSE], c.r)
            ELSE Res([c.p EXCEPT ![k].cnt = i], c.r))

(* iter_take_next: i = count + 1; i >= n clears upvalue 2, else count = i *)
iter_take_next(p, k) ==
  IF ~p[k].on \/ ~p[k].hasn THEN Res(p, End)
  ELSE With(Call(p, k - 1), LAMBDA c :
       IF c.r = End THEN Res(Dead(c.p, k), End)
       ELSE LET i == c.p[k].cnt + 1 IN
            IF i >= c.p[k].n THEN Res([c.p EXCEPT ![k].hasn = FALSE], c.r)
            ELSE Res([c.p EXCEPT ![k].cnt = i], c.r))

iter_inspect_next(p, k) ==
  IF ~p[k].on THEN Res(p, End) ELSE Forward(p, k)

(* iter_chain_next: upvalue 1 until it ends (then cleared), then the     *)
(* second next, which is never cleared                                   *)
iter_chain_next(p, k) ==
  IF p[k].on
  THEN With(Call(p, k - 1), LAMBDA c :
         IF c.r = End
         THEN With(CallSrc(c.p[k].src2), LAMBDA d :
                Res([c.p EXCEPT ![k].on = FALSE, ![k].src2 = d.s], d.r))
         ELSE c)
  ELSE With(CallSrc(p[k].src2), LAMBDA d : Res([p EXCEPT ![k].src2 = d.s], d.r))

(* iter_zip_next: both nexts, one result each; either nil clears both    *)
iter_zip_next(p, k) ==
  IF p[k].on /\ p[k].on2
  THEN With(Call(p, k - 1), LAMBDA c : With(CallSrc(p[k].src2), LAMBDA d :
         IF c.r = End \/ d.r = End
         THEN Res([c.p EXCEPT ![k].on = FALSE, ![k].on2 = FALSE, ![k].src2 = d.s], End)
         ELSE Res([c.p EXCEPT ![k].src2 = d.s], <<c.r[1], d.r[1]>>)))
  ELSE Res(p, End)

(* a call of stage k's closure *)
Call(p, k) ==
  IF k = 1 THEN With(CallSrc(p[1]), LAMBDA d : Res([p EXCEPT ![1] = d.s], d.r))
  ELSE CASE p[k].kind = "map"       -> iter_map_next(p, k)
         [] p[k].kind = "filter"    -> iter_filter_next(p, k)
         [] p[k].kind = "enumerate" -> iter_enumerate_next(p, k)
         [] p[k].kind = "skip"      -> iter_skip_next(p, k)
         [] p[k].kind = "take"      -> iter_take_next(p, k)
         [] p[k].kind = "inspect"   -> iter_inspect_next(p, k)
         [] p[k].kind = "chain"     -> iter_chain_next(p, k)
         [] p[k].kind = "zip"       -> iter_zip_next(p, k)

(* inlua_getfield(L, 1, "next") and a call of it *)
NextOf(p) == Call(p, Len(p))
-----------------------------------------------------------------------------
(* the consumers' loops: each calls next until it returns nothing or the  *)
(* loop's own test stops it; the result is the pipeline and the value     *)
(* returned                                                                *)
RECURSIVE drain_loop(_)
drain_loop(p) == With(NextOf(p), LAMBDA c : IF c.r = End THEN Res(c.p, End) ELSE drain_loop(c.p))

RECURSIVE count_loop(_, _)
count_loop(p, i) ==
  With(NextOf(p), LAMBDA c : IF c.r = End THEN Res(c.p, i) ELSE count_loop(c.p, i + 1))

(* iter_last: the results of the previous call stay on the stack *)
RECURSIVE last_loop(_, _)
last_loop(p, prev) ==
  With(NextOf(p), LAMBDA c : IF c.r = End THEN Res(c.p, prev) ELSE last_loop(c.p, c.r))

(* iter_nth: i++ after each call; return its results when i == n *)
RECURSIVE nth_loop(_, _, _)
nth_loop(p, n, i) ==
  With(NextOf(p), LAMBDA c :
  IF c.r = End THEN Res(c.p, End)
  ELSE IF i + 1 = n THEN c ELSE nth_loop(c.p, n, i + 1))

(* iter_collect: next is called for 2 results; a nil v stores t[++i] = k *)
RECURSIVE collect_loop(_, _, _)
collect_loop(p, i, t) ==
  With(NextOf(p), LAMBDA c :
  IF c.r = End THEN Res(c.p, t)
  ELSE IF Len(c.r) < 2 THEN collect_loop(c.p, i + 1, Store(t, i + 1, c.r[1]))
  ELSE collect_loop(c.p, i, Store(t, c.r[1], c.r[2])))

(* iter_all and iter_any: the first answer that decides returns; 1 and 0  *)
(* are true and false                                                     *)
RECURSIVE all_loop(_)
all_loop(p) ==
  With(NextOf(p), LAMBDA c :
  IF c.r = End THEN Res(c.p, 1) ELSE IF ~Pred(c.r) THEN Res(c.p, 0) ELSE all_loop(c.p))

RECURSIVE any_loop(_)
any_loop(p) ==
  With(NextOf(p), LAMBDA c :
  IF c.r = End THEN Res(c.p, 0) ELSE IF Pred(c.r) THEN Res(c.p, 1) ELSE any_loop(c.p))

RECURSIVE find_loop(_)
find_loop(p) ==
  With(NextOf(p), LAMBDA c :
  IF c.r = End \/ Pred(c.r) THEN c ELSE find_loop(c.p))

(* iter_position: pos counts from 1; false (0) when nothing matches *)
RECURSIVE position_loop(_, _)
position_loop(p, pos) ==
  With(NextOf(p), LAMBDA c :
  IF c.r = End THEN Res(c.p, 0)
  ELSE IF Pred(c.r) THEN Res(c.p, pos) ELSE position_loop(c.p, pos + 1))

(* iter_min and iter_max without a comparison function: next is called   *)
(* for 1 result; a nil optimum, or !lessthan(optimal, ret) (for max       *)
(* !lessthan(ret, optimal)), replaces it                                  *)
RECURSIVE min_loop(_, _)
min_loop(p, opt) ==
  With(NextOf(p), LAMBDA c :
  IF c.r = End THEN Res(c.p, opt)
  ELSE min_loop(c.p, IF opt = End \/ ~(opt[1] < c.r[1]) THEN <<c.r[1]>> ELSE opt))

RECURSIVE max_loop(_, _)
max_loop(p, opt) ==
  With(NextOf(p), LAMBDA c :
  IF c.r = End THEN Res(c.p, opt)
  ELSE max_loop(c.p, IF opt = End \/ ~(c.r[1] < opt[1]) THEN <<c.r[1]>> ELSE opt))

RECURSIVE fold_loop(_, _)
fold_loop(p, acc) ==
  With(NextOf(p), LAMBDA c :
  IF c.r = End THEN Res(c.p, acc) ELSE fold_loop(c.p, FoldF(acc, c.r)))

(* iter_reduce: one next for 1 result, then iter_fold(it, v, f) *)
reduce_call(p) ==
  With(NextOf(p), LAMBDA c :
  IF c.r = End THEN c
  ELSE With(fold_loop(c.p, c.r[1]), LAMBDA f : Res(f.p, <<f.r>>)))

(* iter_unzip: next for 2 results; either nil ends the loop *)
RECURSIVE unzip_loop(_, _, _)
unzip_loop(p, t1, t2) ==
  With(NextOf(p), LAMBDA c :
  IF Len(c.r) < 2 THEN Res(c.p, <<t1, t2>>)
  ELSE unzip_loop(c.p, Append(t1, c.r[1]), Append(t2, c.r[2])))
-----------------------------------------------------------------------------
(* the refinement mapping: the tuples a source and a pipeline are meant   *)
(* to yield from their current upvalues: a vals source the rest of t, a   *)
(* pairs source the rest of (k, t[k]), a range source cur, cur+step, ...   *)
(* up to and including stop, a gmatch source the matches the manual's    *)
(* pattern semantics (LPatternRef) gives from its position on            *)
RefGmatchTab == [g \in Gmatches |-> [pos \in 0 .. Len(g[1]) + 1 |-> RefGmatch(g[1], g[2], pos)]]

RemSrcOf(s, ref) ==
  CASE s.kind = "vals"  -> IF s.on THEN [j \in Upto(Len(s.tbl) - s.idx) |-> <<s.tbl[s.idx + j]>>]
                           ELSE <<>>
    [] s.kind = "pairs" -> [j \in Upto(Len(s.tbl) - s.idx) |-> <<s.idx + j, s.tbl[s.idx + j]>>]
    [] s.kind = "range" ->
         LET m == IF s.cnt > 0 THEN (s.n - s.idx) \div s.cnt + 1
                  ELSE (s.idx - s.n) \div (-s.cnt) + 1
         IN [j \in Upto(m) |-> <<s.idx + (j - 1) * s.cnt>>]
    [] s.kind = "gmatch" -> ref[<<s.tbl, s.pat>>][s.idx]
    [] s.kind = "none"  -> <<>>

RemSrc(s) == RemSrcOf(s, tabs.ref)

RECURSIVE Remaining(_, _)
Remaining(p, k) ==
  IF k = 1 THEN RemSrc(p[1]) ELSE
  LET s == p[k] IN
  With(Remaining(p, k - 1), LAMBDA up :
     CASE s.kind = "chain" -> (IF s.on THEN up ELSE <<>>) \o RemSrc(s.src2)
       [] s.kind = "zip" ->
            IF s.on /\ s.on2
            THEN LET b == RemSrc(s.src2)
                     m == IF Len(up) < Len(b) THEN Len(up) ELSE Len(b)
                 IN [j \in 1 .. m |-> <<up[j][1], b[j][1]>>]
            ELSE <<>>
       [] s.kind \notin {"chain", "zip"} -> IF ~s.on THEN <<>> ELSE
            CASE s.kind = "map"       -> [j \in DOMAIN up |-> MapF(up[j])]
              [] s.kind = "filter"    -> SelectSeq(up, Pred)
              [] s.kind = "enumerate" -> [j \in DOMAIN up |-> <<s.idx + j>> \o up[j]]
              [] s.kind = "inspect"   -> up
              [] s.kind = "skip" -> IF s.hasn THEN Drop(up, IF s.n > 0 THEN s.n ELSE 0) ELSE up
              [] s.kind = "take" -> IF s.hasn THEN Take(up, s.n - s.cnt) ELSE <<>>)

(* pending is this function of the pipeline, kept in a variable that    *)
(* every action sets from the pipeline it leaves: the refinement mapping *)
(* then reads a value instead of re-evaluating the reference matcher in  *)
(* each step                                                              *)
Pending(p) == Remaining(p, Len(p))
-----------------------------------------------------------------------------
(* the client: iter(...) on one source, then library calls on the object *)
Src2 == UNION {SourcesOf(k) : k \in Seconds}

Init == /\ tabs = [aux |-> GmatchAux, ref |-> RefGmatchTab]
        /\ it \in {<<AsStage(s)>> : s \in UNION {SourcesOf(k) : k \in Firsts1}}
        /\ op = "iter" /\ result = End /\ ops = 0
        /\ pending = Pending(it)

Lib(name) == ops < MaxOps /\ ops' = ops + 1 /\ op' = name

(* an adapter: getfield "next", pushcclosure with the new upvalues,       *)
(* setfield "next", return the same object                               *)
Adapter(name, st) ==
  /\ Lib(name) /\ Len(it) < MaxStages
  /\ it' = Append(it, st) /\ pending' = Pending(Append(it, st)) /\ UNCHANGED <<result, tabs>>

(* a consumer runs its loop to the end and returns its value *)
Consumer(name, call) ==
  \E c \in {call} : Lib(name) /\ it' = c.p /\ result' = c.r /\ pending' = Pending(c.p)
                    /\ UNCHANGED tabs

iter_map       == Adapter("map", Stage("map", NoSrc, 0, 0))
iter_filter    == Adapter("filter", Stage("filter", NoSrc, 0, 0))
iter_enumerate == Adapter("enumerate", Stage("enumerate", NoSrc, 0, 0))
iter_inspect   == Adapter("inspect", Stage("inspect", NoSrc, 0, 0))
iter_skip(n)   == Adapter("skip", Stage("skip", NoSrc, 0, n))
iter_take(n)   == Adapter("take", Stage("take", NoSrc, 0, n))
(* chain and zip capture b.next of a second, fresh iterator b *)
iter_chain     == \E s2 \in Src2 : Adapter("chain", Stage("chain", s2, 0, 0))
iter_zip       == \E s2 \in Src2 : Adapter("zip", Stage("zip", s2, 0, 0))

it_next        == Consumer("next", NextOf(it))
iter_consume   == Consumer("consume", drain_loop(it))
iter_foreach   == Consumer("foreach", drain_loop(it))
iter_count     == Consumer("count", count_loop(it, 0))
iter_last      == Consumer("last", last_loop(it, End))
iter_nth(n)    == Consumer("nth", nth_loop(it, n, 0))
iter_collect   == Consumer("collect", collect_loop(it, 0, <<>>))
iter_all       == Consumer("all", all_loop(it))
iter_any       == Consumer("any", any_loop(it))
iter_find      == Consumer("find", find_loop(it))
iter_position  == Consumer("position", position_loop(it, 1))
iter_min       == Consumer("min", min_loop(it, End))
iter_max       == Consumer("max", max_loop(it, End))
iter_fold(a)   == Consumer("fold", fold_loop(it, a))
iter_reduce    == Consumer("reduce", reduce_call(it))
iter_unzip     == Consumer("unzip", unzip_loop(it, <<>>, <<>>))

Done == ops = MaxOps /\ UNCHANGED vars

Next ==
  \/ iter_map \/ iter_filter \/ iter_enumerate \/ iter_inspect \/ iter_chain \/ iter_zip
  \/ \E n \in Counts : iter_skip(n) \/ iter_take(n) \/ iter_nth(n) \/ iter_fold(n)
  \/ it_next \/ iter_consume \/ iter_foreach \/ iter_count \/ iter_last \/ iter_collect
  \/ iter_all \/ iter_any \/ iter_find \/ iter_position \/ iter_min \/ iter_max
  \/ iter_reduce \/ iter_unzip
  \/ Done

Spec == Init /\ [][Next]_vars
Abs == INSTANCE LIterAbs
         WITH rest <- pending,
              Starts <- {RemSrcOf(s, RefGmatchTab) : s \in UNION {SourcesOf(k) : k \in Firsts1}},
              Sources <- {RemSrcOf(s, RefGmatchTab) : s \in Src2}

(* every sequence of library calls on one iterator object yields and      *)
(* returns what the same calls on the sequence it stands for would: each  *)
(* next the next tuple, each adapter the transformed rest, each consumer *)
(* its value from a prefix of the rest                                   *)
AbsSpec == Abs!Spec
=============================================================================
