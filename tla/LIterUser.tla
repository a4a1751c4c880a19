----------------------------- MODULE LIterUser ------------------------------
(***************************************************************************)
(* The Lua side of the iterator library (src/src/literlib.c): the values   *)
(* an iterator yields and the functions a client passes to map, filter,    *)
(* fold and the others.  An iterator's next returns a tuple of values; it *)
(* has ended when the tuple is empty (none or a first nil, which the      *)
(* library tests with isnoneornil).  The client's functions are fixed and *)
(* deterministic: they are data for the library, which only calls them.   *)
(***************************************************************************)
EXTENDS Integers, Sequences, SequencesExt

(* the result of a next call that yields nothing *)
End == <<>>

(* the first n tuples of s (all of them if it has fewer), and s without  *)
(* its first n; Upto(n) is 1..n, with no negative bound                    *)
Upto(n) == 1 .. (IF n > 0 THEN n ELSE 0)
Take(s, n) == [j \in Upto(IF n < Len(s) THEN n ELSE Len(s)) |-> s[j]]
Drop(s, n) == [j \in Upto(Len(s) - n) |-> s[j + n]]

(* map's f: one result for the tuple, from its last value *)
MapF(tup) == <<3 - tup[Len(tup)]>>

(* filter's, find's, all's, any's and position's predicate *)
Pred(tup) == tup[Len(tup)] = 1

(* fold's f(acc, ...): adds the last value *)
FoldF(acc, tup) == acc + tup[Len(tup)]

(* collect: with (k, v) results t[k] = v, with a lone k t[#t+1] = k; a    *)
(* table is kept as a function from keys to values                        *)
Store(tbl, k, v) == (k :> v) @@ tbl
=============================================================================
