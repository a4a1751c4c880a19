----------------------------- MODULE LTableSort -----------------------------
(***************************************************************************)
(* table.sort of src/src/ltablib.c: auxsort, the quicksort with median of  *)
(* three, run on one table whose array part is t[1..N].  The order         *)
(* function is a callback: every call to sort_comp is a point at which the *)
(* model takes the comparator's answer, so a state is the C function's    *)
(* locals (l, u, i, j, the pivot P left on the Lua stack) between two     *)
(* comparator calls.  The recursive call auxsort(L, j, i) is a push of the *)
(* caller's remaining range [l, u] on segs.                                *)
(*                                                                         *)
(* comp = "lt": no order function is given, sort_comp is lua_lessthan,    *)
(* which raises on nil.  comp = "any": a Lua order function, which may     *)
(* answer anything on each call (math.random, a non-strict <=, ...).  The *)
(* control of auxsort then depends on the answers and on which slots are  *)
(* nil, never on the values, so one value stands for all of them.         *)
(***************************************************************************)
EXTENDS Integers, Sequences, SequencesExt

CONSTANTS N,      \* the length of the array part (aux_getn)
          Vals,   \* the values stored in it, a set of positive integers
          Comps   \* whether sort is called without ("lt") or with ("any") an order function

ASSUME N \in Nat /\ Vals \subseteq Nat \ {0} /\ Comps \subseteq {"lt", "any"}

(* nil, as rawgeti returns it for an absent index *)
Nil == 0

(* the table indices auxsort can read: l-1 and u+1 at worst *)
Idx == 0 .. N + 1

VARIABLES t,      \* the table, Idx -> value or Nil
          l, u,   \* auxsort's current range
          i, j,   \* the partition cursors
          P,      \* the pivot value kept on the stack
          segs,   \* ranges of the callers suspended in auxsort(L, j, i)
          pc,     \* "loop", "median", "scani", "scanj", "place" or "ret"
          status, \* "sorting", "done" or "error"
          t0,     \* ghost: the array before the sort
          comp    \* sort's second argument: "lt" (none) or "any"

vars == <<t, l, u, i, j, P, segs, pc, status, t0, comp>>

(* set2 after two rawgeti: t[x] and t[y] exchanged *)
Swap(f, x, y) == [f EXCEPT ![x] = f[y], ![y] = f[x]]

(* the answers sort_comp(x, y) may give; lua_lessthan raises on nil      *)
Less(x, y) == IF comp = "lt" THEN {x < y} ELSE BOOLEAN
CompareFails(x, y) == comp = "lt" /\ (x = Nil \/ y = Nil)

Raise == /\ status' = "error"
         /\ UNCHANGED <<t, l, u, i, j, P, segs, pc, t0, comp>>

(* sort: n = aux_getn(1); auxsort(L, 1, n) on a table with no holes        *)
Init == /\ comp \in Comps
        /\ t0 \in IF comp = "lt" THEN [1 .. N -> Vals]
                 ELSE {[k \in 1 .. N |-> CHOOSE v \in Vals : TRUE]}
        /\ t = [k \in Idx |-> IF k \in 1 .. N THEN t0[k] ELSE Nil]
        /\ l = 1 /\ u = N /\ i = 0 /\ j = 0 /\ P = Nil
        /\ segs = <<>> /\ pc = "loop" /\ status = "sorting"

(* while (l < u): sort elements a[l], a[u]; if (u-l == 1) break           *)
SortEnds ==
  /\ status = "sorting" /\ pc = "loop" /\ l < u
  /\ \E c \in Less(t[u], t[l]) :
       /\ t' = IF c THEN Swap(t, l, u) ELSE t
       /\ pc' = IF u - l = 1 THEN "ret" ELSE "median"
       /\ i' = IF u - l = 1 THEN i ELSE (l + u) \div 2
  /\ UNCHANGED <<l, u, j, P, segs, status, t0, comp>>

(* mutant: the a[u] < a[i] exchange of the median of three is left out   *)
SortMedianNoUpper ==
  /\ status = "sorting" /\ pc = "median"
  /\ \E c1 \in Less(t[i], t[l]) :
     LET t1 == IF c1 THEN Swap(t, i, l) ELSE t IN
       IF u - l = 2
       THEN /\ t' = t1 /\ pc' = "ret" /\ UNCHANGED <<i, j, P>>
       ELSE /\ t' = Swap(t1, i, u - 1)
            /\ P' = t1[i]
            /\ i' = l /\ j' = u - 1 /\ pc' = "scani"
  /\ UNCHANGED <<l, u, segs, status, t0, comp>>

(* median of a[l], a[i], a[u]; if (u-l == 2) break; P = a[i] swapped to   *)
(* a[u-1]; i = l; j = u-1                                                  *)
SortMedian ==
  /\ status = "sorting" /\ pc = "median"
  /\ \E c1 \in Less(t[i], t[l]) :
     LET t1 == IF c1 THEN Swap(t, i, l) ELSE t IN
     \E c2 \in IF c1 THEN {FALSE} ELSE Less(t[u], t[i]) :
     LET t2 == IF c2 THEN Swap(t1, i, u) ELSE t1 IN
       IF u - l = 2
       THEN /\ t' = t2 /\ pc' = "ret" /\ UNCHANGED <<i, j, P>>
       ELSE /\ t' = Swap(t2, i, u - 1)
            /\ P' = t2[i]
            /\ i' = l /\ j' = u - 1 /\ pc' = "scani"
  /\ UNCHANGED <<l, u, segs, status, t0, comp>>

(* mutant: the cursor is read without ++i, as rawgeti(L, 1, i) *)
ScanINoInc ==
  /\ status = "sorting" /\ pc = "scani"
  /\ IF CompareFails(t[i], P) THEN Raise
     ELSE \E c \in Less(t[i], P) :
            /\ pc' = IF c THEN "scani" ELSE "scanj"
            /\ UNCHANGED <<t, l, u, i, j, P, segs, status, t0, comp>>

(* while (rawgeti(++i), sort_comp(a[i], P)) { if (i>u) error }            *)
ScanI ==
  /\ status = "sorting" /\ pc = "scani"
  /\ IF CompareFails(t[i + 1], P) THEN Raise
     ELSE \E c \in Less(t[i + 1], P) :
            IF c /\ i + 1 > u THEN Raise
            ELSE /\ i' = i + 1
                 /\ pc' = IF c THEN "scani" ELSE "scanj"
                 /\ UNCHANGED <<t, l, u, j, P, segs, status, t0, comp>>

(* while (rawgeti(--j), sort_comp(P, a[j])) { if (j<l) error };           *)
(* if (j<i) break; set2(L, i, j)                                          *)
ScanJ ==
  /\ status = "sorting" /\ pc = "scanj"
  /\ IF CompareFails(P, t[j - 1]) THEN Raise
     ELSE \E c \in Less(P, t[j - 1]) :
            IF c /\ j - 1 < l THEN Raise
            ELSE /\ j' = j - 1
                 /\ pc' = IF c THEN "scanj" ELSE "place"
                 /\ UNCHANGED <<t, l, u, i, P, segs, status, t0, comp>>

(* the end of one partition round: if (j<i) break; else set2(L, i, j)     *)
Exchange ==
  /\ status = "sorting" /\ pc = "place" /\ j >= i
  /\ t' = Swap(t, i, j) /\ pc' = "scani"
  /\ UNCHANGED <<l, u, i, j, P, segs, status, t0, comp>>

(* mutant: the smaller lower half is recursed on as [l, i-2] *)
PartitionedOffByOne ==
  /\ status = "sorting" /\ pc = "place" /\ j < i
  /\ t' = Swap(t, u - 1, i)
  /\ IF i - l < u - i
     THEN /\ segs' = Append(segs, <<i + 1, u>>) /\ l' = l /\ u' = i - 2
     ELSE /\ segs' = Append(segs, <<l, i - 1>>) /\ l' = i + 1 /\ u' = u
  /\ P' = Nil /\ pc' = "loop"
  /\ UNCHANGED <<i, j, status, t0, comp>>

(* mutant: the larger lower half skips a slot, l = i+2 as in the other arm *)
PartitionedSkipUpper ==
  /\ status = "sorting" /\ pc = "place" /\ j < i
  /\ t' = Swap(t, u - 1, i)
  /\ IF i - l < u - i
     THEN /\ segs' = Append(segs, <<i + 1, u>>) /\ l' = l /\ u' = i - 1
     ELSE /\ segs' = Append(segs, <<l, i - 1>>) /\ l' = i + 2 /\ u' = u
  /\ P' = Nil /\ pc' = "loop"
  /\ UNCHANGED <<i, j, status, t0, comp>>

(* set2(L, u-1, i); recurse into the smaller half, loop on the larger     *)
Partitioned ==
  /\ status = "sorting" /\ pc = "place" /\ j < i
  /\ t' = Swap(t, u - 1, i)
  /\ IF i - l < u - i
     THEN /\ segs' = Append(segs, <<i + 1, u>>) /\ l' = l /\ u' = i - 1
     ELSE /\ segs' = Append(segs, <<l, i - 1>>) /\ l' = i + 1 /\ u' = u
  /\ P' = Nil /\ pc' = "loop"
  /\ UNCHANGED <<i, j, status, t0, comp>>

(* the while loop ends (l >= u or a break): return to the caller          *)
Return ==
  /\ status = "sorting"
  /\ pc = "ret" \/ (pc = "loop" /\ l >= u)
  /\ IF segs = <<>>
     THEN /\ status' = "done" /\ UNCHANGED <<l, u, segs, pc>>
     ELSE /\ l' = Last(segs)[1] /\ u' = Last(segs)[2]
          /\ segs' = Front(segs) /\ pc' = "loop"
          /\ UNCHANGED status
  /\ P' = Nil
  /\ UNCHANGED <<t, i, j, t0, comp>>

Terminated == status # "sorting" /\ UNCHANGED vars

Next == SortEnds \/ SortMedian \/ ScanI \/ ScanJ \/ Exchange
        \/ Partitioned \/ Return \/ Terminated

Spec == Init /\ [][Next]_vars

(* sort is one C call on one thread: nothing else runs while it does, so  *)
(* each of its steps is taken once it is enabled                          *)
FairSpec == Spec /\ WF_vars(Next)
-----------------------------------------------------------------------------
LessEq(x, y) == x <= y

(* the array part of the table *)
Array == [k \in 1 .. N |-> t[k]]

(* every variable ranges over the values the C locals can take           *)
TypeOK == /\ t \in [Idx -> Vals \cup {Nil}]
          /\ l \in 0 .. N + 2 /\ u \in 0 .. N + 1
          /\ i \in 0 .. N + 1 /\ j \in 0 .. N + 1
          /\ P \in Vals \cup {Nil}
          /\ segs \in Seq((0 .. N + 2) \X (0 .. N + 1))
          /\ pc \in {"loop", "median", "scani", "scanj", "place", "ret"}
          /\ status \in {"sorting", "done", "error"}

(* with the default order, the loop invariant auxsort's comment states,   *)
(* a[l..i] <= P <= a[j..u],                                               *)
(* at the head of each partition round; it is what makes the (i>u) and   *)
(* (j<l) checks unreachable for a valid order                            *)
PartitionBounds ==
  comp = "lt" /\ pc = "scani" =>
    /\ \A k \in l .. i : ~(P < t[k])
    /\ \A k \in j .. u : ~(t[k] < P)

(* with the default order, once sort returns, t[1..n] holds the same      *)
(* values, in order                                                       *)
SortedPermutation ==
  comp = "lt" /\ status = "done" => /\ IsSorted(Array, LessEq)
                     /\ ToBag(Array) = ToBag(t0)

(* table.sort reads and writes only t[1..n]: t[0] and t[n+1] stay nil    *)
StaysInArray == t[0] = Nil /\ t[N + 1] = Nil


(* with the default order, table.sort always returns normally            *)
SortCompletes == comp = "lt" => <>(status = "done")
=============================================================================
