------------------------------ MODULE LIterAbs ------------------------------
(***************************************************************************)
(* What an iterator of src/src/literlib.c promises: it is the sequence of  *)
(* tuples it has still to yield.  next hands out the head of that sequence *)
(* (nothing once it is empty); an adapter replaces the sequence by the     *)
(* transformed one; a consumer takes a prefix of it and returns a value    *)
(* computed from that prefix.  The iterator object is shared: every       *)
(* adapter changes the object's next in place and returns the object, so *)
(* there is one sequence.                                                  *)
(***************************************************************************)
EXTENDS Integers, Sequences, SequencesExt, LIterUser

CONSTANTS Starts,  \* the sequences the client's iterator starts with
          Sources, \* the sequences a fresh second iterator (chain, zip) yields
          Counts   \* the counts passed to skip, take, nth and fold

VARIABLES rest,    \* the tuples still to be yielded
          op,      \* the library function called last
          result   \* what it returned

avars == <<rest, op, result>>

Firsts(s) == [k \in DOMAIN s |-> s[k][1]]
Bool(b) == IF b THEN 1 ELSE 0

(* the first index whose tuple satisfies Pred, 0 if none *)
Hit(s) == SelectInSeq(s, Pred)
Miss(s) == SelectInSeq(s, LAMBDA tup : ~Pred(tup))

Init == /\ rest \in Starts /\ op = "iter" /\ result = End

Adapt(name, s) == /\ op' = name /\ rest' = s /\ UNCHANGED result
Consume(name, r, s) == /\ op' = name /\ result' = r /\ rest' = s

-----------------------------------------------------------------------------
(* adapters *)
IterMap       == Adapt("map", [k \in DOMAIN rest |-> MapF(rest[k])])
IterFilter    == Adapt("filter", SelectSeq(rest, Pred))
IterEnumerate == Adapt("enumerate", [k \in DOMAIN rest |-> <<k>> \o rest[k]])
IterSkip(n)   == Adapt("skip", Drop(rest, IF n > 0 THEN n ELSE 0))
IterTake(n)   == Adapt("take", Take(rest, n))
IterInspect   == Adapt("inspect", rest)
IterChain     == \E s2 \in Sources : Adapt("chain", rest \o s2)
IterZip       == \E s2 \in Sources :
               LET m == IF Len(rest) < Len(s2) THEN Len(rest) ELSE Len(s2)
               IN Adapt("zip", [k \in 1 .. m |-> <<rest[k][1], s2[k][1]>>])

(* consumers *)
IterNext == Consume("next", IF rest = <<>> THEN End ELSE Head(rest), Drop(rest, 1))
IterCount    == Consume("count", Len(rest), <<>>)
(* nth(n) for n < 1 never reaches its n-th call: it consumes everything  *)
IterNth(n)   == IF n < 1 THEN Consume("nth", End, <<>>)
                ELSE Consume("nth", IF n <= Len(rest) THEN rest[n] ELSE End, Drop(rest, n))
IterLast   == Consume("last", IF rest = <<>> THEN End ELSE Last(rest), <<>>)
IterCollect  ==
  LET add(acc, tup) ==
        IF Len(tup) >= 2 THEN [n |-> acc.n, t |-> Store(acc.t, tup[1], tup[2])]
        ELSE [n |-> acc.n + 1, t |-> Store(acc.t, acc.n + 1, tup[1])]
  IN Consume("collect", FoldLeft(add, [n |-> 0, t |-> <<>>], rest).t, <<>>)
IterAll      == Consume("all", Bool(Miss(rest) = 0),
                    IF Miss(rest) = 0 THEN <<>> ELSE Drop(rest, Miss(rest)))
IterAny      == Consume("any", Bool(Hit(rest) # 0),
                    IF Hit(rest) = 0 THEN <<>> ELSE Drop(rest, Hit(rest)))
IterFind     == Consume("find", IF Hit(rest) = 0 THEN End ELSE rest[Hit(rest)],
                    IF Hit(rest) = 0 THEN <<>> ELSE Drop(rest, Hit(rest)))
IterPosition == Consume("position", Hit(rest),
                    IF Hit(rest) = 0 THEN <<>> ELSE Drop(rest, Hit(rest)))
IterMin    == Consume("min", IF rest = <<>> THEN End
                           ELSE <<FoldLeft(LAMBDA x, y : IF y < x THEN y ELSE x,
                                           Head(rest)[1], Firsts(rest))>>, <<>>)
IterMax    == Consume("max", IF rest = <<>> THEN End
                           ELSE <<FoldLeft(LAMBDA x, y : IF y > x THEN y ELSE x,
                                           Head(rest)[1], Firsts(rest))>>, <<>>)
IterFold(a)  == Consume("fold", FoldLeft(FoldF, a, rest), <<>>)
IterReduce   == Consume("reduce", IF rest = <<>> THEN End
                              ELSE <<FoldLeft(FoldF, Head(rest)[1], Tail(rest))>>,
                    <<>>)
IterDrain(name) == Consume(name, End, <<>>)
IterUnzip    ==
  LET stop == SelectInSeq(rest, LAMBDA tup : Len(tup) < 2)
      n == IF stop = 0 THEN Len(rest) ELSE stop - 1
  IN Consume("unzip", <<[k \in 1 .. n |-> rest[k][1]], [k \in 1 .. n |-> rest[k][2]]>>,
             IF stop = 0 THEN <<>> ELSE Drop(rest, stop))

Next ==
  \/ IterMap \/ IterFilter \/ IterEnumerate \/ IterInspect \/ IterChain \/ IterZip
  \/ \E n \in Counts : IterSkip(n) \/ IterTake(n) \/ IterNth(n) \/ IterFold(n)
  \/ IterNext \/ IterCount \/ IterLast \/ IterCollect \/ IterAll \/ IterAny \/ IterFind \/ IterPosition
  \/ IterMin \/ IterMax \/ IterReduce \/ IterUnzip \/ IterDrain("consume") \/ IterDrain("foreach")

Spec == Init /\ [][Next]_avars
=============================================================================
