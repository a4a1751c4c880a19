------------------------------- MODULE MCLibs -------------------------------
EXTENDS LLibClient, LRuntime, LRef

CONSTANTS c1, c2, A, B

(* the three clients share no state: a behaviour is a run of the       *)
(* string, table and base library client, of the run-time client, or of *)
(* a C client of luaL_ref and luaL_unref                                 *)
VARIABLE part

UInit == LInit /\ RInit /\ RefInit /\ part \in {"libs", "runtime", "registry"}

UNext == \/ part = "libs" /\ LNext /\ UNCHANGED <<rvars, refvars, part>>
         \/ part = "runtime" /\ RNext /\ UNCHANGED <<lvars, refvars, part>>
         \/ part = "registry" /\ RefNext /\ UNCHANGED <<lvars, rvars, part>>

USpec == UInit /\ [][UNext]_<<lvars, rvars, refvars, part>>

(* positions around the array part: below 1, inside, just past #t+1 *)
MCPositions == {-1, 0, 1, 2, 3, 5}

(* no separator, and a one-space separator *)
MCSeps == {<<>>, <<" ">>}

(* a run of digits, two captures, an anchored char, an item that matches *)
(* the empty string, and a pattern with no special character            *)
MCPats == {<<"%", "d", "+">>, <<"(", "%", "d", ")", "(", "%", "d", ")">>,
           <<"^", "1">>, <<"2", "*">>, <<"2", "3">>}

(* swap the captures; the match after a char; a table with one entry    *)
MCRepls == {[k |-> "str", s |-> <<"%", "2", "%", "1">>, t |-> <<>>],
            [k |-> "str", s |-> <<"a", "%", "0">>, t |-> <<>>],
            [k |-> "tbl", s |-> <<>>, t |-> (<<"2", "3">> :> <<"a">>)]}

MCRanges == {<<2, -1>>, <<-2, 9>>}

(* from the start, and two back from the end *)
MCInits == {1, -2}

(* unpack bounds with INLUAI_BITSINT = 16: INT_MIN..INT_MAX, whose count *)
(* 2^16 wraps to 0; 1..INT_MAX, more than the C stack holds; a window   *)
(* from t[0] to t[2]; and an empty range                                 *)
MCUnpacks == {<<-32768, 32767>>, <<1, 32767>>, <<0, 2>>, <<3, 2>>}

(* select("#", ...), select(2, ...), select(-1, ...), select(0, ...) *)
MCSelects == {StrV(<<"#">>), NumV(2), NumV(-1), NumV(0)}

(* module names "a" and "b.c"; INLUA_PATH set to "./?.l;;;?/i.l" and a  *)
(* default path "?.x", so package.path is "./?.l;?.x;;?/i.l" (setpath     *)
(* replaces the first ";;" only: an empty template, the last one at the   *)
(* end); INLUA_CPATH unset, so package.cpath is the default "?.s;?/?.s"  *)
(* (two marks in one template); "a/i.l" is a Lua file that compiles and   *)
(* "b/c/b/c.s" a file that is not a C library: require finds a through   *)
(* the Lua loader after three failed templates, and the C loader raises  *)
(* for b.c after the Lua loader found nothing                             *)
MCModName == (A :> <<"a">>) @@ (B :> <<"b", ".", "c">>)
MCEnvPath == <<".", "/", "?", ".", "l", ";", ";", ";", "?", "/", "i", ".", "l">>
MCDefPath == <<"?", ".", "x">>
MCDefCPath == <<"?", ".", "s", ";", "?", "/", "?", ".", "s">>
MCReadable == {<<"a", "/", "i", ".", "l">>, <<"b", "/", "c", "/", "b", "/", "c", ".", "s">>}
MCCompiles == {<<"a", "/", "i", ".", "l">>}
=============================================================================
