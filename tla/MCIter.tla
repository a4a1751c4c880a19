------------------------------- MODULE MCIter -------------------------------
(* Instances of LIter for TLC: two small tables, ranges, and gmatch over *)
(* subjects and patterns whose first and last captures are positions, so *)
(* that every tuple starts and ends with an integer                      *)
EXTENDS LIter

MCTables == {<<1, 2>>, <<2, 1, 1>>}
MCRangeArgs == {<<3>>, <<1, 3>>, <<3, 1, -1>>}
MCGmatches == {<<<<"b", "a", "a">>, <<"(", ")", "a", "*", "(", ")">>>>,
               <<<<"a", "(", "b", ")">>, <<"(", ")", "%", "b", "(", ")", "(", ")">>>>,
               <<<<"a", "A", "b">>, <<"(", ")", "(", "%", "l", ")", "%", "u", "?", "(", ")">>>>,
               <<<<"a", "b", "a">>, <<"(", ")", "[", "%", "l", "]", "*", "(", ")", "a", "(", ")">>>>}
=============================================================================
