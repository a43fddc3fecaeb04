---------------------------- MODULE MCTaskGlobals ----------------------------
EXTENDS TaskGlobals, TLC
OneGlobal == <<"a">>
TwoGlobals == <<"a", "b">>
OneGrainGlobal == <<"g">>
NoGlobals == <<>>
OwnCalls == {<<Main, Main>>, <<Grain, Grain>>}
AllCalls == Homes \X Homes
TaskSymmetry == Permutations(Tasks)
=============================================================================
