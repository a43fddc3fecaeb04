----------------------------- MODULE MCLanguage -----------------------------
EXTENDS ExitPrograms, Language

\* A LET, so that TLC takes the value it already has.
MCCompiled == LET all == AllCompiled IN all
MCVerified == LET all == AllVerified IN all
MCExpected == LET all == AllExpected IN all

MethodCompiled == LET ps == LocalInMethod IN [p \in DOMAIN ps |-> CompiledCode(ps[p])] @@ NoEntries
MethodVerified == LET cs == MethodCompiled IN [p \in DOMAIN cs |-> HeightsOf(cs[p])] @@ NoEntries
MethodExpected == LET ps == LocalInMethod IN [p \in DOMAIN ps |-> Interpreted(ps[p])] @@ NoEntries
=============================================================================
