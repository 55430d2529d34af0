---------------------------- MODULE MCSymSession ----------------------------
\* Scenarios for SymSession: streams of partials beside full packets on a ring
\* with and without room, and full packets beside updates.
EXTENDS SymSession

S(p, f, u, r, c, v) == [partials |-> p, fulls |-> f, updates |-> u, ring |-> r,
                        cookies |-> c, verifyFails |-> v]
AllScenarios == {S(3, 1, 0, 4, 4, TRUE), S(3, 1, 0, 2, 3, FALSE),
                 S(0, 2, 2, 2, 2, FALSE)}
TornScenarios == {S(3, 0, 0, 4, 4, FALSE)}
VerifyScenarios == {S(3, 1, 0, 4, 4, TRUE)}
=============================================================================
