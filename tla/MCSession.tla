----------------------------- MODULE MCSession -----------------------------
(* Session on small instances. *)
EXTENDS Session, TLC

CONSTANTS p1, p2, r1, r2, none

TwoPorts == {p1, p2}
OneRequest == {r1}
TwoRequests == {r1, r2}
AllActions == PlainActions \cup CorrelatedActions

\* The build at hand, and one from before the update check.
ThisBuild == {AllActions}
AnyBuild == {AllActions, AllActions \ {"update-check"}}
AllTimers == CorrelatedActions \cup {"ping", "page", "cache"}

\* Sound for safety only: the liveness runs name no symmetry.
Symmetry == Permutations(TwoPorts) \cup Permutations(TwoRequests)

\* Some JSON for a command, longer when it carries an id; and what parses.
ShortJson(m) == IF m.id = NoId THEN <<1>> ELSE <<2, 0>>
ShortTexts == {payload \in Payloads : payload[1] # 0}
=============================================================================
