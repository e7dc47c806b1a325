------------------------------ MODULE MCPaging ------------------------------
(* Values of Paging's constants for TLC.                                   *)
EXTENDS Paging, TLC

CONSTANTS c1, c2, h1, h2

OneChannel == {c1}
TwoChannels == {c1, c2}
OneHandler == {h1}
TwoHandlers == {h1, h2}
NoLadder == <<>>
OneRung == << {c1} >>
TwoRungs == << {c1}, {c2} >>
ThreeRungs == << {c1}, {c2}, {c1} >>
=============================================================================
