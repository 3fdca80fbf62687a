-------------------------- MODULE MCApprovalEngine --------------------------
(* ApprovalEngine for TLC: one or two requests, two concurrent sessions.   *)
EXTENDS ApprovalEngine

CONSTANTS ana, budi, sari, s1, s2

MCUsers == {budi, sari}
MCSuperAdmins == {sari}

\* sari, a super admin, files the requests and sits on a line herself; budi clears
\* lines as a member, and his employment may end.
MCRequester == [i \in Instances |-> sari]
MCLeavers == {budi}
MCInitialLines == <<{budi}, {budi, sari}>>
MCLineLists == {<<{budi, sari}, {budi}>>}

\* An edit that adds a third line, no edit at all.
AddedLine == {<<{budi}, {budi, sari}, {budi}>>}
NoLineLists == {}

\* Two members on line 1, either of whom may clear it.
SharedUsers == {ana, budi, sari}
SharedLine == <<{ana, budi}, {budi}>>
=============================================================================
