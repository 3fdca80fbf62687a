-------------------------- MODULE ApprovalContract --------------------------
(***************************************************************************)
(* What the approval engine promises about one request, with no locks, no  *)
(* transactions and no copies: every operation is one atomic step on the   *)
(* request's chain.  ApprovalEngine implements it.                         *)
(*                                                                         *)
(* chain[i] is the approval instance of request i; effect[i] is the list   *)
(* of domain hooks that were run for it.                                   *)
(***************************************************************************)
EXTENDS Integers, Sequences

CONSTANT Instances      \* approval instances, one per domain request

VARIABLES chain, effect

vars == <<chain, effect>>

Absent == [status |-> "NONE", line |-> 0, count |-> 0,
           templated |-> FALSE, version |-> 0]

Init ==
    /\ chain = [i \in Instances |-> Absent]
    /\ effect = [i \in Instances |-> <<>>]

\* A request enters the engine at line 1 of one to three lines, under some version.
Submit(i) ==
    /\ chain[i].status = "NONE"
    /\ chain'[i].count \in 1..3
    /\ chain'[i].templated \in BOOLEAN
    /\ chain'[i].version \in Nat
    /\ chain' = [chain EXCEPT ![i] =
                    [status |-> "PENDING", line |-> 1, count |-> chain'[i].count,
                     templated |-> chain'[i].templated, version |-> chain'[i].version]]
    /\ UNCHANGED effect

Close(i, status) ==
    /\ chain[i].status = "PENDING"
    /\ chain' = [chain EXCEPT ![i].status = status]

\* One line is cleared and others remain.
Clear(i) ==
    /\ chain[i].status = "PENDING"
    /\ chain[i].line < chain[i].count
    /\ chain' = [chain EXCEPT ![i].line = chain[i].line + 1]
    /\ UNCHANGED effect

\* The last line is cleared, or the chain is bypassed: the hook runs with it.
Approve(i) ==
    /\ Close(i, "APPROVED")
    /\ effect' = [effect EXCEPT ![i] = Append(effect[i], "OnApproved")]

Reject(i) ==
    /\ Close(i, "REJECTED")
    /\ effect' = [effect EXCEPT ![i] = Append(effect[i], "OnRejected")]

Cancel(i) ==
    /\ Close(i, "CANCELLED")
    /\ UNCHANGED effect

\* A template edit sends pending requests back to line 1 of one later version; a
\* template's deletion does so for requests that never had a template.
Rebase ==
    /\ \E S \in SUBSET Instances :
          /\ \A i \in S : /\ chain[i].status = "PENDING"
                          /\ chain'[i].version \in Nat
                          /\ chain'[i].version > chain[i].version \/ ~ chain[i].templated
          /\ \A i, j \in S : chain'[i].version = chain'[j].version
          /\ chain' = [i \in Instances |->
                          IF i \in S
                          THEN [chain[i] EXCEPT !.line = 1, !.version = chain'[i].version]
                          ELSE chain[i]]
    /\ UNCHANGED effect

Next ==
    \/ \E i \in Instances : \/ Submit(i) \/ Clear(i) \/ Approve(i)
                            \/ Reject(i) \/ Cancel(i)
    \/ Rebase

Spec == Init /\ [][Next]_vars
=============================================================================
