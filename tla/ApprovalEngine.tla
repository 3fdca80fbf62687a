--------------------------- MODULE ApprovalEngine ---------------------------
(***************************************************************************)
(* The approval engine of one client company                               *)
(* (backend/internal/service/approval): the company's template of ordered  *)
(* lines, the approval instances of its domain requests, their append-only *)
(* trail of decisions, and the database transactions that work on them.    *)
(*                                                                         *)
(* A session is one HTTP request being served.  Its transaction runs at    *)
(* READ COMMITTED: a read through the connection pool (and a FOR UPDATE    *)
(* once granted) sees the committed rows, its own writes become visible    *)
(* only at commit, and row locks are kept until then.  So the rows below   *)
(* are the COMMITTED rows, and the transaction's writes are applied to     *)
(* them by the action that commits it.                                     *)
(***************************************************************************)
EXTENDS Integers, Sequences

CONSTANTS
    Users,          \* staff users
    SuperAdmins,    \* those of role super_admin
    Instances,      \* one approval instance per domain request
    Requester,      \* the user behind the requester of each instance
    Leavers,        \* bound: the users whose employment ends or restarts
    Sessions,       \* requests being served concurrently
    LineLists,      \* the line configurations an HR admin may save
    InitialLines,   \* the seeded template's lines, <<>> for no template
    MaxVersion      \* bound: no edit starts once the template is at this version

\* TM-2: two or three lines, each with a member; others are refused (400) unread.
ValidLineShape(lines) ==
    /\ lines \in Seq(SUBSET Users)
    /\ Len(lines) \in 2..3
    /\ \A k \in DOMAIN lines : lines[k] # {}

ASSUME EngineAssumption ==
    /\ SuperAdmins \subseteq Users /\ Leavers \subseteq Users
    /\ Requester \in [Instances -> Users]
    /\ Users # {} /\ Instances # {}
    /\ \A lines \in LineLists : ValidLineShape(lines)
    /\ InitialLines = <<>> \/ ValidLineShape(InitialLines)
    /\ MaxVersion \in Nat

VARIABLES
    template,   \* the company's approval_templates row with its lines
    instance,   \* approval_instances rows
    trail,      \* approval_actions rows of each instance, oldest first
    effects,    \* the domain hooks run for each instance
    notified,   \* who the last notification batch of each instance went to
    active,     \* users with an active employment agreement
    pc,         \* where the transaction of each session stands
    call,       \* the request the session serves
    tpl,        \* the template a session has read, or is about to write
    row,        \* the session's copy of the instance row it decides on
    todo,       \* pending instances a template change has still to reset
    held,       \* instance rows the session has locked
    answer      \* the answer given by the last step, "none" if it gave none

db == <<template, instance, trail, effects, notified, active>>
vars == <<template, instance, trail, effects, notified, active,
          pc, call, tpl, row, todo, held, answer>>

\* version 0 is NULL: no template.
NoTemplate == [version |-> 0, lines |-> <<>>]
NoInstance == [status |-> "NONE", line |-> 0, count |-> 0,
               templated |-> FALSE, version |-> 0]
NoCall == [verb |-> "NONE", actor |-> CHOOSE u \in Users : TRUE,
           inst |-> CHOOSE i \in Instances : TRUE, line |-> 0]

Decisions == {"APPROVE", "REJECT", "BYPASS"}

Init ==
    /\ template = [version |-> IF InitialLines = <<>> THEN 0 ELSE 1,
                   lines |-> InitialLines]
    /\ instance = [i \in Instances |-> NoInstance]
    /\ trail = [i \in Instances |-> <<>>]
    /\ effects = [i \in Instances |-> <<>>]
    /\ notified = [i \in Instances |-> {}]
    /\ active = Users
    /\ pc = [s \in Sessions |-> "idle"]
    /\ call = [s \in Sessions |-> NoCall]
    /\ tpl = [s \in Sessions |-> NoTemplate]
    /\ row = [s \in Sessions |-> NoInstance]
    /\ todo = [s \in Sessions |-> {}]
    /\ held = [s \in Sessions |-> {}]
    /\ answer = "none"

-----------------------------------------------------------------------------
(* Sessions, locks and the queries several operations share.               *)

\* The session starts to serve a request with its first read made.
Begin(s, verb, actor, inst, line, label) ==
    /\ pc[s] = "idle"
    /\ pc' = [pc EXCEPT ![s] = label]
    /\ call' = [call EXCEPT ![s] = [verb |-> verb, actor |-> actor,
                                    inst |-> inst, line |-> line]]
    /\ answer' = "none"

Goto(s, label) ==
    /\ pc' = [pc EXCEPT ![s] = label]
    /\ answer' = "none"
    /\ UNCHANGED call

\* The transaction ends, by commit or rollback: its locks and copies go with it.
End(s, code) ==
    /\ pc' = [pc EXCEPT ![s] = "idle"]
    /\ call' = [call EXCEPT ![s] = NoCall]
    /\ tpl' = [tpl EXCEPT ![s] = NoTemplate]
    /\ row' = [row EXCEPT ![s] = NoInstance]
    /\ todo' = [todo EXCEPT ![s] = {}]
    /\ held' = [held EXCEPT ![s] = {}]
    /\ answer' = code

RowFree(s, i) == \A t \in Sessions \ {s} : i \notin held[t]

\* The template row is locked from the version bump, or the delete, to commit.
TemplateFree(s) == \A t \in Sessions \ {s} : pc[t] \notin {"validating", "resetting"}

Pending(i) == instance[i].status = "PENDING"

\* The OR-set of the instance's current line in the live template; no row of a
\* template without that line, or for an instance without a template.
CurrentLineMembers(i) ==
    IF instance[i].templated /\ instance[i].line \in DOMAIN template.lines
    THEN template.lines[instance[i].line]
    ELSE {}

-----------------------------------------------------------------------------
(* CreateInstance, in the transaction of a domain request's submission.    *)

\* The template row is read through the pool ...
BeginSubmit(s, i) ==
    /\ instance[i].status = "NONE"
    /\ \A t \in Sessions : ~ (call[t].verb = "SUBMIT" /\ call[t].inst = i)
    /\ Begin(s, "SUBMIT", Requester[i], i, 0, "reading")
    /\ tpl' = [tpl EXCEPT ![s] = [version |-> template.version, lines |-> <<>>]]
    /\ UNCHANGED <<db, row, todo, held>>

\* ... and its lines by later queries, which may find another template.
ReadLines(s) ==
    /\ pc[s] = "reading"
    /\ tpl' = [tpl EXCEPT ![s].lines = IF tpl[s].version = 0 THEN <<>> ELSE template.lines]
    /\ Goto(s, "inserting")
    /\ UNCHANGED <<db, row, todo, held>>

\* Mutant: lines counted from 0.
NewInstanceFromZero(t) ==
    [status |-> "PENDING", line |-> 0,
     count |-> IF t.version = 0 THEN 1 ELSE Len(t.lines),
     templated |-> t.version # 0, version |-> t.version]

NewInstance(t) ==
    [status |-> "PENDING", line |-> 1,
     count |-> IF t.version = 0 THEN 1 ELSE Len(t.lines),
     templated |-> t.version # 0, version |-> t.version]

Line1Recipients(t) == IF t.version = 0 THEN {} ELSE t.lines[1]

\* Insert and commit.  The foreign key makes the insert wait for a delete of the
\* template that is not committed, and fail once the template is gone.
Insert(s) ==
    LET i == call[s].inst IN
    /\ pc[s] = "inserting"
    /\ tpl[s].version = 0 \/ template.version # 0
    /\ tpl[s].version # 0 =>
          \A t \in Sessions : ~ (call[t].verb = "DELETE" /\ pc[t] = "resetting")
    /\ instance' = [instance EXCEPT ![i] = NewInstance(tpl[s])]
    /\ notified' = [notified EXCEPT ![i] = Line1Recipients(tpl[s])]
    /\ End(s, "201")
    /\ UNCHANGED <<template, trail, effects, active>>

InsertFails(s) ==
    /\ pc[s] = "inserting"
    /\ tpl[s].version # 0 /\ template.version = 0
    /\ End(s, "500")
    /\ UNCHANGED db

-----------------------------------------------------------------------------
(* Approve, Reject, Bypass, and CancelInstance on the caller's transaction. *)

\* A decision is asked for while the caller sees the instance at some line.  Only
\* a super admin gets past Bypass's first lines.
BeginDecision(s, u, i, verb) ==
    /\ instance[i].status # "NONE"
    /\ verb = "BYPASS" => u \in SuperAdmins
    /\ Begin(s, verb, u, i, instance[i].line, "locking")
    /\ UNCHANGED <<db, tpl, row, todo, held>>

\* The request became moot in its own module, which closes its instance.
BeginCancel(s, i) ==
    /\ instance[i].status # "NONE"
    /\ Begin(s, "CANCEL", NoCall.actor, i, instance[i].line, "locking")
    /\ UNCHANGED <<db, tpl, row, todo, held>>

\* Mutant: the row is read without FOR UPDATE.
LockInstanceUnlocked(s) ==
    LET i == call[s].inst IN
    /\ pc[s] = "locking"
    /\ Pending(i)
    /\ row' = [row EXCEPT ![s] = instance[i]]
    /\ Goto(s, IF call[s].verb \in {"APPROVE", "REJECT"} THEN "checking" ELSE "writing")
    /\ UNCHANGED <<db, tpl, todo, held>>

\* SELECT ... FOR UPDATE waits for the row, then reads its committed state.
LockInstance(s) ==
    LET i == call[s].inst IN
    /\ pc[s] = "locking"
    /\ RowFree(s, i)
    /\ Pending(i)
    /\ row' = [row EXCEPT ![s] = instance[i]]
    /\ held' = [held EXCEPT ![s] = {i}]
    /\ Goto(s, IF call[s].verb \in {"APPROVE", "REJECT"} THEN "checking" ELSE "writing")
    /\ UNCHANGED <<db, tpl, todo>>

\* Mutant: the early return leaves the transaction, and its row lock, open.
LockDecidedLeaky(s) ==
    LET i == call[s].inst IN
    /\ pc[s] = "locking"
    /\ RowFree(s, i)
    /\ ~ Pending(i)
    /\ pc' = [pc EXCEPT ![s] = "idle"]
    /\ call' = [call EXCEPT ![s] = NoCall]
    /\ held' = [held EXCEPT ![s] = {i}]
    /\ answer' = "409"
    /\ UNCHANGED <<db, tpl, row, todo>>

\* A decided instance: 409 LINE_ALREADY_CLEARED, or nothing left to cancel.
LockDecided(s) ==
    LET i == call[s].inst IN
    /\ pc[s] = "locking"
    /\ RowFree(s, i)
    /\ ~ Pending(i)
    /\ End(s, IF call[s].verb = "CANCEL" THEN "200" ELSE "409")
    /\ UNCHANGED db

\* INV-3 (self-approval) and EX-2 (membership), on a pool read of the members.
Allowed(s) ==
    LET members == CurrentLineMembers(call[s].inst) IN
    /\ call[s].actor \in members \cup SuperAdmins
    /\ call[s].verb = "APPROVE" =>
          ~ (call[s].actor \in members /\ call[s].actor = Requester[call[s].inst])

CheckMembers(s) ==
    /\ pc[s] = "checking"
    /\ Allowed(s)
    /\ Goto(s, "writing")
    /\ UNCHANGED <<db, tpl, row, todo, held>>

Forbidden(s) ==
    /\ pc[s] = "checking"
    /\ ~ Allowed(s)
    /\ End(s, "403")
    /\ UNCHANGED db

\* The trail entry and the instance row, written from the session's copy.
Decide(s, status, line) ==
    LET i == call[s].inst IN
    /\ trail' = [trail EXCEPT ![i] =
                   Append(@, [line |-> row[s].line, version |-> row[s].version,
                              actor |-> call[s].actor, action |-> call[s].verb])]
    /\ instance' = [instance EXCEPT ![i].status = status, ![i].line = line]

\* A line is cleared and the next becomes current.  The members to notify are
\* read through the pool, which does not see the advance yet.
Advance(s) ==
    LET i == call[s].inst IN
    /\ pc[s] = "writing"
    /\ call[s].verb = "APPROVE"
    /\ row[s].line < row[s].count
    /\ Decide(s, "PENDING", row[s].line + 1)
    /\ notified' = [notified EXCEPT ![i] = CurrentLineMembers(i)]
    /\ End(s, "200")
    /\ UNCHANGED <<template, effects, active>>

\* The last line is cleared, or the chain bypassed; OnApproved runs in the same
\* transaction (its failure is Rollback).
FinishApproved(s) ==
    LET i == call[s].inst IN
    /\ pc[s] = "writing"
    /\ \/ call[s].verb = "APPROVE" /\ row[s].line >= row[s].count
       \/ call[s].verb = "BYPASS"
    /\ Decide(s, "APPROVED", row[s].line)
    /\ effects' = [effects EXCEPT ![i] = Append(@, "OnApproved")]
    /\ End(s, "200")
    /\ UNCHANGED <<template, notified, active>>

FinishRejected(s) ==
    LET i == call[s].inst IN
    /\ pc[s] = "writing"
    /\ call[s].verb = "REJECT"
    /\ Decide(s, "REJECTED", row[s].line)
    /\ effects' = [effects EXCEPT ![i] = Append(@, "OnRejected")]
    /\ End(s, "200")
    /\ UNCHANGED <<template, notified, active>>

\* Closed without a decision: no trail entry, no hook.
FinishCancelled(s) ==
    LET i == call[s].inst IN
    /\ pc[s] = "writing"
    /\ call[s].verb = "CANCEL"
    /\ instance' = [instance EXCEPT ![i].status = "CANCELLED", ![i].line = row[s].line]
    /\ End(s, "200")
    /\ UNCHANGED <<template, trail, effects, notified, active>>

-----------------------------------------------------------------------------
(* UpsertTemplate and DeleteTemplate.                                      *)

\* The existing template is looked up through the pool.
BeginUpsert(s, lines) ==
    /\ template.version < MaxVersion
    /\ Begin(s, "UPSERT", NoCall.actor, NoCall.inst, 0, "bumping")
    /\ tpl' = [tpl EXCEPT ![s] = [version |-> template.version, lines |-> lines]]
    /\ UNCHANGED <<db, row, todo, held>>

\* The version is bumped in SQL on the locked row, or a first row is inserted.
Bump(s) ==
    /\ pc[s] = "bumping"
    /\ TemplateFree(s)
    /\ tpl[s].version = 0 <=> template.version = 0
    /\ tpl' = [tpl EXCEPT ![s].version = template.version + 1]
    /\ Goto(s, "validating")
    /\ UNCHANGED <<db, row, todo, held>>

\* The template was deleted, or a first one created, since it was looked up: no row
\* to bump, or one too many for UNIQUE (company_id).
BumpFails(s) ==
    /\ pc[s] = "bumping"
    /\ TemplateFree(s)
    /\ ~ (tpl[s].version = 0 <=> template.version = 0)
    /\ End(s, "500")
    /\ UNCHANGED db

\* TM-3 on a pool read: the members it knows are those of the template as committed,
\* not of the lines this transaction has just written.
KnownMembers == UNION {template.lines[k] : k \in DOMAIN template.lines}
MembersValid(lines) ==
    \A k \in DOMAIN lines : lines[k] \subseteq KnownMembers \cap active

\* Valid members; the reset's UPDATE picks the rows it finds pending.
Validate(s) ==
    /\ pc[s] = "validating"
    /\ MembersValid(tpl[s].lines)
    /\ todo' = [todo EXCEPT ![s] = {i \in Instances : Pending(i)}]
    /\ Goto(s, "resetting")
    /\ UNCHANGED <<db, tpl, row, held>>

LineInvalid(s) ==
    /\ pc[s] = "validating"
    /\ ~ MembersValid(tpl[s].lines)
    /\ End(s, "422")
    /\ UNCHANGED db

\* Mutant: the reset does not wait for a decision in progress on the row.
ResetRowUnlocked(s, i) ==
    /\ pc[s] = "resetting"
    /\ i \in todo[s]
    /\ todo' = [todo EXCEPT ![s] = @ \ {i}]
    /\ held' = [held EXCEPT ![s] = @ \cup IF Pending(i) THEN {i} ELSE {}]
    /\ Goto(s, "resetting")
    /\ UNCHANGED <<db, tpl, row>>

\* Mutant: the reset goes by the status it first saw, without a second look.
ResetRowUnchecked(s, i) ==
    /\ pc[s] = "resetting"
    /\ i \in todo[s]
    /\ RowFree(s, i)
    /\ todo' = [todo EXCEPT ![s] = @ \ {i}]
    /\ held' = [held EXCEPT ![s] = @ \cup {i}]
    /\ Goto(s, "resetting")
    /\ UNCHANGED <<db, tpl, row>>

\* One row of the reset's UPDATE: waits for the row lock, looks at the row again
\* and leaves it alone when it is no longer pending.
ResetRow(s, i) ==
    /\ pc[s] = "resetting"
    /\ i \in todo[s]
    /\ RowFree(s, i)
    /\ todo' = [todo EXCEPT ![s] = @ \ {i}]
    /\ held' = [held EXCEPT ![s] = @ \cup IF Pending(i) THEN {i} ELSE {}]
    /\ Goto(s, "resetting")
    /\ UNCHANGED <<db, tpl, row>>

\* Mutant: the reset stamps the new version and leaves the line where it was.
RebasedInPlace(s) ==
    [i \in Instances |-> IF i \in held[s]
                         THEN [instance[i] EXCEPT !.version = tpl[s].version]
                         ELSE instance[i]]

\* The reset sets current_line and template_version, nothing else.
Rebased(s) ==
    [i \in Instances |-> IF i \in held[s]
                         THEN [instance[i] EXCEPT !.line = 1, !.version = tpl[s].version]
                         ELSE instance[i]]

\* The new line 1 of every instance the pool shows pending is notified.
CommitUpsert(s) ==
    /\ pc[s] = "resetting"
    /\ todo[s] = {}
    /\ call[s].verb = "UPSERT"
    /\ template' = tpl[s]
    /\ instance' = Rebased(s)
    /\ notified' = [i \in Instances |-> IF Pending(i) THEN tpl[s].lines[1] ELSE notified[i]]
    /\ End(s, "200")
    /\ UNCHANGED <<trail, effects, active>>

BeginDelete(s) ==
    /\ template.version # 0
    /\ Begin(s, "DELETE", NoCall.actor, NoCall.inst, 0, "deleting")
    /\ UNCHANGED <<db, tpl, row, todo, held>>

\* approval_instances.template_id references the template and has no ON DELETE:
\* an instance of any status that was built from it makes the DELETE fail.
Referenced == \E i \in Instances : instance[i].templated

Delete(s) ==
    /\ pc[s] = "deleting"
    /\ TemplateFree(s)
    /\ ~ Referenced
    /\ todo' = [todo EXCEPT ![s] = {i \in Instances : Pending(i)}]
    /\ Goto(s, "resetting")
    /\ UNCHANGED <<db, tpl, row, held>>

DeleteFails(s) ==
    /\ pc[s] = "deleting"
    /\ TemplateFree(s)
    /\ Referenced
    /\ End(s, "500")
    /\ UNCHANGED db

CommitDelete(s) ==
    /\ pc[s] = "resetting"
    /\ todo[s] = {}
    /\ call[s].verb = "DELETE"
    /\ template' = NoTemplate
    /\ instance' = Rebased(s)
    /\ End(s, "204")
    /\ UNCHANGED <<trail, effects, notified, active>>

-----------------------------------------------------------------------------
(* The environment.                                                        *)

\* A hook, a query or the connection fails, or the process dies: everything the
\* transaction wrote is undone.
Rollback(s) ==
    /\ pc[s] # "idle"
    /\ End(s, "rolled back")
    /\ UNCHANGED db

\* An employment agreement ends, or a new one starts (people service).
EmploymentChange(u) ==
    /\ active' = IF u \in active THEN active \ {u} ELSE active \cup {u}
    /\ answer' = "none"
    /\ UNCHANGED <<template, instance, trail, effects, notified,
                   pc, call, tpl, row, todo, held>>

Serve(s) ==
    \/ \E i \in Instances : BeginSubmit(s, i) \/ BeginCancel(s, i)
    \/ \E u \in Users, i \in Instances, verb \in Decisions : BeginDecision(s, u, i, verb)
    \/ \E lines \in LineLists : BeginUpsert(s, lines)
    \/ BeginDelete(s)

Step(s) ==
    \/ ReadLines(s) \/ Insert(s) \/ InsertFails(s)
    \/ LockInstance(s) \/ LockDecided(s) \/ CheckMembers(s) \/ Forbidden(s)
    \/ Advance(s) \/ FinishApproved(s) \/ FinishRejected(s) \/ FinishCancelled(s)
    \/ Bump(s) \/ BumpFails(s) \/ Validate(s) \/ LineInvalid(s)
    \/ \E i \in Instances : ResetRow(s, i)
    \/ CommitUpsert(s) \/ Delete(s) \/ DeleteFails(s) \/ CommitDelete(s)

Next ==
    \/ \E s \in Sessions : Serve(s) \/ Step(s) \/ Rollback(s)
    \/ \E u \in Leavers : EmploymentChange(u)

\* PostgreSQL grants a row lock in the order of the waiters, so a waiting
\* transaction is not overtaken for ever: strong fairness of a session's steps.
Fairness == \A s \in Sessions : SF_vars(Step(s))

Spec == Init /\ [][Next]_vars /\ Fairness

-----------------------------------------------------------------------------
(* Properties.                                                             *)

Statuses == {"NONE", "PENDING", "APPROVED", "REJECTED", "CANCELLED"}
Labels == {"idle", "reading", "inserting", "locking", "checking", "writing",
           "bumping", "validating", "resetting", "deleting"}
Verbs == Decisions \cup {"NONE", "SUBMIT", "CANCEL", "UPSERT", "DELETE"}
Answers == {"none", "200", "201", "204", "403", "409", "422", "500", "rolled back"}

Templates == [version : Nat, lines : Seq(SUBSET Users)]
Rows == [status : Statuses, line : 0..3, count : 0..3,
         templated : BOOLEAN, version : Nat]
Entries == [line : 1..3, version : Nat, actor : Users, action : Decisions]

\* Every row, copy and label has its type.
TypeOK ==
    /\ template \in Templates
    /\ instance \in [Instances -> Rows]
    /\ trail \in [Instances -> Seq(Entries)]
    /\ effects \in [Instances -> Seq({"OnApproved", "OnRejected"})]
    /\ notified \in [Instances -> SUBSET Users]
    /\ active \subseteq Users
    /\ pc \in [Sessions -> Labels]
    /\ call \in [Sessions -> [verb : Verbs, actor : Users, inst : Instances, line : 0..3]]
    /\ tpl \in [Sessions -> Templates]
    /\ row \in [Sessions -> Rows]
    /\ todo \in [Sessions -> SUBSET Instances]
    /\ held \in [Sessions -> SUBSET Instances]
    /\ answer \in Answers

\* INV-8: the domain hook runs exactly once, with the terminal status it belongs to:
\* two approvers, or an approver and a rejecter, never both fire one.
HookMatchesStatus ==
    \A i \in Instances :
        effects[i] = CASE instance[i].status = "APPROVED" -> <<"OnApproved">>
                       [] instance[i].status = "REJECTED" -> <<"OnRejected">>
                       [] OTHER                           -> <<>>

\* Entry n of i's trail clears line k under the version the instance is on.
Clears(i, n, k) ==
    /\ trail[i][n].action = "APPROVE"
    /\ trail[i][n].line = k
    /\ trail[i][n].version = instance[i].version

ClearedOnce(i, k) ==
    \E n \in DOMAIN trail[i] :
        /\ Clears(i, n, k)
        /\ \A m \in DOMAIN trail[i] : Clears(i, m, k) => m = n

Bypassed(i) == \E n \in DOMAIN trail[i] : trail[i][n].action = "BYPASS"

\* INV-2, INV-6: every line behind the current one was cleared by exactly one
\* approval given under the version now in force (what was cleared before a reset
\* does not count), and an approved chain ran to its last line unless bypassed.
ChainInForce ==
    \A i \in Instances :
        /\ instance[i].status # "NONE" =>
              \A k \in 1..(instance[i].line - 1) : ClearedOnce(i, k)
        /\ instance[i].status = "APPROVED" /\ ~ Bypassed(i) =>
              \A k \in 1..instance[i].count : ClearedOnce(i, k)

\* INV-9: a decision is appended to the trail, never rewrites it, and was taken on
\* the line and version the instance had at that moment, while it was pending.
DecidedOnCurrentRow ==
    [][\A i \in Instances :
          trail'[i] # trail[i] =>
             LET new == trail'[i][Len(trail[i]) + 1] IN
                /\ trail'[i] = Append(trail[i], new)
                /\ Pending(i)
                /\ new.line = instance[i].line
                /\ new.version = instance[i].version]_vars

\* Locked, multi-step transactions on private copies behave like the contract's
\* atomic operations: nothing is decided twice, undecided, or lost.
Contract == INSTANCE ApprovalContract WITH chain <- instance, effect <- effects
ImplementsContract == Contract!Spec

\* Every request is answered: no lock is leaked and nobody waits for ever.
EveryCallAnswered == \A s \in Sessions : pc[s] # "idle" ~> pc[s] = "idle"

-----------------------------------------------------------------------------
(* What the documents say and the code does not do: each is checked by a   *)
(* run that finds it violated.                                             *)

\* Another member has already cleared the line the session's caller saw current.
ClearedByAnother(s) ==
    LET entries == trail[call[s].inst] IN
    \E n \in DOMAIN entries :
        /\ entries[n].action = "APPROVE"
        /\ entries[n].line = call[s].line
        /\ entries[n].version = row[s].version
        /\ entries[n].actor # call[s].actor

\* prds/approval-execution.md C-4 and EX-11: of two members who approve the same line
\* the first advances the chain, the second is told 409 and clears nothing.
SecondApproverRefused ==
    [][\A s \in Sessions :
          pc[s] = "writing" /\ call[s].verb = "APPROVE" /\ pc'[s] = "idle" /\ answer' = "200"
             => ~ ClearedByAnother(s)]_vars

\* FEATURE.md INV-2 and INV-6: a request is approved only when every configured
\* line of the template in force has been satisfied.
EveryConfiguredLineCleared ==
    \A i \in Instances :
        /\ instance[i].status = "APPROVED"
        /\ ~ Bypassed(i)
        /\ instance[i].templated
        /\ instance[i].version = template.version
        => \A k \in DOMAIN template.lines : ClearedOnce(i, k)
=============================================================================
