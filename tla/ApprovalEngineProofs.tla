------------------------ MODULE ApprovalEngineProofs ------------------------
(***************************************************************************)
(* Theorems about ApprovalEngine, for any users, instances, sessions and   *)
(* line configurations.  IInv is the inductive invariant: what holds of    *)
(* the template, of each session, between two sessions, and of each        *)
(* instance with its trail and hooks.                                      *)
(***************************************************************************)
EXTENDS ApprovalEngine, TLAPS

\* A template row exists with two or three nonempty lines, or not at all.
TemplateOK ==
    IF template.version = 0 THEN template.lines = <<>> ELSE ValidLineShape(template.lines)

\* A submission works on an instance that does not exist yet, with a template that
\* is not newer than the one in force; a template once gone never comes back.
SubmitOK(s) ==
    pc[s] \in {"reading", "inserting"} =>
        /\ call[s].verb = "SUBMIT"
        /\ instance[call[s].inst] = NoInstance
        /\ held[s] = {}
        /\ tpl[s].version = 0 => template.version = 0
        /\ template.version # 0 => tpl[s].version <= template.version
        /\ pc[s] = "inserting" /\ template.version # 0 => ValidLineShape(tpl[s].lines)

\* A session past the row lock holds exactly the row it decides on, still pending,
\* and its copy is the committed row.
DecideOK(s) ==
    /\ pc[s] = "locking" =>
          /\ call[s].verb \in Decisions \cup {"CANCEL"}
          /\ held[s] = {}
    /\ pc[s] = "checking" => call[s].verb \in {"APPROVE", "REJECT"}
    /\ pc[s] \in {"checking", "writing"} =>
          /\ call[s].verb \in Decisions \cup {"CANCEL"}
          /\ held[s] = {call[s].inst}
          /\ row[s] = instance[call[s].inst]
          /\ Pending(call[s].inst)

\* A template change past its lock writes the next version, or deletes a template
\* nothing references, and has locked only pending rows.
ChangeOK(s) ==
    /\ pc[s] \in {"bumping", "validating"} =>
          call[s].verb = "UPSERT" /\ held[s] = {} /\ ValidLineShape(tpl[s].lines)
    /\ pc[s] = "deleting" => call[s].verb = "DELETE" /\ held[s] = {} /\ tpl[s] = NoTemplate
    /\ pc[s] = "validating" => tpl[s].version = template.version + 1
    /\ pc[s] = "resetting" =>
          /\ \A i \in held[s] : Pending(i)
          /\ \/ /\ call[s].verb = "UPSERT"
                /\ template.version # 0
                /\ tpl[s].version = template.version + 1
                /\ ValidLineShape(tpl[s].lines)
             \/ /\ call[s].verb = "DELETE"
                /\ ~ Referenced
                /\ tpl[s] = NoTemplate

SessionOK(s) ==
    /\ pc[s] = "idle" => call[s].verb = "NONE" /\ held[s] = {} /\ tpl[s] = NoTemplate
    /\ SubmitOK(s)
    /\ DecideOK(s)
    /\ ChangeOK(s)

\* Two sessions never hold the same row, the template, or submit the same request.
Exclusive ==
    \A s, t \in Sessions : s # t =>
        /\ held[s] \cap held[t] = {}
        /\ ~ (pc[s] \in {"validating", "resetting"} /\ pc[t] \in {"validating", "resetting"})
        /\ ~ (/\ call[s].verb = "SUBMIT" /\ call[t].verb = "SUBMIT"
              /\ call[s].inst = call[t].inst)

\* An instance that does not exist has no history.
AbsentOK(i) ==
    instance[i].status = "NONE" =>
        instance[i] = NoInstance /\ trail[i] = <<>> /\ effects[i] = <<>>

\* The row is within its chain and not newer than the template.
RowOK(i) ==
    instance[i].status # "NONE" =>
        /\ instance[i].line \in 1..3 /\ instance[i].count \in 1..3
        /\ instance[i].line <= instance[i].count
        /\ IF instance[i].templated
           THEN template.version # 0 /\ instance[i].version <= template.version
           ELSE template.version = 0 /\ instance[i].version = 0 /\ instance[i].count = 1

\* No entry is newer than the row; a pending row was only approved so far, and
\* under its version only on the lines behind it.
TrailOK(i) ==
    \A n \in DOMAIN trail[i] :
        /\ trail[i][n].version <= instance[i].version
        /\ Pending(i) => /\ trail[i][n].action = "APPROVE"
                         /\ trail[i][n].version = instance[i].version =>
                               trail[i][n].line < instance[i].line

HookOK(i) ==
    /\ instance[i].status = "APPROVED" => effects[i] = <<"OnApproved">>
    /\ instance[i].status = "REJECTED" => effects[i] = <<"OnRejected">>
    /\ instance[i].status \notin {"APPROVED", "REJECTED"} => effects[i] = <<>>

ChainOK(i) ==
    /\ instance[i].status # "NONE" =>
          \A k \in 1..(instance[i].line - 1) : ClearedOnce(i, k)
    /\ instance[i].status = "APPROVED" /\ ~ Bypassed(i) =>
          \A k \in 1..instance[i].count : ClearedOnce(i, k)

InstanceOK(i) == AbsentOK(i) /\ RowOK(i) /\ TrailOK(i) /\ HookOK(i) /\ ChainOK(i)

IInv ==
    /\ TypeOK
    /\ TemplateOK
    /\ \A s \in Sessions : SessionOK(s)
    /\ Exclusive
    /\ \A i \in Instances : InstanceOK(i)
-----------------------------------------------------------------------------
(* The steps of one session that leave the database rows alone.            *)

\* The defaults of an idle session are calls and rows.
LEMMA Defaults ==
    /\ NoCall \in [verb : Verbs, actor : Users, inst : Instances, line : 0..3]
    /\ NoTemplate \in Templates
    /\ NoInstance \in Rows
    /\ NoCall.verb = "NONE" /\ NoCall.actor \in Users /\ NoCall.inst \in Instances
<1>1. (CHOOSE u \in Users : TRUE) \in Users
  BY EngineAssumption
<1>2. (CHOOSE i \in Instances : TRUE) \in Instances
  BY EngineAssumption
<1>3. NoCall \in [verb : Verbs, actor : Users, inst : Instances, line : 0..3]
  BY <1>1, <1>2 DEF NoCall, Verbs
<1>4. NoTemplate \in Templates
  BY DEF NoTemplate, Templates
<1>5. NoInstance \in Rows
  BY DEF NoInstance, Rows, Statuses
<1>6. NoCall.verb = "NONE" /\ NoCall.actor \in Users /\ NoCall.inst \in Instances
  BY <1>1, <1>2 DEF NoCall
<1> QED
  BY <1>3, <1>4, <1>5, <1>6

\* What a step of s leaves alone of the other sessions.
Others(s) ==
    \A t \in Sessions : t # s =>
        /\ pc'[t] = pc[t] /\ call'[t] = call[t] /\ tpl'[t] = tpl[t]
        /\ row'[t] = row[t] /\ held'[t] = held[t]

\* A session keeps its invariant while nothing it depends on changes.
LEMMA Frame ==
    ASSUME NEW t \in Sessions, SessionOK(t),
           pc'[t] = pc[t], call'[t] = call[t], tpl'[t] = tpl[t],
           row'[t] = row[t], held'[t] = held[t],
           template' = template, instance' = instance
    PROVE  SessionOK(t)'
  BY DEF SessionOK, SubmitOK, DecideOK, ChangeOK, Pending, Referenced

\* A step of s that leaves the rows alone has to restore only what is about s.
LEMMA SessionStep ==
    ASSUME IInv, NEW s \in Sessions, UNCHANGED <<template, instance, trail, effects>>,
           Others(s), TypeOK', SessionOK(s)',
           \A t \in Sessions : t # s =>
              /\ held'[s] \cap held[t] = {}
              /\ ~ (pc'[s] \in {"validating", "resetting"} /\ pc[t] \in {"validating", "resetting"})
              /\ ~ (/\ call'[s].verb = "SUBMIT" /\ call[t].verb = "SUBMIT"
                    /\ call'[s].inst = call[t].inst)
    PROVE  IInv'
<1>1. TemplateOK'
  BY DEF IInv, TemplateOK
<1>2. \A t \in Sessions : SessionOK(t)'
  <2> SUFFICES ASSUME NEW t \in Sessions PROVE SessionOK(t)'
    OBVIOUS
  <2>1. CASE t = s
    BY <2>1
  <2>2. CASE t # s
    BY <2>2, Frame DEF IInv, Others
  <2> QED BY <2>1, <2>2
<1>3. Exclusive'
  <2> SUFFICES ASSUME NEW t \in Sessions, NEW u \in Sessions, t # u
               PROVE  /\ held'[t] \cap held'[u] = {}
                      /\ ~ (/\ pc'[t] \in {"validating", "resetting"}
                            /\ pc'[u] \in {"validating", "resetting"})
                      /\ ~ (/\ call'[t].verb = "SUBMIT" /\ call'[u].verb = "SUBMIT"
                            /\ call'[t].inst = call'[u].inst)
    BY DEF Exclusive
  <2>1. CASE t = s
    BY <2>1 DEF Others
  <2>2. CASE u = s
    BY <2>2 DEF Others
  <2>3. CASE t # s /\ u # s
    BY <2>3 DEF Others, IInv, Exclusive
  <2> QED BY <2>1, <2>2, <2>3
<1>4. \A i \in Instances : InstanceOK(i)'
  BY DEF IInv, InstanceOK, AbsentOK, RowOK, TrailOK, HookOK, ChainOK, ClearedOnce,
         Clears, Bypassed, Pending
<1> QED
  BY <1>1, <1>2, <1>3, <1>4 DEF IInv

\* A transaction's end touches no other session, and leaves its own idle.
LEMMA EndSession ==
    ASSUME TypeOK, NEW s \in Sessions, NEW code \in Answers, End(s, code)
    PROVE  /\ Others(s)
           /\ pc'[s] = "idle" /\ call'[s] = NoCall /\ held'[s] = {} /\ tpl'[s] = NoTemplate
           /\ pc' \in [Sessions -> Labels]
           /\ call' \in [Sessions -> [verb : Verbs, actor : Users, inst : Instances, line : 0..3]]
           /\ tpl' \in [Sessions -> Templates]
           /\ row' \in [Sessions -> Rows]
           /\ todo' \in [Sessions -> SUBSET Instances]
           /\ held' \in [Sessions -> SUBSET Instances]
           /\ answer' \in Answers
           /\ SessionOK(s)'
<1>1. /\ Others(s)
      /\ pc'[s] = "idle" /\ call'[s] = NoCall /\ held'[s] = {} /\ tpl'[s] = NoTemplate
  BY DEF End, TypeOK, Others
<1>2. /\ pc' \in [Sessions -> Labels]
      /\ call' \in [Sessions -> [verb : Verbs, actor : Users, inst : Instances, line : 0..3]]
      /\ tpl' \in [Sessions -> Templates]
      /\ row' \in [Sessions -> Rows]
      /\ todo' \in [Sessions -> SUBSET Instances]
      /\ held' \in [Sessions -> SUBSET Instances]
      /\ answer' \in Answers
  BY Defaults DEF End, TypeOK, Labels
<1>3. SessionOK(s)'
  BY <1>1 DEF SessionOK, SubmitOK, DecideOK, ChangeOK, NoCall
<1> QED
  BY <1>1, <1>2, <1>3

\* A transaction that ends without having changed a row keeps the invariant.
LEMMA EndStep ==
    ASSUME IInv, NEW s \in Sessions, NEW code \in Answers, End(s, code), UNCHANGED db
    PROVE  IInv'
<1>1. TypeOK
  BY DEF IInv
<1>2. TypeOK'
  BY <1>1, EndSession DEF TypeOK, db
<1>3. call'[s].verb = "NONE"
  BY <1>1, EndSession, Defaults
<1>4. UNCHANGED <<template, instance, trail, effects>>
  BY DEF db
<1> QED
  BY <1>1, <1>2, <1>3, <1>4, EndSession, SessionStep
-----------------------------------------------------------------------------
(* A request begins.                                                       *)

\* The verbs and labels a request begins with are verbs and labels.
LEMMA Names ==
    /\ "SUBMIT" \in Verbs /\ "CANCEL" \in Verbs /\ "UPSERT" \in Verbs /\ "DELETE" \in Verbs
    /\ Decisions \subseteq Verbs
    /\ "reading" \in Labels /\ "locking" \in Labels /\ "bumping" \in Labels
    /\ "deleting" \in Labels
    /\ 0 \in 0..3
  BY DEF Verbs, Labels

\* A submission starts on an instance that nobody submits, with the template in force.
LEMMA BeginSubmitStep ==
    ASSUME IInv, NEW s \in Sessions, NEW i \in Instances, BeginSubmit(s, i)
    PROVE  IInv'
<1> DEFINE t0 == [version |-> template.version, lines |-> <<>>]
<1>1. TypeOK /\ instance[i] = NoInstance /\ t0 \in Templates /\ Requester[i] \in Users
  BY EngineAssumption DEF IInv, InstanceOK, AbsentOK, BeginSubmit, TypeOK, Templates
<1>2. Begin(s, "SUBMIT", Requester[i], i, 0, "reading") /\ tpl' = [tpl EXCEPT ![s] = t0]
  BY DEF BeginSubmit
<1> HIDE DEF t0
<1>3. /\ pc'[s] = "reading" /\ held[s] = {} /\ tpl[s] = NoTemplate
      /\ call'[s] = [verb |-> "SUBMIT", actor |-> Requester[i], inst |-> i, line |-> 0]
      /\ \A t \in Sessions : t # s => pc'[t] = pc[t] /\ call'[t] = call[t]
      /\ pc' \in [Sessions -> Labels] /\ answer' \in Answers
      /\ call' \in [Sessions -> [verb : Verbs, actor : Users, inst : Instances, line : 0..3]]
  BY <1>1, <1>2, Defaults, Names DEF Begin, TypeOK, IInv, SessionOK, Answers
<1>4. call'[s].verb = "SUBMIT" /\ call'[s].inst = i
  BY <1>3
<1>5. UNCHANGED <<template, instance, trail, effects, notified, active, row, todo, held>>
  BY DEF BeginSubmit, db
<1>6. TypeOK' /\ Others(s) /\ tpl'[s] = t0
  BY <1>1, <1>2, <1>3, <1>4, <1>5 DEF TypeOK, Others
<1>7. SessionOK(s)'
  BY <1>1, <1>3, <1>4, <1>5, <1>6 DEF SessionOK, SubmitOK, DecideOK, ChangeOK, t0, TypeOK, Templates
<1> QED
  BY <1>3, <1>4, <1>5, <1>6, <1>7, SessionStep DEF BeginSubmit

\* A decision starts without a lock, on an instance it will look at again.
LEMMA BeginDecisionStep ==
    ASSUME IInv, NEW s \in Sessions, NEW u \in Users, NEW i \in Instances, NEW verb \in Decisions,
           BeginDecision(s, u, i, verb)
    PROVE  IInv'
<1>1. TypeOK /\ instance[i].line \in 0..3
  BY DEF IInv, TypeOK, Rows
<1>2. Begin(s, verb, u, i, instance[i].line, "locking")
  BY DEF BeginDecision
<1>3. /\ pc'[s] = "locking" /\ held[s] = {} /\ tpl[s] = NoTemplate
      /\ call'[s] = [verb |-> verb, actor |-> u, inst |-> i, line |-> instance[i].line]
      /\ \A t \in Sessions : t # s => pc'[t] = pc[t] /\ call'[t] = call[t]
      /\ pc' \in [Sessions -> Labels] /\ answer' \in Answers
      /\ call' \in [Sessions -> [verb : Verbs, actor : Users, inst : Instances, line : 0..3]]
  BY <1>1, <1>2, Defaults, Names DEF Begin, TypeOK, IInv, SessionOK, Answers
<1>4. call'[s].verb \in Decisions
  BY <1>3
<1>5. UNCHANGED <<template, instance, trail, effects, notified, active, row, todo, held>>
  BY DEF BeginDecision, db
<1>6. TypeOK' /\ Others(s)
  BY <1>1, <1>3, <1>4, <1>5 DEF TypeOK, Others, BeginDecision
<1>7. SessionOK(s)'
  BY <1>1, <1>3, <1>4, <1>5 DEF SessionOK, SubmitOK, DecideOK, ChangeOK, BeginDecision, Decisions
<1> QED
  BY <1>3, <1>4, <1>5, <1>6, <1>7, SessionStep DEF Decisions

\* So does a cancellation.
LEMMA BeginCancelStep ==
    ASSUME IInv, NEW s \in Sessions, NEW i \in Instances, BeginCancel(s, i)
    PROVE  IInv'
<1>1. TypeOK /\ instance[i].line \in 0..3
  BY DEF IInv, TypeOK, Rows
<1>2. Begin(s, "CANCEL", NoCall.actor, i, instance[i].line, "locking")
  BY DEF BeginCancel
<1>3. /\ pc'[s] = "locking" /\ held[s] = {} /\ tpl[s] = NoTemplate
      /\ call'[s] = [verb |-> "CANCEL", actor |-> NoCall.actor, inst |-> i, line |-> instance[i].line]
      /\ \A t \in Sessions : t # s => pc'[t] = pc[t] /\ call'[t] = call[t]
      /\ pc' \in [Sessions -> Labels] /\ answer' \in Answers
      /\ call' \in [Sessions -> [verb : Verbs, actor : Users, inst : Instances, line : 0..3]]
  BY <1>1, <1>2, Defaults, Names DEF Begin, TypeOK, IInv, SessionOK, Answers
<1>4. call'[s].verb = "CANCEL"
  BY <1>3
<1>5. UNCHANGED <<template, instance, trail, effects, notified, active, row, todo, held>>
  BY DEF BeginCancel, db
<1>6. TypeOK' /\ Others(s)
  BY <1>1, <1>3, <1>4, <1>5 DEF TypeOK, Others, BeginCancel
<1>7. SessionOK(s)'
  BY <1>1, <1>3, <1>4, <1>5 DEF SessionOK, SubmitOK, DecideOK, ChangeOK, BeginCancel, Decisions
<1> QED
  BY <1>3, <1>4, <1>5, <1>6, <1>7, SessionStep DEF Decisions

\* A template change starts without a lock, with lines of a valid shape.
LEMMA BeginUpsertStep ==
    ASSUME IInv, NEW s \in Sessions, NEW lines \in LineLists, BeginUpsert(s, lines)
    PROVE  IInv'
<1>1. /\ TypeOK /\ ValidLineShape(lines)
      /\ [version |-> template.version, lines |-> lines] \in Templates
  BY EngineAssumption DEF IInv, TypeOK, Templates, ValidLineShape
<1>2. Begin(s, "UPSERT", NoCall.actor, NoCall.inst, 0, "bumping")
  BY DEF BeginUpsert
<1>3. /\ pc'[s] = "bumping" /\ held[s] = {} /\ tpl[s] = NoTemplate
      /\ call'[s] = [verb |-> "UPSERT", actor |-> NoCall.actor, inst |-> NoCall.inst, line |-> 0]
      /\ \A t \in Sessions : t # s => pc'[t] = pc[t] /\ call'[t] = call[t]
      /\ pc' \in [Sessions -> Labels] /\ answer' \in Answers
      /\ call' \in [Sessions -> [verb : Verbs, actor : Users, inst : Instances, line : 0..3]]
  BY <1>1, <1>2, Defaults, Names DEF Begin, TypeOK, IInv, SessionOK, Answers
<1>4. call'[s].verb = "UPSERT"
  BY <1>3
<1>5. UNCHANGED <<template, instance, trail, effects, notified, active, row, todo, held>>
  BY DEF BeginUpsert, db
<1>6. TypeOK' /\ Others(s)
  BY <1>1, <1>3, <1>4, <1>5 DEF TypeOK, Others, BeginUpsert
<1>7. ValidLineShape(tpl'[s].lines)
  BY <1>1 DEF BeginUpsert, TypeOK
<1>8. SessionOK(s)'
  BY <1>3, <1>4, <1>5, <1>7 DEF SessionOK, SubmitOK, DecideOK, ChangeOK
<1> QED
  BY <1>3, <1>4, <1>5, <1>6, <1>8, SessionStep DEF Decisions

\* A deletion starts without a lock and writes no template.
LEMMA BeginDeleteStep ==
    ASSUME IInv, NEW s \in Sessions, BeginDelete(s)
    PROVE  IInv'
<1>1. TypeOK
  BY DEF IInv
<1>2. Begin(s, "DELETE", NoCall.actor, NoCall.inst, 0, "deleting")
  BY DEF BeginDelete
<1>3. /\ pc'[s] = "deleting" /\ held[s] = {} /\ tpl[s] = NoTemplate
      /\ call'[s] = [verb |-> "DELETE", actor |-> NoCall.actor, inst |-> NoCall.inst, line |-> 0]
      /\ \A t \in Sessions : t # s => pc'[t] = pc[t] /\ call'[t] = call[t]
      /\ pc' \in [Sessions -> Labels] /\ answer' \in Answers
      /\ call' \in [Sessions -> [verb : Verbs, actor : Users, inst : Instances, line : 0..3]]
  BY <1>1, <1>2, Defaults, Names DEF Begin, TypeOK, IInv, SessionOK, Answers
<1>4. call'[s].verb = "DELETE"
  BY <1>3
<1>5. UNCHANGED <<template, instance, trail, effects, notified, active, row, todo, held>>
  BY DEF BeginDelete, db
<1>6. TypeOK' /\ Others(s)
  BY <1>1, <1>3, <1>4, <1>5 DEF TypeOK, Others, BeginDelete
<1>7. SessionOK(s)'
  BY <1>1, <1>3, <1>4, <1>5 DEF SessionOK, SubmitOK, DecideOK, ChangeOK, BeginDelete, Decisions
<1> QED
  BY <1>3, <1>4, <1>5, <1>6, <1>7, SessionStep DEF Decisions
-----------------------------------------------------------------------------
(* A transaction goes on without writing a row others can see.             *)

\* A template of which one part is replaced is a template.
LEMMA TemplateUpdates ==
    ASSUME NEW t \in Templates, NEW v \in Nat, NEW l \in Seq(SUBSET Users)
    PROVE  [t EXCEPT !.version = v] \in Templates /\ [t EXCEPT !.lines = l] \in Templates
  BY DEF Templates

\* The lines a submission reads are those of the template in force, if there is one.
LEMMA ReadLinesStep ==
    ASSUME IInv, NEW s \in Sessions, ReadLines(s)
    PROVE  IInv'
<1>1. TypeOK /\ SessionOK(s) /\ TemplateOK /\ Exclusive
  BY DEF IInv
<1>2. UNCHANGED <<template, instance, trail, effects, notified, active, call>>
  BY DEF ReadLines, Goto, db
<1>3. /\ tpl' \in [Sessions -> Templates]
      /\ \A t \in Sessions : t # s => tpl'[t] = tpl[t]
  <2>1. tpl[s] \in Templates /\ <<>> \in Seq(SUBSET Users) /\ template.lines \in Seq(SUBSET Users)
    BY <1>1 DEF TypeOK, Templates
  <2>2. [tpl[s] EXCEPT !.lines = IF tpl[s].version = 0 THEN <<>> ELSE template.lines] \in Templates
    BY <2>1, TemplateUpdates DEF Templates
  <2> QED
    BY <1>1, <2>2 DEF ReadLines, TypeOK
<1>4. TypeOK' /\ Others(s)
  BY <1>1, <1>2, <1>3 DEF ReadLines, Goto, TypeOK, Others, Labels, Answers, Templates, db
<1>5. SessionOK(s)'
  BY <1>1, <1>2 DEF ReadLines, Goto, SessionOK, SubmitOK, DecideOK, ChangeOK, Pending, TypeOK, TemplateOK, db
<1> QED
  BY <1>1, <1>2, <1>4, <1>5, SessionStep DEF ReadLines, Goto, TypeOK, Exclusive

\* The check of the members changes nothing but where the session stands.
LEMMA CheckMembersStep ==
    ASSUME IInv, NEW s \in Sessions, CheckMembers(s)
    PROVE  IInv'
<1>1. TypeOK /\ SessionOK(s) /\ TemplateOK /\ Exclusive
  BY DEF IInv
<1>2. UNCHANGED <<template, instance, trail, effects, notified, active, call>>
  BY DEF CheckMembers, Goto, db
<1>4. TypeOK' /\ Others(s)
  BY <1>1, <1>2 DEF CheckMembers, Goto, TypeOK, Others, Labels, Answers, db
<1>5. SessionOK(s)'
  BY <1>1, <1>2 DEF CheckMembers, Goto, SessionOK, SubmitOK, DecideOK, ChangeOK, Pending, TypeOK, db
<1> QED
  BY <1>1, <1>2, <1>4, <1>5, SessionStep DEF CheckMembers, Goto, TypeOK, Exclusive

\* The row that is locked is pending, nobody else's, and the copy is the row.
LEMMA LockInstanceStep ==
    ASSUME IInv, NEW s \in Sessions, LockInstance(s)
    PROVE  IInv'
<1>1. TypeOK /\ SessionOK(s) /\ TemplateOK /\ Exclusive
  BY DEF IInv
<1>2. UNCHANGED <<template, instance, trail, effects, notified, active, call>>
  BY DEF LockInstance, Goto, db
<1>3. \A t \in Sessions : t # s => held'[s] \cap held[t] = {}
  BY <1>1 DEF LockInstance, RowFree, TypeOK
<1>4. TypeOK' /\ Others(s)
  BY <1>1, <1>2 DEF LockInstance, Goto, TypeOK, Others, Labels, Answers, db, Rows
<1>5. SessionOK(s)'
  BY <1>1, <1>2 DEF LockInstance, Goto, SessionOK, SubmitOK, DecideOK, ChangeOK, Pending, TypeOK, db
<1> QED
  BY <1>1, <1>2, <1>3, <1>4, <1>5, SessionStep DEF LockInstance, Goto, TypeOK, Exclusive

\* The bumped version is one above the template's, and nobody else is bumping.
LEMMA BumpStep ==
    ASSUME IInv, NEW s \in Sessions, Bump(s)
    PROVE  IInv'
<1>1. TypeOK /\ SessionOK(s) /\ TemplateOK /\ Exclusive
  BY DEF IInv
<1>2. UNCHANGED <<template, instance, trail, effects, notified, active, call>>
  BY DEF Bump, Goto, db
<1>3. /\ tpl' \in [Sessions -> Templates]
      /\ \A t \in Sessions : t # s => tpl'[t] = tpl[t]
  <2>1. tpl[s] \in Templates /\ template.version + 1 \in Nat /\ <<>> \in Seq(SUBSET Users)
    BY <1>1 DEF TypeOK, Templates
  <2>2. [tpl[s] EXCEPT !.version = template.version + 1] \in Templates
    BY <2>1 DEF Templates
  <2> QED
    BY <1>1, <2>2 DEF Bump, TypeOK
<1>4. TypeOK' /\ Others(s)
  BY <1>1, <1>2, <1>3 DEF Bump, Goto, TypeOK, Others, Labels, Answers, Templates, db
<1>5. SessionOK(s)'
  BY <1>1, <1>2 DEF Bump, Goto, SessionOK, SubmitOK, DecideOK, ChangeOK, Pending, TypeOK, db, Templates
<1> QED
  BY <1>1, <1>2, <1>4, <1>5, SessionStep DEF Bump, Goto, TypeOK, Exclusive, TemplateFree

\* Validation keeps the template locked and locks no instance yet.
LEMMA ValidateStep ==
    ASSUME IInv, NEW s \in Sessions, Validate(s)
    PROVE  IInv'
<1>1. TypeOK /\ SessionOK(s) /\ TemplateOK /\ Exclusive
  BY DEF IInv
<1>2. UNCHANGED <<template, instance, trail, effects, notified, active, call>>
  BY DEF Validate, Goto, db
<1>3. template.version # 0
  <2>1. ValidLineShape(tpl[s].lines) /\ MembersValid(tpl[s].lines)
    BY <1>1 DEF Validate, SessionOK, ChangeOK
  <2>2. PICK u \in tpl[s].lines[1] : u \in KnownMembers
    BY <2>1 DEF ValidLineShape, MembersValid
  <2>3. PICK k \in DOMAIN template.lines : u \in template.lines[k]
    BY <2>2 DEF KnownMembers
  <2> QED
    BY <1>1, <2>3 DEF TemplateOK
<1>4. TypeOK' /\ Others(s)
  BY <1>1, <1>2, <1>3 DEF Validate, Goto, TypeOK, Others, Labels, Answers, db
<1>5. SessionOK(s)'
  BY <1>1, <1>2, <1>3 DEF Validate, Goto, SessionOK, SubmitOK, DecideOK, ChangeOK, Pending, TypeOK, db
<1> QED
  BY <1>1, <1>2, <1>3, <1>4, <1>5, SessionStep DEF Validate, Goto, TypeOK, Exclusive

\* The reset locks a row only when it is free and still pending.
LEMMA ResetRowStep ==
    ASSUME IInv, NEW s \in Sessions, NEW i \in Instances, ResetRow(s, i)
    PROVE  IInv'
<1>1. TypeOK /\ SessionOK(s) /\ TemplateOK /\ Exclusive
  BY DEF IInv
<1>2. UNCHANGED <<template, instance, trail, effects, notified, active, call>>
  BY DEF ResetRow, Goto, db
<1>3. \A t \in Sessions : t # s => held'[s] \cap held[t] = {}
  <2>1. held'[s] \subseteq held[s] \cup {i}
    BY <1>1 DEF ResetRow, TypeOK
  <2> QED
    BY <1>1, <2>1 DEF ResetRow, RowFree, Exclusive
<1>4. TypeOK' /\ Others(s)
  BY <1>1, <1>2 DEF ResetRow, Goto, TypeOK, Others, Labels, Answers, db
<1>5. SessionOK(s)'
  BY <1>1, <1>2 DEF ResetRow, Goto, SessionOK, SubmitOK, DecideOK, ChangeOK, Pending, TypeOK, db, Referenced
<1> QED
  BY <1>1, <1>2, <1>3, <1>4, <1>5, SessionStep DEF ResetRow, Goto, TypeOK, Exclusive

\* A deletion past its check locks a template that nothing references.
LEMMA DeleteStep ==
    ASSUME IInv, NEW s \in Sessions, Delete(s)
    PROVE  IInv'
<1>1. TypeOK /\ SessionOK(s) /\ TemplateOK /\ Exclusive
  BY DEF IInv
<1>2. UNCHANGED <<template, instance, trail, effects, notified, active, call>>
  BY DEF Delete, Goto, db
<1>4. TypeOK' /\ Others(s)
  BY <1>1, <1>2 DEF Delete, Goto, TypeOK, Others, Labels, Answers, db
<1>5. SessionOK(s)'
  BY <1>1, <1>2 DEF Delete, Goto, SessionOK, SubmitOK, DecideOK, ChangeOK, Pending, TypeOK, db, Referenced
<1> QED
  BY <1>1, <1>2, <1>4, <1>5, SessionStep DEF Delete, Goto, TypeOK, Exclusive, TemplateFree

\* Employments are nobody's row.
LEMMA EmploymentStep ==
    ASSUME IInv, NEW u \in Leavers, EmploymentChange(u)
    PROVE  IInv'
<1>1. UNCHANGED <<template, instance, trail, effects, notified, pc, call, tpl, row, todo, held>>
  BY DEF EmploymentChange
<1>2. TypeOK'
  BY <1>1, EngineAssumption DEF IInv, EmploymentChange, TypeOK, Answers
<1>3. \A s \in Sessions : SessionOK(s)'
  BY <1>1, Frame DEF IInv
<1>4. TemplateOK' /\ Exclusive'
  BY <1>1 DEF IInv, TemplateOK, Exclusive
<1>5. \A i \in Instances : InstanceOK(i)'
  BY <1>1 DEF IInv, InstanceOK, AbsentOK, RowOK, TrailOK, HookOK, ChainOK, ClearedOnce,
              Clears, Bypassed, Pending
<1> QED
  BY <1>2, <1>3, <1>4, <1>5 DEF IInv

-----------------------------------------------------------------------------
(* A transaction commits.                                                  *)

\* An instance keeps its invariant while its row, its history and the template stay.
LEMMA InstanceFrame ==
    ASSUME NEW j \in Instances, InstanceOK(j), template' = template,
           instance'[j] = instance[j], trail'[j] = trail[j], effects'[j] = effects[j]
    PROVE  InstanceOK(j)'
  BY DEF InstanceOK, AbsentOK, RowOK, TrailOK, HookOK, ChainOK, ClearedOnce, Clears,
         Bypassed, Pending

\* The other sessions do not notice a change of the pending rows s has locked.
LEMMA OthersKept ==
    ASSUME IInv, NEW s \in Sessions, Others(s), template' = template,
           \A j \in held[s] : Pending(j),
           \A j \in Instances : /\ instance'[j].templated = instance[j].templated
                                /\ j \notin held[s] => instance'[j] = instance[j]
    PROVE  \A t \in Sessions : t # s => SessionOK(t)'
<1> SUFFICES ASSUME NEW t \in Sessions, t # s PROVE SessionOK(t)'
  OBVIOUS
<1>1. /\ pc'[t] = pc[t] /\ call'[t] = call[t] /\ tpl'[t] = tpl[t]
      /\ row'[t] = row[t] /\ held'[t] = held[t]
  BY DEF Others
<1>2. SessionOK(t) /\ held[s] \cap held[t] = {} /\ held[t] \subseteq Instances
      /\ call[t].inst \in Instances
  BY DEF IInv, Exclusive, TypeOK
<1>3. SubmitOK(t)'
  <2>1. CASE pc[t] \in {"reading", "inserting"}
    <3>1. instance[call[t].inst] = NoInstance
      BY <1>2, <2>1 DEF SessionOK, SubmitOK
    <3>2. call[t].inst \notin held[s]
      BY <3>1 DEF Pending, NoInstance
    <3> QED
      BY <1>1, <1>2, <3>2 DEF SessionOK, SubmitOK
  <2>2. CASE pc[t] \notin {"reading", "inserting"}
    BY <1>1, <2>2 DEF SubmitOK
  <2> QED BY <2>1, <2>2
<1>4. DecideOK(t)'
  BY <1>1, <1>2 DEF SessionOK, DecideOK, Pending
<1>5. ChangeOK(t)'
  BY <1>1, <1>2 DEF SessionOK, ChangeOK, Pending, Referenced
<1> QED
  BY <1>1, <1>2, <1>3, <1>4, <1>5 DEF SessionOK

\* A commit has to restore what is about the rows and the other sessions.
LEMMA CommitStep ==
    ASSUME IInv, NEW s \in Sessions, NEW code \in Answers, End(s, code),
           template' \in Templates, instance' \in [Instances -> Rows],
           trail' \in [Instances -> Seq(Entries)],
           effects' \in [Instances -> Seq({"OnApproved", "OnRejected"})],
           notified' \in [Instances -> SUBSET Users], active' = active,
           TemplateOK',
           \A t \in Sessions : t # s => SessionOK(t)',
           \A i \in Instances : InstanceOK(i)'
    PROVE  IInv'
<1>1. TypeOK /\ Exclusive
  BY DEF IInv
<1>2. TypeOK' /\ SessionOK(s)' /\ Others(s) /\ pc'[s] = "idle" /\ held'[s] = {}
      /\ call'[s].verb = "NONE"
  BY <1>1, EndSession, Defaults DEF TypeOK
<1>3. Exclusive'
  <2> SUFFICES ASSUME NEW t \in Sessions, NEW u \in Sessions, t # u
               PROVE  /\ held'[t] \cap held'[u] = {}
                      /\ ~ (/\ pc'[t] \in {"validating", "resetting"}
                            /\ pc'[u] \in {"validating", "resetting"})
                      /\ ~ (/\ call'[t].verb = "SUBMIT" /\ call'[u].verb = "SUBMIT"
                            /\ call'[t].inst = call'[u].inst)
    BY DEF Exclusive
  <2>1. CASE t = s \/ u = s
    BY <1>2, <2>1
  <2>2. CASE t # s /\ u # s
    <3>1. /\ pc'[t] = pc[t] /\ call'[t] = call[t] /\ held'[t] = held[t]
          /\ pc'[u] = pc[u] /\ call'[u] = call[u] /\ held'[u] = held[u]
      BY <1>2, <2>2 DEF Others
    <3> QED
      BY <1>1, <3>1 DEF Exclusive
  <2> QED BY <2>1, <2>2
<1> QED
  BY <1>2, <1>3 DEF IInv

\* A cleared line stays cleared when an entry about another line, or of another kind,
\* is appended.
LEMMA ClearedKept ==
    ASSUME NEW i \in Instances, NEW k \in Int, NEW e \in Entries,
           trail[i] \in Seq(Entries), trail'[i] = Append(trail[i], e),
           instance'[i].version = instance[i].version,
           e.action # "APPROVE" \/ e.line # k,
           ClearedOnce(i, k)
    PROVE  ClearedOnce(i, k)'
<1>1. PICK n \in DOMAIN trail[i] :
         Clears(i, n, k) /\ \A m \in DOMAIN trail[i] : Clears(i, m, k) => m = n
  BY DEF ClearedOnce
<1>2. /\ DOMAIN trail[i] \subseteq DOMAIN trail'[i]
      /\ \A m \in DOMAIN trail[i] : trail'[i][m] = trail[i][m]
      /\ \A m \in DOMAIN trail'[i] : m \in DOMAIN trail[i] \/ trail'[i][m] = e
  OBVIOUS
<1>3. \A m \in DOMAIN trail[i] : Clears(i, m, k)' <=> Clears(i, m, k)
  BY <1>2 DEF Clears
<1>4. \A m \in DOMAIN trail'[i] : Clears(i, m, k)' => m \in DOMAIN trail[i]
  BY <1>2 DEF Clears
<1> QED
  BY <1>1, <1>2, <1>3, <1>4 DEF ClearedOnce

\* A line no entry has cleared under the version in force is cleared by the entry
\* that is appended now, and by it alone.
LEMMA ClearedNow ==
    ASSUME NEW i \in Instances, NEW k \in Int, NEW e \in Entries,
           trail[i] \in Seq(Entries), trail'[i] = Append(trail[i], e),
           instance'[i].version = instance[i].version,
           e.action = "APPROVE", e.line = k, e.version = instance[i].version,
           \A n \in DOMAIN trail[i] : ~ Clears(i, n, k)
    PROVE  ClearedOnce(i, k)'
<1>1. PICK p \in Nat : p = Len(trail[i]) + 1
  OBVIOUS
<1>2. /\ p \in DOMAIN trail'[i] /\ trail'[i][p] = e
      /\ \A m \in DOMAIN trail'[i] :
            (m \in DOMAIN trail[i] /\ trail'[i][m] = trail[i][m]) \/ m = p
  BY <1>1
<1>3. \A m \in DOMAIN trail'[i] : Clears(i, m, k)' => m = p
  BY <1>2 DEF Clears
<1>4. Clears(i, p, k)'
  BY <1>2 DEF Clears
<1> QED
  BY <1>2, <1>3, <1>4 DEF ClearedOnce

\* The entry a decision appends.
NewEntry(s) == [line |-> instance[call[s].inst].line, version |-> instance[call[s].inst].version,
                actor |-> call[s].actor, action |-> call[s].verb]

\* The row i = call[s].inst and its trail before and after a decision of s.
Decided(s, i, status, line) ==
    /\ i \in Instances /\ held[s] = {i} /\ Pending(i) /\ row[s] = instance[i]
    /\ NewEntry(s) \in Entries
    /\ instance' \in [Instances -> Rows] /\ trail' \in [Instances -> Seq(Entries)]
    /\ instance'[i].status = status /\ instance'[i].line = line
    /\ instance'[i].count = instance[i].count
    /\ instance'[i].templated = instance[i].templated
    /\ instance'[i].version = instance[i].version
    /\ trail'[i] = Append(trail[i], NewEntry(s))
    /\ \A j \in Instances : j # i => instance'[j] = instance[j] /\ trail'[j] = trail[j]

\* What a decision writes: one entry, taken from the row as committed, and the row.
LEMMA DecideRows ==
    ASSUME IInv, NEW s \in Sessions, pc[s] = "writing", call[s].verb \in Decisions,
           NEW status \in Statuses, NEW line \in 0..3, Decide(s, status, line)
    PROVE  Decided(s, call[s].inst, status, line)
<1> DEFINE i == call[s].inst
<1>1. /\ TypeOK /\ i \in Instances /\ held[s] = {i} /\ Pending(i) /\ row[s] = instance[i]
      /\ instance[i] \in Rows /\ trail[i] \in Seq(Entries) /\ call[s].actor \in Users
  BY DEF IInv, SessionOK, DecideOK, TypeOK
<1>2. NewEntry(s) \in Entries
  <2>1. instance[i].line \in 1..3 /\ instance[i].version \in Nat
    BY <1>1 DEF IInv, InstanceOK, RowOK, Pending, Rows
  <2> QED
    BY <1>1, <2>1 DEF Entries, NewEntry
<1>3. trail' = [trail EXCEPT ![i] = Append(trail[i], NewEntry(s))]
  BY <1>1 DEF Decide, NewEntry
<1>4. instance' = [instance EXCEPT ![i].status = status, ![i].line = line]
  BY DEF Decide
<1> HIDE DEF i
<1>5. /\ trail' \in [Instances -> Seq(Entries)] /\ trail'[i] = Append(trail[i], NewEntry(s))
      /\ \A j \in Instances : j # i => trail'[j] = trail[j]
  BY <1>1, <1>2, <1>3 DEF TypeOK
<1>6. /\ instance' \in [Instances -> Rows]
      /\ instance'[i].status = status /\ instance'[i].line = line
      /\ instance'[i].count = instance[i].count
      /\ instance'[i].templated = instance[i].templated
      /\ instance'[i].version = instance[i].version
      /\ \A j \in Instances : j # i => instance'[j] = instance[j]
  BY <1>1, <1>4 DEF TypeOK, Rows
<1> QED
  BY <1>1, <1>2, <1>5, <1>6 DEF Decided, i

\* What is common to the three ways a decision commits: only i's invariant is left.
LEMMA DecideStep ==
    ASSUME IInv, NEW s \in Sessions, pc[s] = "writing", call[s].verb \in Decisions,
           NEW status \in Statuses, NEW line \in 0..3, Decide(s, status, line),
           NEW code \in Answers, End(s, code),
           NEW i, i = call[s].inst,
           template' = template, active' = active,
           effects' \in [Instances -> Seq({"OnApproved", "OnRejected"})],
           notified' \in [Instances -> SUBSET Users],
           \A j \in Instances : j # i => effects'[j] = effects[j],
           InstanceOK(i)'
    PROVE  IInv'
<1>1. TypeOK /\ TemplateOK /\ \A j \in Instances : InstanceOK(j)
  BY DEF IInv
<1>2. Decided(s, i, status, line)
  BY DecideRows
<1>3. /\ i \in Instances /\ held[s] = {i} /\ Pending(i)
      /\ instance' \in [Instances -> Rows] /\ trail' \in [Instances -> Seq(Entries)]
      /\ instance'[i].templated = instance[i].templated
      /\ \A j \in Instances : j # i => instance'[j] = instance[j] /\ trail'[j] = trail[j]
  BY <1>2 DEF Decided
<1>4. Others(s)
  BY <1>1, EndSession
<1>5. \A t \in Sessions : t # s => SessionOK(t)'
  BY <1>3, <1>4, OthersKept
<1>6. \A j \in Instances : InstanceOK(j)'
  BY <1>1, <1>3, InstanceFrame
<1>7. template' \in Templates /\ TemplateOK'
  BY <1>1 DEF TypeOK, TemplateOK
<1> QED
  BY <1>3, <1>5, <1>6, <1>7, CommitStep

\* An advance clears the current line once and makes the next one current.
LEMMA AdvanceStep ==
    ASSUME IInv, NEW s \in Sessions, Advance(s)
    PROVE  IInv'
<1>1. PICK i \in Instances : i = call[s].inst
  BY DEF IInv, TypeOK
<1>2. PICK e : e = NewEntry(s)
  OBVIOUS
<1>3. /\ TypeOK /\ pc[s] = "writing" /\ call[s].verb = "APPROVE" /\ call[s].verb \in Decisions
      /\ row[s] = instance[i] /\ i \in Instances /\ Pending(i)
      /\ instance[i].line < instance[i].count /\ instance[i] \in Rows /\ InstanceOK(i)
  BY <1>1 DEF Advance, IInv, SessionOK, DecideOK, TypeOK, Decisions
<1>4. Decide(s, "PENDING", instance[i].line + 1) /\ End(s, "200")
  BY <1>3, <1>1 DEF Advance
<1>5. /\ instance[i].line + 1 \in 0..3 /\ "PENDING" \in Statuses /\ "200" \in Answers
      /\ instance[i].line \in 1..3 /\ instance[i].count \in 1..3
  BY <1>3 DEF Rows, Statuses, Answers, InstanceOK, RowOK, Pending
<1>6. /\ e \in Entries
      /\ instance'[i].status = "PENDING" /\ instance'[i].line = instance[i].line + 1
      /\ instance'[i].count = instance[i].count
      /\ instance'[i].templated = instance[i].templated
      /\ instance'[i].version = instance[i].version
      /\ trail'[i] = Append(trail[i], e)
  <2>1. Decided(s, call[s].inst, "PENDING", instance[i].line + 1)
    BY <1>3, <1>4, <1>5, DecideRows
  <2> QED
    BY <1>1, <1>2, <2>1 DEF Decided
<1>7. /\ e.action = "APPROVE" /\ e.line = instance[i].line /\ e.version = instance[i].version
      /\ trail[i] \in Seq(Entries)
  BY <1>1, <1>3, <1>2 DEF TypeOK, NewEntry
<1>8. UNCHANGED <<template, effects, active>> /\ notified' \in [Instances -> SUBSET Users]
  <2>1. CurrentLineMembers(i) \in SUBSET Users
    BY <1>3 DEF CurrentLineMembers, TypeOK, Templates
  <2> QED
    BY <1>3, <1>1, <2>1 DEF Advance, TypeOK
<1>9. TrailOK(i)'
  <2> SUFFICES ASSUME NEW n \in DOMAIN trail'[i]
               PROVE  /\ trail'[i][n].version <= instance'[i].version
                      /\ trail'[i][n].action = "APPROVE"
                      /\ trail'[i][n].version = instance'[i].version =>
                            trail'[i][n].line < instance'[i].line
    BY DEF TrailOK
  <2>1. CASE n \in DOMAIN trail[i] /\ trail'[i][n] = trail[i][n]
    <3>1. trail[i][n] \in Entries
      BY <1>7, <2>1
    <3>2. trail[i][n].line \in 1..3
      BY <3>1 DEF Entries
    <3> QED
      BY <1>3, <1>5, <1>6, <2>1, <3>2 DEF InstanceOK, TrailOK
  <2>2. CASE trail'[i][n] = e
    BY <1>3, <1>5, <1>6, <1>7, <2>2 DEF Rows
  <2> QED
    BY <1>6, <1>7, <2>1, <2>2
<1>10. ChainOK(i)'
  <2> SUFFICES ASSUME NEW k \in 1..instance[i].line PROVE ClearedOnce(i, k)'
    BY <1>5, <1>6 DEF ChainOK
  <2>1. CASE k # instance[i].line
    <3>1. ClearedOnce(i, k)
      BY <1>3, <1>5, <2>1 DEF InstanceOK, ChainOK, Pending
    <3> QED
      BY <1>6, <1>7, <2>1, <3>1, <1>3, ClearedKept
  <2>2. CASE k = instance[i].line
    <3>1. \A n \in DOMAIN trail[i] : ~ Clears(i, n, k)
      BY <1>3, <1>5, <2>2 DEF InstanceOK, TrailOK, Clears
    <3> QED
      BY <1>6, <1>7, <2>2, <3>1, <1>3, ClearedNow
  <2> QED BY <2>1, <2>2
<1>11. InstanceOK(i)'
  BY <1>3, <1>5, <1>6, <1>8, <1>9, <1>10 DEF InstanceOK, AbsentOK, RowOK, HookOK, Pending
<1> QED
  BY <1>3, <1>4, <1>5, <1>8, <1>11, <1>1, DecideStep DEF TypeOK

\* The last approval, or the bypass, ends the chain with its hook.
LEMMA FinishApprovedStep ==
    ASSUME IInv, NEW s \in Sessions, FinishApproved(s)
    PROVE  IInv'
<1>1. PICK i \in Instances : i = call[s].inst
  BY DEF IInv, TypeOK
<1>2. PICK e : e = NewEntry(s)
  OBVIOUS
<1>3. /\ TypeOK /\ pc[s] = "writing" /\ call[s].verb \in {"APPROVE", "BYPASS"}
      /\ call[s].verb \in Decisions
      /\ row[s] = instance[i] /\ Pending(i) /\ instance[i] \in Rows /\ InstanceOK(i)
      /\ call[s].verb = "APPROVE" => instance[i].line >= instance[i].count
  BY <1>1 DEF FinishApproved, IInv, SessionOK, DecideOK, TypeOK, Decisions
<1>4. Decide(s, "APPROVED", instance[i].line) /\ End(s, "200")
  BY <1>1, <1>3 DEF FinishApproved
<1>5. /\ "APPROVED" \in Statuses /\ "200" \in Answers
      /\ instance[i].line \in 0..3 /\ instance[i].line \in 1..3 /\ instance[i].count \in 1..3
      /\ instance[i].line <= instance[i].count
  BY <1>3 DEF Rows, Statuses, Answers, InstanceOK, RowOK, Pending
<1>6. /\ e \in Entries
      /\ instance'[i].status = "APPROVED" /\ instance'[i].line = instance[i].line
      /\ instance'[i].count = instance[i].count
      /\ instance'[i].templated = instance[i].templated
      /\ instance'[i].version = instance[i].version
      /\ trail'[i] = Append(trail[i], e)
  <2>1. Decided(s, call[s].inst, "APPROVED", instance[i].line)
    BY <1>3, <1>4, <1>5, DecideRows
  <2> QED
    BY <1>1, <1>2, <2>1 DEF Decided
<1>7. /\ e.action = call[s].verb /\ e.line = instance[i].line
      /\ e.version = instance[i].version /\ trail[i] \in Seq(Entries)
  BY <1>1, <1>2, <1>3 DEF TypeOK, NewEntry
<1>8. UNCHANGED <<template, notified, active>>
  BY DEF FinishApproved
<1>9. /\ effects' \in [Instances -> Seq({"OnApproved", "OnRejected"})]
      /\ effects'[i] = <<"OnApproved">>
      /\ \A j \in Instances : j # i => effects'[j] = effects[j]
  <2>1. effects[i] = <<>>
    BY <1>3 DEF InstanceOK, HookOK, Pending
  <2>2. effects' = [effects EXCEPT ![i] = Append(effects[i], "OnApproved")]
    BY <1>1 DEF FinishApproved
  <2> QED
    BY <1>3, <2>1, <2>2 DEF TypeOK
<1>10. TrailOK(i)'
  <2> SUFFICES ASSUME NEW n \in DOMAIN trail'[i]
               PROVE  trail'[i][n].version <= instance'[i].version
    BY <1>6 DEF TrailOK, Pending
  <2>1. CASE n \in DOMAIN trail[i] /\ trail'[i][n] = trail[i][n]
    BY <1>3, <1>6, <2>1 DEF InstanceOK, TrailOK
  <2>2. CASE trail'[i][n] = e
    BY <1>3, <1>6, <1>7, <2>2 DEF Rows
  <2> QED
    BY <1>6, <1>7, <2>1, <2>2
<1>11. \A k \in 1..(instance[i].line - 1) : ClearedOnce(i, k)'
  BY <1>3, <1>5, <1>6, <1>7, ClearedKept DEF InstanceOK, ChainOK, Pending
<1>12. ~ Bypassed(i)' => \A k \in 1..instance[i].count : ClearedOnce(i, k)'
  <2>1. CASE call[s].verb = "BYPASS"
    <3>1. \E n \in DOMAIN trail'[i] : trail'[i][n] = e
      BY <1>6, <1>7
    <3> QED
      BY <1>7, <2>1, <3>1 DEF Bypassed
  <2>2. CASE call[s].verb = "APPROVE"
    <3>1. instance[i].line = instance[i].count
      BY <1>3, <1>5, <2>2
    <3>2. \A n \in DOMAIN trail[i] : ~ Clears(i, n, instance[i].line)
      BY <1>3, <1>5 DEF InstanceOK, TrailOK, Clears
    <3>3. ASSUME NEW k \in Int, k = instance[i].line PROVE ClearedOnce(i, k)'
      BY <1>6, <1>7, <2>2, <3>2, <3>3, ClearedNow
    <3> QED
      BY <1>5, <1>11, <3>1, <3>3
  <2> QED BY <1>3, <2>1, <2>2
<1>13. ChainOK(i)'
  BY <1>6, <1>11, <1>12 DEF ChainOK
<1>14. InstanceOK(i)'
  BY <1>3, <1>5, <1>6, <1>8, <1>9, <1>10, <1>13 DEF InstanceOK, AbsentOK, RowOK, HookOK, Pending
<1> QED
  BY <1>1, <1>3, <1>4, <1>5, <1>8, <1>9, <1>14, DecideStep DEF TypeOK

\* A rejection ends the chain with its hook.
LEMMA FinishRejectedStep ==
    ASSUME IInv, NEW s \in Sessions, FinishRejected(s)
    PROVE  IInv'
<1>1. PICK i \in Instances : i = call[s].inst
  BY DEF IInv, TypeOK
<1>2. PICK e : e = NewEntry(s)
  OBVIOUS
<1>3. /\ TypeOK /\ pc[s] = "writing" /\ call[s].verb = "REJECT"
      /\ call[s].verb \in Decisions
      /\ row[s] = instance[i] /\ Pending(i) /\ instance[i] \in Rows /\ InstanceOK(i)
  BY <1>1 DEF FinishRejected, IInv, SessionOK, DecideOK, TypeOK, Decisions
<1>4. Decide(s, "REJECTED", instance[i].line) /\ End(s, "200")
  BY <1>1, <1>3 DEF FinishRejected
<1>5. /\ "REJECTED" \in Statuses /\ "200" \in Answers
      /\ instance[i].line \in 0..3 /\ instance[i].line \in 1..3 /\ instance[i].count \in 1..3
      /\ instance[i].line <= instance[i].count
  BY <1>3 DEF Rows, Statuses, Answers, InstanceOK, RowOK, Pending
<1>6. /\ e \in Entries
      /\ instance'[i].status = "REJECTED" /\ instance'[i].line = instance[i].line
      /\ instance'[i].count = instance[i].count
      /\ instance'[i].templated = instance[i].templated
      /\ instance'[i].version = instance[i].version
      /\ trail'[i] = Append(trail[i], e)
  <2>1. Decided(s, call[s].inst, "REJECTED", instance[i].line)
    BY <1>3, <1>4, <1>5, DecideRows
  <2> QED
    BY <1>1, <1>2, <2>1 DEF Decided
<1>7. /\ e.action = call[s].verb /\ e.line = instance[i].line
      /\ e.version = instance[i].version /\ trail[i] \in Seq(Entries)
  BY <1>1, <1>2, <1>3 DEF TypeOK, NewEntry
<1>8. UNCHANGED <<template, notified, active>>
  BY DEF FinishRejected
<1>9. /\ effects' \in [Instances -> Seq({"OnApproved", "OnRejected"})]
      /\ effects'[i] = <<"OnRejected">>
      /\ \A j \in Instances : j # i => effects'[j] = effects[j]
  <2>1. effects[i] = <<>>
    BY <1>3 DEF InstanceOK, HookOK, Pending
  <2>2. effects' = [effects EXCEPT ![i] = Append(effects[i], "OnRejected")]
    BY <1>1 DEF FinishRejected
  <2> QED
    BY <1>3, <2>1, <2>2 DEF TypeOK
<1>10. TrailOK(i)'
  <2> SUFFICES ASSUME NEW n \in DOMAIN trail'[i]
               PROVE  trail'[i][n].version <= instance'[i].version
    BY <1>6 DEF TrailOK, Pending
  <2>1. CASE n \in DOMAIN trail[i] /\ trail'[i][n] = trail[i][n]
    BY <1>3, <1>6, <2>1 DEF InstanceOK, TrailOK
  <2>2. CASE trail'[i][n] = e
    BY <1>3, <1>6, <1>7, <2>2 DEF Rows
  <2> QED
    BY <1>6, <1>7, <2>1, <2>2
<1>11. \A k \in 1..(instance[i].line - 1) : ClearedOnce(i, k)'
  BY <1>3, <1>5, <1>6, <1>7, ClearedKept DEF InstanceOK, ChainOK, Pending
<1>12. ChainOK(i)'
  BY <1>6, <1>11 DEF ChainOK
<1>13. InstanceOK(i)'
  BY <1>3, <1>5, <1>6, <1>8, <1>9, <1>10, <1>12 DEF InstanceOK, AbsentOK, RowOK, HookOK, Pending
<1> QED
  BY <1>1, <1>3, <1>4, <1>5, <1>8, <1>9, <1>13, DecideStep DEF TypeOK

\* A cancellation commits without an entry and without a hook.
LEMMA FinishCancelledStep ==
    ASSUME IInv, NEW s \in Sessions, FinishCancelled(s)
    PROVE  IInv'
<1>1. PICK i \in Instances : i = call[s].inst
  BY DEF IInv, TypeOK
<1>2. /\ TypeOK /\ TemplateOK /\ pc[s] = "writing" /\ held[s] = {i} /\ Pending(i)
      /\ row[s] = instance[i] /\ instance[i] \in Rows
      /\ \A j \in Instances : InstanceOK(j)
  BY <1>1 DEF FinishCancelled, IInv, SessionOK, DecideOK, TypeOK
<1>3. /\ instance' = [instance EXCEPT ![i].status = "CANCELLED", ![i].line = instance[i].line]
      /\ UNCHANGED <<template, trail, effects, notified, active>> /\ End(s, "200")
  BY <1>1, <1>2 DEF FinishCancelled
<1>4. /\ instance' \in [Instances -> Rows]
      /\ instance'[i].status = "CANCELLED" /\ instance'[i].line = instance[i].line
      /\ instance'[i].count = instance[i].count
      /\ instance'[i].templated = instance[i].templated
      /\ instance'[i].version = instance[i].version
      /\ \A j \in Instances : j # i => instance'[j] = instance[j]
  BY <1>2, <1>3 DEF TypeOK, Rows, Statuses
<1>5. "200" \in Answers /\ Others(s)
  BY <1>2, <1>3, EndSession DEF Answers
<1>6. \A t \in Sessions : t # s => SessionOK(t)'
  BY <1>2, <1>3, <1>4, <1>5, OthersKept
<1>7. InstanceOK(i)'
  BY <1>2, <1>3, <1>4 DEF InstanceOK, AbsentOK, RowOK, TrailOK, HookOK, ChainOK, ClearedOnce,
                          Clears, Pending
<1>8. \A j \in Instances : InstanceOK(j)'
  BY <1>2, <1>3, <1>4, <1>7, InstanceFrame
<1>9. template' \in Templates /\ TemplateOK'
  BY <1>2, <1>3 DEF TypeOK, TemplateOK
<1> QED
  BY <1>2, <1>3, <1>4, <1>5, <1>6, <1>8, <1>9, CommitStep DEF TypeOK

\* A submission commits the instance of a request nobody else submits; a template
\* that is being deleted made it wait.
LEMMA InsertStep ==
    ASSUME IInv, NEW s \in Sessions, Insert(s)
    PROVE  IInv'
<1>1. PICK i \in Instances : i = call[s].inst
  BY DEF IInv, TypeOK
<1>2. /\ TypeOK /\ TemplateOK /\ Exclusive /\ SubmitOK(s) /\ pc[s] = "inserting"
      /\ call[s].verb = "SUBMIT" /\ instance[i] = NoInstance /\ held[s] = {}
      /\ tpl[s] \in Templates /\ template \in Templates
      /\ \A j \in Instances : InstanceOK(j)
  BY <1>1 DEF Insert, IInv, SessionOK, SubmitOK, TypeOK
<1>3. PICK r : r = NewInstance(tpl[s])
  OBVIOUS
<1>4. PICK c : c = IF tpl[s].version = 0 THEN 1 ELSE Len(tpl[s].lines)
  OBVIOUS
<1>5. PICK b \in BOOLEAN : b <=> tpl[s].version # 0
  OBVIOUS
<1>6. PICK v \in Nat : v = tpl[s].version
  BY <1>2 DEF Templates
<1>7. r = [status |-> "PENDING", line |-> 1, count |-> c, templated |-> b, version |-> v]
  <2>1. b = (tpl[s].version # 0)
    BY <1>5
  <2> QED BY <1>3, <1>4, <1>6, <2>1 DEF NewInstance
<1>8. /\ r.status = "PENDING" /\ r.line = 1 /\ r.count \in 1..3
      /\ IF r.templated
         THEN template.version # 0 /\ r.version <= template.version
         ELSE template.version = 0 /\ r.version = 0 /\ r.count = 1
  <2>1. /\ r.status = "PENDING" /\ r.line = 1 /\ r.version = v
        /\ r.templated = b /\ r.count = c
    BY <1>7
  <2>2. CASE tpl[s].version = 0
    BY <1>2, <1>4, <1>5, <1>6, <2>1, <2>2 DEF SubmitOK
  <2>3. CASE tpl[s].version # 0
    <3>1. template.version # 0
      BY <2>3 DEF Insert
    <3>2. ValidLineShape(tpl[s].lines) /\ tpl[s].version <= template.version
      BY <1>2, <3>1 DEF SubmitOK
    <3>3. Len(tpl[s].lines) \in 2..3
      BY <3>2 DEF ValidLineShape
    <3> QED
      BY <1>4, <1>5, <1>6, <2>1, <2>3, <3>1, <3>2, <3>3
  <2> QED BY <2>2, <2>3
<1>9. /\ instance' = [instance EXCEPT ![i] = r] /\ End(s, "201")
      /\ UNCHANGED <<template, trail, effects, active>>
  BY <1>1, <1>3 DEF Insert
<1>10. notified' \in [Instances -> SUBSET Users]
  <2>1. Line1Recipients(tpl[s]) \in SUBSET Users
    <3>1. CASE tpl[s].version = 0
      BY <3>1 DEF Line1Recipients
    <3>2. CASE tpl[s].version # 0
      <4>1. ValidLineShape(tpl[s].lines)
        BY <1>2, <3>2 DEF Insert, SubmitOK
      <4>2. tpl[s].lines \in Seq(SUBSET Users) /\ 1 \in DOMAIN tpl[s].lines
        BY <4>1 DEF ValidLineShape
      <4> QED
        BY <3>2, <4>2 DEF Line1Recipients
    <3> QED BY <3>1, <3>2
  <2> QED
    BY <1>2, <2>1 DEF Insert, TypeOK
<1>11. /\ instance' \in [Instances -> Rows] /\ instance'[i] = r
      /\ \A j \in Instances : j # i => instance'[j] = instance[j]
  <2>1. c \in 0..3
    BY <1>7, <1>8
  <2>2. r \in Rows
    BY <1>7, <2>1 DEF Rows, Statuses
  <2> QED
    BY <1>2, <1>9, <2>2 DEF TypeOK
<1>12. "201" \in Answers /\ Others(s)
  BY <1>2, <1>9, EndSession DEF Answers
<1>13. \A t \in Sessions : t # s => SessionOK(t)'
  <2> SUFFICES ASSUME NEW t \in Sessions, t # s PROVE SessionOK(t)'
    OBVIOUS
  <2>1. /\ pc'[t] = pc[t] /\ call'[t] = call[t] /\ tpl'[t] = tpl[t]
        /\ row'[t] = row[t] /\ held'[t] = held[t] /\ template' = template
    BY <1>9, <1>12 DEF Others
  <2>2. /\ SessionOK(t) /\ call[t].inst \in Instances /\ held[t] \subseteq Instances
        /\ ~ (call[t].verb = "SUBMIT" /\ call[t].inst = i)
    BY <1>1, <1>2 DEF IInv, Exclusive, TypeOK
  <2>3. ~ Pending(i)
    BY <1>2 DEF Pending, NoInstance
  <2>4. SubmitOK(t)'
    BY <1>11, <2>1, <2>2 DEF SessionOK, SubmitOK
  <2>5. DecideOK(t)'
    BY <1>11, <2>1, <2>2, <2>3 DEF SessionOK, DecideOK, Pending
  <2>6. pc[t] = "resetting" /\ call[t].verb = "DELETE" => ~ r.templated
    BY <1>3, <2>2 DEF Insert, NewInstance
  <2>7. ChangeOK(t)'
    BY <1>11, <2>1, <2>2, <2>3, <2>6 DEF SessionOK, ChangeOK, Pending, Referenced
  <2> QED
    BY <2>1, <2>2, <2>4, <2>5, <2>7 DEF SessionOK
<1>14. InstanceOK(i)'
  <2>1. trail'[i] = <<>> /\ effects'[i] = <<>>
    BY <1>2, <1>9 DEF InstanceOK, AbsentOK, NoInstance
  <2> QED
    BY <1>8, <1>9, <1>11, <2>1 DEF InstanceOK, AbsentOK, RowOK, TrailOK, HookOK, ChainOK
<1>15. \A j \in Instances : InstanceOK(j)'
  BY <1>2, <1>9, <1>11, <1>14, InstanceFrame
<1>16. template' \in Templates /\ TemplateOK'
  BY <1>2, <1>9 DEF TemplateOK
<1> QED
  BY <1>2, <1>9, <1>10, <1>11, <1>12, <1>13, <1>15, <1>16, CommitStep DEF TypeOK

\* An edit or a deletion commits a template and the rows it has reset.
LEMMA RebasedRows ==
    ASSUME IInv, NEW s \in Sessions, pc[s] = "resetting", instance' = Rebased(s)
    PROVE  /\ instance' \in [Instances -> Rows]
           /\ \A i \in held[s] :
                 /\ Pending(i) /\ instance'[i].status = "PENDING" /\ instance'[i].line = 1
                 /\ instance'[i].count = instance[i].count
                 /\ instance'[i].templated = instance[i].templated
                 /\ instance'[i].version = tpl[s].version
           /\ \A i \in Instances \ held[s] : instance'[i] = instance[i]
<1>1. TypeOK /\ tpl[s].version \in Nat /\ held[s] \subseteq Instances /\ \A i \in held[s] : Pending(i)
  BY DEF IInv, TypeOK, Templates, SessionOK, ChangeOK
<1>2. \A i \in Instances : instance[i] \in Rows
  BY <1>1 DEF TypeOK
<1>3. ASSUME NEW i \in held[s]
      PROVE  /\ instance'[i] \in Rows
             /\ instance'[i].status = instance[i].status /\ instance'[i].line = 1
             /\ instance'[i].count = instance[i].count
             /\ instance'[i].templated = instance[i].templated
             /\ instance'[i].version = tpl[s].version
  <2>1. instance'[i] = [instance[i] EXCEPT !.line = 1, !.version = tpl[s].version]
    BY <1>1 DEF Rebased
  <2>2. PICK r \in Rows, v \in Nat : r = instance[i] /\ v = tpl[s].version
    BY <1>1, <1>2
  <2>3. PICK q : q = [r EXCEPT !.line = 1, !.version = v]
    OBVIOUS
  <2>4. /\ q.status = r.status /\ q.line = 1 /\ q.count = r.count
        /\ q.templated = r.templated /\ q.version = v
    BY <2>2, <2>3 DEF Rows
  <2>5. q \in Rows
    <3>1. PICK k \in 0..3 : k = 1
      OBVIOUS
    <3>2. q = [r EXCEPT !.line = k, !.version = v]
      BY <2>3, <3>1
    <3> QED
      BY <3>2 DEF Rows
  <2>6. instance'[i] = q
    BY <2>1, <2>2, <2>3
  <2> QED
    BY <2>2, <2>4, <2>5, <2>6
<1>4. \A i \in Instances \ held[s] : instance'[i] = instance[i]
  BY DEF Rebased
<1>5. instance' = [i \in Instances |-> instance'[i]]
  BY DEF Rebased
<1>6. \A i \in Instances : instance'[i] \in Rows
  BY <1>2, <1>3, <1>4
<1>7. instance' \in [Instances -> Rows]
  BY <1>5, <1>6
<1> QED
  BY <1>1, <1>3, <1>4, <1>7 DEF Pending

\* An edit's commit: the template moves to the next version, and the pending rows
\* with it, back at line 1, where nothing is cleared under that version.
LEMMA CommitUpsertStep ==
    ASSUME IInv, NEW s \in Sessions, CommitUpsert(s)
    PROVE  IInv'
<1>1. /\ TypeOK /\ SessionOK(s) /\ pc[s] = "resetting" /\ call[s].verb = "UPSERT"
      /\ instance' = Rebased(s) /\ template' = tpl[s] /\ End(s, "200")
      /\ UNCHANGED <<trail, effects, active>>
      /\ \A j \in Instances : InstanceOK(j)
  BY DEF CommitUpsert, IInv
<1>2. /\ template.version \in Nat /\ template.version # 0
      /\ template'.version = template.version + 1
      /\ tpl[s] \in Templates /\ ValidLineShape(tpl[s].lines)
  BY <1>1 DEF SessionOK, ChangeOK, TypeOK, Templates
<1>3. /\ instance' \in [Instances -> Rows]
      /\ \A i \in held[s] :
            /\ Pending(i) /\ instance'[i].status = "PENDING" /\ instance'[i].line = 1
            /\ instance'[i].count = instance[i].count
            /\ instance'[i].templated = instance[i].templated
            /\ instance'[i].version = template.version + 1
      /\ \A i \in Instances \ held[s] : instance'[i] = instance[i]
  BY <1>1, <1>2, RebasedRows
<1>4. "200" \in Answers /\ Others(s)
  BY <1>1, EndSession DEF Answers
<1>5. notified' \in [Instances -> SUBSET Users]
  <2>1. tpl[s].lines \in Seq(SUBSET Users) /\ 1 \in DOMAIN tpl[s].lines
    BY <1>2 DEF ValidLineShape
  <2> QED
    BY <1>1, <2>1 DEF CommitUpsert, TypeOK
<1>6. \A t \in Sessions : t # s => SessionOK(t)'
  <2> SUFFICES ASSUME NEW t \in Sessions, t # s PROVE SessionOK(t)'
    OBVIOUS
  <2>1. /\ pc'[t] = pc[t] /\ call'[t] = call[t] /\ tpl'[t] = tpl[t]
        /\ row'[t] = row[t] /\ held'[t] = held[t]
    BY <1>4 DEF Others
  <2>2. /\ SessionOK(t) /\ held[s] \cap held[t] = {} /\ held[t] \subseteq Instances
        /\ call[t].inst \in Instances /\ tpl[t].version \in Nat
        /\ pc[t] \notin {"validating", "resetting"}
    BY <1>1 DEF IInv, Exclusive, TypeOK, Templates
  <2>3. SubmitOK(t)'
    <3>1. CASE pc[t] \in {"reading", "inserting"}
      <4>1. instance[call[t].inst] = NoInstance
        BY <2>2, <3>1 DEF SessionOK, SubmitOK
      <4>2. call[t].inst \notin held[s]
        BY <1>3, <4>1 DEF Pending, NoInstance
      <4>3. tpl[t].version # 0 /\ tpl[t].version <= template.version
        BY <1>2, <2>2, <3>1 DEF SessionOK, SubmitOK
      <4> QED
        BY <1>2, <1>3, <2>1, <2>2, <3>1, <4>2, <4>3 DEF SessionOK, SubmitOK
    <3>2. CASE pc[t] \notin {"reading", "inserting"}
      BY <2>1, <3>2 DEF SubmitOK
    <3> QED BY <3>1, <3>2
  <2>4. DecideOK(t)'
    BY <1>3, <2>1, <2>2 DEF SessionOK, DecideOK, Pending
  <2>5. ChangeOK(t)'
    BY <2>1, <2>2 DEF SessionOK, ChangeOK
  <2> QED
    BY <2>1, <2>2, <2>3, <2>4, <2>5 DEF SessionOK
<1>7. \A i \in Instances : InstanceOK(i)'
  <2> SUFFICES ASSUME NEW i \in Instances PROVE InstanceOK(i)'
    OBVIOUS
  <2>1. /\ InstanceOK(i) /\ instance[i].version \in Nat /\ trail[i] \in Seq(Entries)
        /\ trail'[i] = trail[i] /\ effects'[i] = effects[i]
    BY <1>1 DEF TypeOK, Rows
  <2>2. CASE i \in held[s]
    <3>1. /\ instance'[i].status = "PENDING" /\ instance'[i].line = 1
          /\ instance'[i].count = instance[i].count
          /\ instance'[i].templated = instance[i].templated
          /\ instance'[i].version = template.version + 1
          /\ instance[i].status = "PENDING"
      BY <1>3, <2>2 DEF Pending
    <3>2. /\ instance[i].count \in 1..3 /\ instance[i].templated
          /\ instance[i].version <= template.version
      BY <1>2, <2>1, <3>1 DEF InstanceOK, RowOK
    <3>3. RowOK(i)'
      BY <1>2, <3>1, <3>2 DEF RowOK
    <3>4. TrailOK(i)'
      <4>1. ASSUME NEW n \in DOMAIN trail[i]
            PROVE  /\ trail[i][n].version < template.version + 1
                   /\ trail[i][n].action = "APPROVE"
        <5>1. trail[i][n] \in Entries
          BY <2>1
        <5>2. trail[i][n].version \in Nat
          BY <5>1 DEF Entries
        <5>3. /\ trail[i][n].version <= instance[i].version
              /\ trail[i][n].action = "APPROVE"
          BY <2>1, <3>1 DEF InstanceOK, TrailOK, Pending
        <5> QED
          BY <1>2, <2>1, <3>2, <5>2, <5>3
      <4>2. ASSUME NEW n \in DOMAIN trail'[i]
            PROVE  /\ trail'[i][n].version <= instance'[i].version
                   /\ trail'[i][n].action = "APPROVE"
                   /\ trail'[i][n].version # instance'[i].version
        <5>1. trail[i][n] \in Entries
          BY <2>1
        <5>2. trail[i][n].version \in Nat
          BY <5>1 DEF Entries
        <5> QED
          BY <1>2, <2>1, <3>1, <4>1, <5>2
      <4> QED
        BY <4>2 DEF TrailOK
    <3> QED
      BY <2>1, <3>1, <3>3, <3>4 DEF InstanceOK, AbsentOK, HookOK, ChainOK
  <2>3. CASE i \notin held[s]
    <3>1. instance'[i] = instance[i]
      BY <1>3, <2>3
    <3>2. RowOK(i)'
      BY <1>2, <2>1, <3>1 DEF InstanceOK, RowOK
    <3> QED
      BY <2>1, <3>1, <3>2 DEF InstanceOK, AbsentOK, TrailOK, HookOK, ChainOK, ClearedOnce,
                              Clears, Bypassed, Pending
  <2> QED BY <2>2, <2>3
<1>8. template' \in Templates /\ TemplateOK'
  BY <1>1, <1>2 DEF TemplateOK
<1> QED
  BY <1>1, <1>3, <1>4, <1>5, <1>6, <1>7, <1>8, CommitStep DEF TypeOK

\* A deletion's commit: no instance was built from the template, so the reset finds
\* no pending row it could change.
LEMMA CommitDeleteStep ==
    ASSUME IInv, NEW s \in Sessions, CommitDelete(s)
    PROVE  IInv'
<1>1. /\ TypeOK /\ SessionOK(s) /\ pc[s] = "resetting" /\ call[s].verb = "DELETE"
      /\ instance' = Rebased(s) /\ template' = NoTemplate /\ End(s, "204")
      /\ UNCHANGED <<trail, effects, notified, active>>
      /\ \A j \in Instances : InstanceOK(j)
  BY DEF CommitDelete, IInv
<1>2. /\ tpl[s] = NoTemplate /\ ~ Referenced /\ tpl[s].version = 0
      /\ template' \in Templates /\ template'.version = 0
  BY <1>1, Defaults DEF SessionOK, ChangeOK, NoTemplate
<1>3. /\ instance' \in [Instances -> Rows]
      /\ \A i \in held[s] :
            /\ Pending(i) /\ instance'[i].status = "PENDING" /\ instance'[i].line = 1
            /\ instance'[i].count = instance[i].count
            /\ instance'[i].templated = instance[i].templated
            /\ instance'[i].version = 0
      /\ \A i \in Instances \ held[s] : instance'[i] = instance[i]
  BY <1>1, <1>2, RebasedRows
<1>4. "204" \in Answers /\ Others(s)
  BY <1>1, EndSession DEF Answers
<1>5. \A i \in Instances : ~ instance[i].templated
  BY <1>2 DEF Referenced
<1>6. \A i \in Instances : /\ instance'[i].status = instance[i].status
                          /\ instance'[i].line = instance[i].line
                          /\ instance'[i].count = instance[i].count
                          /\ instance'[i].templated = instance[i].templated
                          /\ instance'[i].version = instance[i].version
  <2> SUFFICES ASSUME NEW i \in Instances, i \in held[s]
               PROVE  /\ instance'[i].status = instance[i].status
                      /\ instance'[i].line = instance[i].line
                      /\ instance'[i].count = instance[i].count
                      /\ instance'[i].templated = instance[i].templated
                      /\ instance'[i].version = instance[i].version
    BY <1>3
  <2>1. instance[i].status = "PENDING" /\ ~ instance[i].templated
    BY <1>3, <1>5 DEF Pending
  <2>2. instance[i].line = 1 /\ instance[i].version = 0
    BY <1>1, <2>1 DEF InstanceOK, RowOK
  <2> QED
    BY <1>3, <2>1, <2>2
<1>7. \A t \in Sessions : t # s => SessionOK(t)'
  <2> SUFFICES ASSUME NEW t \in Sessions, t # s PROVE SessionOK(t)'
    OBVIOUS
  <2>1. /\ pc'[t] = pc[t] /\ call'[t] = call[t] /\ tpl'[t] = tpl[t]
        /\ row'[t] = row[t] /\ held'[t] = held[t]
    BY <1>4 DEF Others
  <2>2. /\ SessionOK(t) /\ held[s] \cap held[t] = {} /\ held[t] \subseteq Instances
        /\ call[t].inst \in Instances
        /\ pc[t] \notin {"validating", "resetting"}
    BY <1>1 DEF IInv, Exclusive, TypeOK
  <2>3. SubmitOK(t)'
    <3>1. CASE pc[t] \in {"reading", "inserting"}
      <4>1. instance[call[t].inst] = NoInstance
        BY <2>2, <3>1 DEF SessionOK, SubmitOK
      <4>2. call[t].inst \notin held[s]
        BY <1>3, <4>1 DEF Pending, NoInstance
      <4> QED
        BY <1>2, <1>3, <2>1, <2>2, <3>1, <4>2 DEF SessionOK, SubmitOK
    <3>2. CASE pc[t] \notin {"reading", "inserting"}
      BY <2>1, <3>2 DEF SubmitOK
    <3> QED BY <3>1, <3>2
  <2>4. DecideOK(t)'
    BY <1>3, <2>1, <2>2 DEF SessionOK, DecideOK, Pending
  <2>5. ChangeOK(t)'
    BY <2>1, <2>2 DEF SessionOK, ChangeOK
  <2> QED
    BY <2>1, <2>2, <2>3, <2>4, <2>5 DEF SessionOK
<1>8. \A i \in Instances : InstanceOK(i)'
  <2> SUFFICES ASSUME NEW i \in Instances PROVE InstanceOK(i)'
    OBVIOUS
  <2>1. /\ InstanceOK(i) /\ trail'[i] = trail[i] /\ effects'[i] = effects[i]
        /\ ~ instance[i].templated
    BY <1>1, <1>5
  <2>2. AbsentOK(i)'
    <3>1. CASE i \in held[s]
      BY <1>3, <3>1 DEF AbsentOK
    <3>2. CASE i \notin held[s]
      BY <1>3, <2>1, <3>2 DEF InstanceOK, AbsentOK
    <3> QED BY <3>1, <3>2
  <2>3. RowOK(i)'
    BY <1>2, <1>6, <2>1 DEF InstanceOK, RowOK
  <2>4. TrailOK(i)' /\ HookOK(i)' /\ ChainOK(i)'
    BY <1>6, <2>1 DEF InstanceOK, TrailOK, HookOK, ChainOK, ClearedOnce, Clears, Bypassed, Pending
  <2> QED
    BY <2>2, <2>3, <2>4 DEF InstanceOK
<1>9. TemplateOK'
  BY <1>1 DEF TemplateOK, NoTemplate
<1> QED
  BY <1>1, <1>2, <1>3, <1>4, <1>7, <1>8, <1>9, CommitStep DEF TypeOK
-----------------------------------------------------------------------------
(* The theorems.                                                           *)

\* Nothing is decided, locked or under way at the start.
LEMMA InitInv == Init => IInv
<1> SUFFICES ASSUME Init PROVE IInv
  OBVIOUS
<1>1. template \in Templates /\ TemplateOK
  <2>1. CASE InitialLines = <<>>
    BY <2>1 DEF Init, Templates, TemplateOK
  <2>2. CASE InitialLines # <<>>
    <3>1. ValidLineShape(InitialLines)
      BY <2>2, EngineAssumption
    <3> QED
      BY <2>2, <3>1 DEF Init, Templates, TemplateOK, ValidLineShape
  <2> QED BY <2>1, <2>2
<1>2. TypeOK
  BY <1>1, Defaults DEF Init, TypeOK, Labels, Answers
<1>3. \A s \in Sessions : SessionOK(s)
  BY Defaults DEF Init, SessionOK, SubmitOK, DecideOK, ChangeOK
<1>4. Exclusive
  BY Defaults DEF Init, Exclusive
<1>5. \A i \in Instances : InstanceOK(i)
  BY DEF Init, InstanceOK, AbsentOK, RowOK, TrailOK, HookOK, ChainOK, NoInstance, Pending
<1> QED
  BY <1>1, <1>2, <1>3, <1>4, <1>5 DEF IInv

\* A session's step, of any of the operations, keeps the inductive invariant.
LEMMA ServeInv ==
    ASSUME IInv, NEW s \in Sessions, Serve(s)
    PROVE  IInv'
<1>1. CASE \E i \in Instances : BeginSubmit(s, i)
  BY <1>1, BeginSubmitStep
<1>2. CASE \E i \in Instances : BeginCancel(s, i)
  BY <1>2, BeginCancelStep
<1>3. CASE \E u \in Users, i \in Instances, verb \in Decisions : BeginDecision(s, u, i, verb)
  BY <1>3, BeginDecisionStep
<1>4. CASE \E lines \in LineLists : BeginUpsert(s, lines)
  BY <1>4, BeginUpsertStep
<1>5. CASE BeginDelete(s)
  BY <1>5, BeginDeleteStep
<1> QED
  BY <1>1, <1>2, <1>3, <1>4, <1>5 DEF Serve

\* Every step of a session keeps the invariant.
LEMMA StepInv ==
    ASSUME IInv, NEW s \in Sessions, Step(s)
    PROVE  IInv'
<1> DEFINE Fails(code) == End(s, code) /\ UNCHANGED db
<1>1. ASSUME NEW code \in {"200", "403", "409", "422", "500"}, Fails(code) PROVE IInv'
  BY <1>1, EndStep DEF Answers
<1>2. CASE LockDecided(s)
  BY <1>1, <1>2 DEF LockDecided
<1>3. CASE InsertFails(s) \/ Forbidden(s) \/ BumpFails(s) \/ LineInvalid(s) \/ DeleteFails(s)
  BY <1>1, <1>3 DEF InsertFails, Forbidden, BumpFails, LineInvalid, DeleteFails
<1>4. CASE ReadLines(s) \/ Insert(s)
  BY <1>4, ReadLinesStep, InsertStep
<1>5. CASE LockInstance(s) \/ CheckMembers(s)
  BY <1>5, LockInstanceStep, CheckMembersStep
<1>6. CASE Advance(s) \/ FinishApproved(s)
  BY <1>6, AdvanceStep, FinishApprovedStep
<1>7. CASE FinishRejected(s) \/ FinishCancelled(s)
  BY <1>7, FinishRejectedStep, FinishCancelledStep
<1>8. CASE Bump(s) \/ Validate(s)
  BY <1>8, BumpStep, ValidateStep
<1>9. CASE \E i \in Instances : ResetRow(s, i)
  BY <1>9, ResetRowStep
<1>10. CASE CommitUpsert(s)
  BY <1>10, CommitUpsertStep
<1>11. CASE Delete(s) \/ CommitDelete(s)
  BY <1>11, DeleteStep, CommitDeleteStep
<1> QED
  BY <1>2, <1>3, <1>4, <1>5, <1>6, <1>7, <1>8, <1>9, <1>10, <1>11 DEF Step

\* So does every step of the system.
LEMMA NextInv == IInv /\ [Next]_vars => IInv'
<1> SUFFICES ASSUME IInv, [Next]_vars PROVE IInv'
  OBVIOUS
<1>1. ASSUME NEW s \in Sessions, Rollback(s) PROVE IInv'
  <2>1. End(s, "rolled back") /\ UNCHANGED db /\ "rolled back" \in Answers
    BY <1>1 DEF Rollback, Answers
  <2> QED
    BY <2>1, EndStep
<1>2. CASE \E s \in Sessions : Serve(s) \/ Step(s) \/ Rollback(s)
  BY <1>1, <1>2, ServeInv, StepInv
<1>3. CASE \E u \in Leavers : EmploymentChange(u)
  BY <1>3, EmploymentStep
<1>4. CASE UNCHANGED vars
  <2>1. UNCHANGED <<template, instance, trail, effects, notified, active,
                    pc, call, tpl, row, todo, held, answer>>
    BY <1>4 DEF vars
  <2>2. \A s \in Sessions : SessionOK(s)'
    BY <2>1, Frame DEF IInv
  <2>3. TypeOK' /\ TemplateOK' /\ Exclusive'
    BY <2>1 DEF IInv, TypeOK, TemplateOK, Exclusive
  <2>4. \A i \in Instances : InstanceOK(i)'
    BY <2>1, InstanceFrame DEF IInv
  <2> QED
    BY <2>2, <2>3, <2>4 DEF IInv
<1> QED
  BY <1>2, <1>3, <1>4 DEF Next

\* The inductive invariant holds in every reachable state.
THEOREM Inductive == Spec => []IInv
  BY InitInv, NextInv, PTL DEF Spec

\* Every row, copy and label keeps its type.
THEOREM TypeCorrect == Spec => []TypeOK
<1>1. IInv => TypeOK
  BY DEF IInv
<1> QED
  BY <1>1, Inductive, PTL

\* INV-8: each instance's hook runs exactly once, with the status it ended in.
THEOREM HookOnce == Spec => []HookMatchesStatus
<1>1. IInv => HookMatchesStatus
  <2> SUFFICES ASSUME IInv, NEW i \in Instances
               PROVE  effects[i] = CASE instance[i].status = "APPROVED" -> <<"OnApproved">>
                                     [] instance[i].status = "REJECTED" -> <<"OnRejected">>
                                     [] OTHER                           -> <<>>
    BY DEF HookMatchesStatus
  <2> QED
    BY DEF IInv, InstanceOK, HookOK
<1> QED
  BY <1>1, Inductive, PTL

\* INV-2, INV-6: whoever decides when, and however often the template is edited in
\* between, every line behind the current one was cleared exactly once under the
\* version in force.
THEOREM ChainCorrect == Spec => []ChainInForce
<1>1. IInv => ChainInForce
  BY DEF IInv, InstanceOK, ChainOK, ChainInForce
<1> QED
  BY <1>1, Inductive, PTL

\* The steps that commit something about an instance; every other one leaves the
\* rows, the trails and the hooks alone.
Commits(s) ==
    \/ Insert(s) \/ Advance(s) \/ FinishApproved(s) \/ FinishRejected(s)
    \/ FinishCancelled(s) \/ CommitUpsert(s) \/ CommitDelete(s)

\* A step that commits no change leaves rows and hooks as they are.
LEMMA Quiet ==
    ASSUME [Next]_vars, \A s \in Sessions : ~ Commits(s)
    PROVE  UNCHANGED <<instance, trail, effects>>
<1>1. ASSUME NEW s \in Sessions, Serve(s) PROVE UNCHANGED <<instance, trail, effects>>
  BY <1>1 DEF Serve, BeginSubmit, BeginCancel, BeginDecision, BeginUpsert, BeginDelete, db
<1>2. ASSUME NEW s \in Sessions, Step(s) PROVE UNCHANGED <<instance, trail, effects>>
  <2>1. ~ Commits(s)
    OBVIOUS
  <2> QED
    BY <1>2, <2>1 DEF Step, Commits, ReadLines, InsertFails, LockInstance, LockDecided,
                      CheckMembers, Forbidden, Bump, BumpFails, Validate, LineInvalid,
                      ResetRow, Delete, DeleteFails, db
<1>3. ASSUME NEW s \in Sessions, Rollback(s) PROVE UNCHANGED <<instance, trail, effects>>
  BY <1>3 DEF Rollback, db
<1>4. ASSUME NEW u \in Leavers, EmploymentChange(u) PROVE UNCHANGED <<instance, trail, effects>>
  BY <1>4 DEF EmploymentChange
<1>5. CASE UNCHANGED vars
  BY <1>5 DEF vars
<1> QED
  BY <1>1, <1>2, <1>3, <1>4, <1>5 DEF Next

\* What the three decisions have in common.
LEMMA DecisionRows ==
    ASSUME IInv, NEW s \in Sessions, Advance(s) \/ FinishApproved(s) \/ FinishRejected(s)
    PROVE  \E i \in Instances, e \in Entries :
              /\ Pending(i)
              /\ e.line = instance[i].line /\ e.version = instance[i].version
              /\ trail'[i] = Append(trail[i], e)
              /\ \A j \in Instances : j # i => trail'[j] = trail[j]
<1>1. PICK i \in Instances : i = call[s].inst
  BY DEF IInv, TypeOK
<1>2. PICK e : e = NewEntry(s)
  OBVIOUS
<1>3. /\ pc[s] = "writing" /\ call[s].verb \in Decisions /\ row[s] = instance[i]
      /\ Pending(i) /\ instance[i] \in Rows /\ InstanceOK(i)
      /\ Advance(s) => instance[i].line < instance[i].count
  BY <1>1 DEF Advance, FinishApproved, FinishRejected, IInv, SessionOK, DecideOK, TypeOK, Decisions
<1>4. /\ instance[i].line \in 0..3
      /\ Advance(s) => instance[i].line + 1 \in 0..3
      /\ "PENDING" \in Statuses /\ "APPROVED" \in Statuses /\ "REJECTED" \in Statuses
  BY <1>3 DEF Rows, Statuses
<1>5. \E status \in Statuses, line \in 0..3 : Decide(s, status, line)
  BY <1>3, <1>4 DEF Advance, FinishApproved, FinishRejected
<1>6. /\ e \in Entries /\ trail'[i] = Append(trail[i], e)
      /\ \A j \in Instances : j # i => trail'[j] = trail[j]
  <2>1. PICK status \in Statuses, line \in 0..3 : Decide(s, status, line)
    BY <1>5
  <2>2. Decided(s, call[s].inst, status, line)
    BY <1>3, <2>1, DecideRows
  <2> QED
    BY <1>1, <1>2, <2>2 DEF Decided
<1>7. e.line = instance[i].line /\ e.version = instance[i].version
  BY <1>1, <1>2 DEF NewEntry
<1> QED
  BY <1>3, <1>6, <1>7

\* INV-9: the trail only grows, by decisions taken on the pending row as it was.
THEOREM TrailAppendOnly == Spec => DecidedOnCurrentRow
<1> DEFINE Grows == \A i \in Instances :
                       trail'[i] # trail[i] =>
                          LET new == trail'[i][Len(trail[i]) + 1] IN
                             /\ trail'[i] = Append(trail[i], new)
                             /\ Pending(i)
                             /\ new.line = instance[i].line
                             /\ new.version = instance[i].version
<1>1. ASSUME IInv, [Next]_vars PROVE Grows
  <2>1. CASE \E s \in Sessions : Advance(s) \/ FinishApproved(s) \/ FinishRejected(s)
    <3>1. PICK i \in Instances, e \in Entries :
              /\ Pending(i)
              /\ e.line = instance[i].line /\ e.version = instance[i].version
              /\ trail'[i] = Append(trail[i], e)
              /\ \A j \in Instances : j # i => trail'[j] = trail[j]
      BY <1>1, <2>1, DecisionRows
    <3>2. trail[i] \in Seq(Entries)
      BY <1>1 DEF IInv, TypeOK
    <3>3. trail'[i][Len(trail[i]) + 1] = e
      BY <3>1, <3>2
    <3> QED
      BY <3>1, <3>3
  <2>2. CASE \E s \in Sessions : Insert(s) \/ FinishCancelled(s) \/ CommitUpsert(s) \/ CommitDelete(s)
    BY <2>2 DEF Insert, FinishCancelled, CommitUpsert, CommitDelete
  <2>3. CASE \A s \in Sessions : ~ Commits(s)
    BY <1>1, <2>3, Quiet
  <2> QED
    BY <2>1, <2>2, <2>3 DEF Commits
<1>2. IInv /\ [Next]_vars => [Grows]_vars
  BY <1>1
<1> HIDE DEF Grows
<1>3. Spec => [][Grows]_vars
  BY <1>2, Inductive, PTL DEF Spec
<1> QED
  BY <1>3 DEF Grows, DecidedOnCurrentRow
-----------------------------------------------------------------------------
(* The engine implements the contract: each commit is one of its atomic    *)
(* operations, every other step a stuttering step.                         *)

\* An insert is the contract's submission.
LEMMA InsertMaps ==
    ASSUME IInv, NEW s \in Sessions, Insert(s)
    PROVE  Contract!Next
<1>1. PICK i \in Instances : i = call[s].inst
  BY DEF IInv, TypeOK
<1>2. PICK r : r = NewInstance(tpl[s])
  OBVIOUS
<1>3. /\ TypeOK /\ instance[i] = NoInstance /\ instance' = [instance EXCEPT ![i] = r]
      /\ UNCHANGED effects
  BY <1>1, <1>2 DEF Insert, IInv, SessionOK, SubmitOK
<1>4. instance'[i] = r /\ instance[i].status = "NONE"
  BY <1>3 DEF TypeOK, NoInstance
<1>5. r = [status |-> "PENDING", line |-> 1, count |-> r.count,
           templated |-> r.templated, version |-> r.version]
  BY <1>2 DEF NewInstance
<1>6. IInv'
  BY InsertStep
<1>7. r.count \in 1..3 /\ r.templated \in BOOLEAN /\ r.version \in Nat
  <2>1. instance'[i] \in Rows /\ r.status = "PENDING"
    BY <1>2, <1>6 DEF IInv, TypeOK, NewInstance
  <2>2. RowOK(i)'
    BY <1>6 DEF IInv, InstanceOK
  <2> QED
    BY <1>4, <2>1, <2>2 DEF Rows, RowOK
<1>8. Contract!Submit(i)
  BY <1>3, <1>4, <1>5, <1>7 DEF Contract!Submit
<1> QED
  BY <1>8 DEF Contract!Next

\* The commit of a decision is the contract's operation of the same name.
LEMMA DecisionMaps ==
    ASSUME IInv, NEW s \in Sessions,
           Advance(s) \/ FinishApproved(s) \/ FinishRejected(s) \/ FinishCancelled(s)
    PROVE  Contract!Next
<1>1. PICK i \in Instances : i = call[s].inst
  BY DEF IInv, TypeOK
<1>2. /\ TypeOK /\ pc[s] = "writing" /\ row[s] = instance[i]
      /\ instance[i] \in Rows /\ instance[i].status = "PENDING"
  BY <1>1 DEF Advance, FinishApproved, FinishRejected, FinishCancelled, IInv, SessionOK,
              DecideOK, TypeOK, Pending
<1>3. ASSUME NEW st, instance' = [instance EXCEPT ![i].status = st, ![i].line = instance[i].line]
      PROVE  Contract!Close(i, st)
  <2>1. [instance EXCEPT ![i].status = st, ![i].line = instance[i].line]
           = [instance EXCEPT ![i].status = st]
    BY <1>2 DEF TypeOK, Rows
  <2> QED
    BY <1>2, <1>3, <2>1 DEF Contract!Close
<1>4. CASE Advance(s)
  <2>1. instance' = [instance EXCEPT ![i].status = "PENDING", ![i].line = instance[i].line + 1]
    BY <1>1, <1>2, <1>4 DEF Advance, Decide
  <2>2. instance' = [instance EXCEPT ![i].line = instance[i].line + 1]
    BY <1>2, <2>1 DEF TypeOK, Rows
  <2>3. Contract!Clear(i)
    BY <1>2, <1>4, <2>2 DEF Advance, Contract!Clear
  <2> QED
    BY <2>3 DEF Contract!Next
<1>5. CASE FinishApproved(s)
  <2>1. instance' = [instance EXCEPT ![i].status = "APPROVED", ![i].line = instance[i].line]
    BY <1>1, <1>2, <1>5 DEF FinishApproved, Decide
  <2>2. effects' = [effects EXCEPT ![i] = Append(effects[i], "OnApproved")]
    BY <1>1, <1>5 DEF FinishApproved
  <2>3. Contract!Approve(i)
    BY <1>3, <2>1, <2>2 DEF Contract!Approve
  <2> QED
    BY <2>3 DEF Contract!Next
<1>6. CASE FinishRejected(s)
  <2>1. instance' = [instance EXCEPT ![i].status = "REJECTED", ![i].line = instance[i].line]
    BY <1>1, <1>2, <1>6 DEF FinishRejected, Decide
  <2>2. effects' = [effects EXCEPT ![i] = Append(effects[i], "OnRejected")]
    BY <1>1, <1>6 DEF FinishRejected
  <2>3. Contract!Reject(i)
    BY <1>3, <2>1, <2>2 DEF Contract!Reject
  <2> QED
    BY <2>3 DEF Contract!Next
<1>7. CASE FinishCancelled(s)
  <2>1. instance' = [instance EXCEPT ![i].status = "CANCELLED", ![i].line = instance[i].line]
    BY <1>1, <1>2, <1>7 DEF FinishCancelled
  <2>2. UNCHANGED effects
    BY <1>7 DEF FinishCancelled
  <2>3. Contract!Cancel(i)
    BY <1>3, <2>1, <2>2 DEF Contract!Cancel
  <2> QED
    BY <2>3 DEF Contract!Next
<1> QED
  BY <1>4, <1>5, <1>6, <1>7

\* The commit of a template change is the contract's rebase.
LEMMA CommitMaps ==
    ASSUME IInv, NEW s \in Sessions, CommitUpsert(s) \/ CommitDelete(s)
    PROVE  Contract!Next
<1>1. /\ TypeOK /\ SessionOK(s) /\ pc[s] = "resetting" /\ instance' = Rebased(s)
      /\ UNCHANGED effects /\ held[s] \subseteq Instances
  BY DEF CommitUpsert, CommitDelete, IInv, TypeOK
<1>2. \A i \in held[s] : /\ instance[i].status = "PENDING"
                         /\ instance'[i].version = tpl[s].version
  BY <1>1, RebasedRows DEF Pending
<1>3. PICK v \in Nat : v = tpl[s].version
  BY <1>1 DEF TypeOK, Templates
<1>4. \A i \in held[s] : v > instance[i].version \/ ~ instance[i].templated
  <2> SUFFICES ASSUME NEW i \in held[s], instance[i].templated
               PROVE  v > instance[i].version
    OBVIOUS
  <2>1. RowOK(i) /\ instance[i].version \in Nat /\ template.version \in Nat
    BY <1>1 DEF IInv, InstanceOK, TypeOK, Rows, Templates
  <2>2. instance[i].version <= template.version
    BY <1>1, <1>2, <2>1 DEF RowOK
  <2>3. Referenced
    BY <1>1 DEF Referenced
  <2>4. tpl[s].version = template.version + 1
    BY <1>1, <2>3 DEF SessionOK, ChangeOK
  <2> QED
    BY <1>3, <2>1, <2>2, <2>4
<1>5. instance' = [i \in Instances |->
                      IF i \in held[s]
                      THEN [instance[i] EXCEPT !.line = 1, !.version = instance'[i].version]
                      ELSE instance[i]]
  BY <1>1, <1>2 DEF Rebased
<1>6. /\ \A i \in held[s] : /\ instance[i].status = "PENDING"
                            /\ instance'[i].version \in Nat
                            /\ instance'[i].version > instance[i].version \/ ~ instance[i].templated
      /\ \A i, j \in held[s] : instance'[i].version = instance'[j].version
  BY <1>2, <1>3, <1>4
<1>7. Contract!Rebase
  BY <1>1, <1>5, <1>6 DEF Contract!Rebase
<1> QED
  BY <1>7 DEF Contract!Next

\* Every step is an operation of the contract, or none of its business.
LEMMA StepMaps == IInv /\ [Next]_vars => [Contract!Next]_(Contract!vars)
<1> SUFFICES ASSUME IInv, [Next]_vars PROVE [Contract!Next]_(Contract!vars)
  OBVIOUS
<1>1. CASE \E s \in Sessions : Commits(s)
  BY <1>1, InsertMaps, DecisionMaps, CommitMaps DEF Commits
<1>2. CASE \A s \in Sessions : ~ Commits(s)
  BY <1>2, Quiet DEF Contract!vars
<1> QED
  BY <1>1, <1>2

\* For any number of requests and sessions, the engine's locked transactions behave
\* like the contract's atomic operations.
THEOREM Refinement == Spec => ImplementsContract
<1>1. Init => Contract!Init
  BY DEF Init, Contract!Init, NoInstance, Contract!Absent
<1> QED
  BY <1>1, StepMaps, Inductive, PTL DEF Spec, ImplementsContract, Contract!Spec

Closed(i) == instance[i].status \notin {"NONE", "PENDING"}

\* No operation of the contract touches a request that is decided or cancelled.
LEMMA ContractFinal ==
    ASSUME TypeOK, Contract!Next, NEW i \in Instances, Closed(i)
    PROVE  instance'[i] = instance[i] /\ effects'[i] = effects[i]
<1>1. CASE Contract!Rebase
  BY <1>1 DEF TypeOK, Closed, Contract!Rebase
<1>2. ASSUME NEW j \in Instances,
             \/ Contract!Submit(j) \/ Contract!Clear(j) \/ Contract!Approve(j)
             \/ Contract!Reject(j) \/ Contract!Cancel(j)
      PROVE  instance'[i] = instance[i] /\ effects'[i] = effects[i]
  <2>1. i # j
    BY <1>2 DEF Closed, Contract!Submit, Contract!Clear, Contract!Approve, Contract!Reject,
       Contract!Cancel, Contract!Close
  <2> QED
    BY <1>2, <2>1 DEF TypeOK, Contract!Submit, Contract!Clear, Contract!Approve,
       Contract!Reject, Contract!Cancel, Contract!Close
<1> QED
  BY <1>1, <1>2 DEF Contract!Next

\* INV-4: what is rejected, approved or cancelled stays so, with its line, version and
\* hooks: no decision or template change under way at that moment reopens it.
THEOREM ClosedForGood ==
    Spec => [][\A i \in Instances :
                  Closed(i) => instance'[i] = instance[i] /\ effects'[i] = effects[i]]_vars
<1>1. ASSUME IInv, [Next]_vars, NEW i \in Instances, Closed(i)
      PROVE  instance'[i] = instance[i] /\ effects'[i] = effects[i]
  <2>1. CASE Contract!Next
    BY <1>1, <2>1, ContractFinal DEF IInv
  <2>2. CASE UNCHANGED Contract!vars
    BY <2>2 DEF Contract!vars
  <2> QED
    BY <1>1, <2>1, <2>2, StepMaps
<1>2. IInv /\ [Next]_vars =>
        [\A i \in Instances :
            Closed(i) => instance'[i] = instance[i] /\ effects'[i] = effects[i]]_vars
  BY <1>1
<1> QED
  BY <1>2, Inductive, PTL DEF Spec

-----------------------------------------------------------------------------
(* The order of the waits.                                                 *)

\* s stands before a row that t has locked, or before the delete t has not committed.
Waits(s, t) ==
    /\ s # t
    /\ \/ pc[s] = "locking" /\ call[s].inst \in held[t]
       \/ pc[s] \in {"bumping", "deleting"} /\ pc[t] \in {"validating", "resetting"}
       \/ pc[s] = "resetting" /\ todo[s] \cap held[t] # {}
       \/ /\ pc[s] = "inserting" /\ tpl[s].version # 0 /\ template.version # 0
          /\ call[t].verb = "DELETE" /\ pc[t] = "resetting"

\* The guard of one of its steps holds.
Ready(s) ==
    \/ pc[s] \in {"reading", "checking", "validating"}
    \/ /\ pc[s] = "inserting"
       /\ tpl[s].version # 0 /\ template.version # 0 =>
             \A t \in Sessions : ~ (call[t].verb = "DELETE" /\ pc[t] = "resetting")
    \/ pc[s] = "locking" /\ RowFree(s, call[s].inst)
    \/ pc[s] = "writing" /\ call[s].verb \in Decisions \cup {"CANCEL"}
    \/ pc[s] \in {"bumping", "deleting"} /\ TemplateFree(s)
    \/ pc[s] = "resetting" /\ \E i \in todo[s] : RowFree(s, i)
    \/ pc[s] = "resetting" /\ todo[s] = {} /\ call[s].verb \in {"UPSERT", "DELETE"}

\* The order of the locks: a template change locks the template's row, then instances; a
\* decision only its instance, after which it asks for nothing more.
Rank(s) == CASE pc[s] \in {"validating", "resetting"} -> 1
             [] pc[s] \in {"checking", "writing"} -> 2
             [] OTHER -> 0

WaitsInOrder == \A s, t \in Sessions : Waits(s, t) => Rank(s) < Rank(t)

\* Whoever is busy can go on, or waits for one who can, or for one who waits for one.
SomebodyGoesOn ==
    \A s \in Sessions :
        pc[s] # "idle" =>
            \/ Ready(s)
            \/ \E t \in Sessions :
                  Waits(s, t) /\ (Ready(t) \/ \E u \in Sessions : Waits(t, u) /\ Ready(u))

\* An instance is locked by a decision past the lock, or by a template change.
LEMMA HoldersStand ==
    ASSUME IInv, NEW t \in Sessions, held[t] # {}
    PROVE  pc[t] \in {"checking", "writing", "resetting"}
BY DEF IInv, TypeOK, Labels, SessionOK, SubmitOK, DecideOK, ChangeOK

\* A decision past its lock has a step.
LEMMA DeciderReady ==
    ASSUME IInv, NEW s \in Sessions, pc[s] \in {"checking", "writing"}
    PROVE  Ready(s)
BY DEF IInv, SessionOK, DecideOK, Ready

\* A template change at its reset goes on, or waits for a decision that does.
LEMMA ResetterReady ==
    ASSUME IInv, NEW s \in Sessions, pc[s] = "resetting"
    PROVE  Ready(s) \/ \E t \in Sessions : Waits(s, t) /\ Ready(t)
<1>1. CASE todo[s] = {}
    <2>1. call[s].verb \in {"UPSERT", "DELETE"}
        BY DEF IInv, SessionOK, ChangeOK
    <2> QED BY <1>1, <2>1 DEF Ready
<1>2. CASE \E i \in todo[s] : RowFree(s, i)
    BY <1>2 DEF Ready
<1>3. CASE todo[s] # {} /\ ~ \E i \in todo[s] : RowFree(s, i)
    <2>1. PICK i \in todo[s] : ~RowFree(s, i)
        BY <1>3
    <2>2. PICK t \in Sessions : t # s /\ i \in held[t]
        BY <2>1 DEF RowFree
    <2>3. pc[t] \in {"checking", "writing"}
        BY <2>2, HoldersStand DEF IInv, Exclusive
    <2>4. Ready(t)
        BY <2>3, DeciderReady
    <2> QED BY <2>1, <2>2, <2>4 DEF Waits
<1> QED BY <1>1, <1>2, <1>3

\* No transactions wait for each other in a circle, however many decisions, submissions
\* and template changes are served at once: only a template change locks more than one row.
THEOREM NoCircleOfWaits == Spec => []WaitsInOrder
<1>1. ASSUME IInv, NEW s \in Sessions, NEW t \in Sessions, Waits(s, t)
      PROVE  Rank(s) < Rank(t)
    <2>1. CASE pc[s] = "resetting"
        <3>1. held[t] # {} /\ s # t
            BY <1>1, <2>1 DEF Waits
        <3>2. pc[t] \in {"checking", "writing"}
            BY <1>1, <2>1, <3>1, HoldersStand DEF IInv, Exclusive
        <3> QED BY <2>1, <3>2 DEF Rank
    <2>2. CASE pc[s] = "locking"
        <3>1. held[t] # {}
            BY <1>1, <2>2 DEF Waits
        <3>2. pc[t] \in {"checking", "writing", "resetting"}
            BY <1>1, <3>1, HoldersStand
        <3> QED BY <2>2, <3>2 DEF Rank
    <2>3. CASE pc[s] \in {"bumping", "deleting", "inserting"}
        BY <1>1, <2>3 DEF Waits, Rank
    <2> QED BY <1>1, <2>1, <2>2, <2>3 DEF Waits
<1>2. IInv => WaitsInOrder
    BY <1>1 DEF WaitsInOrder
<1> QED BY <1>2, Inductive, PTL

\* Every busy session can take a step of its own, or after at most two waits there is one
\* that can: what strong fairness then answers, without a timeout or a rollback.
THEOREM NobodyStuck == Spec => []SomebodyGoesOn
<1>1. ASSUME IInv, NEW s \in Sessions, pc[s] # "idle", ~Ready(s)
      PROVE  \E t \in Sessions :
                Waits(s, t) /\ (Ready(t) \/ \E u \in Sessions : Waits(t, u) /\ Ready(u))
    <2>1. CASE pc[s] = "resetting"
        BY <1>1, <2>1, ResetterReady
    <2>2. CASE pc[s] = "locking"
        <3>1. PICK t \in Sessions : t # s /\ call[s].inst \in held[t]
            BY <1>1, <2>2 DEF Ready, RowFree
        <3>2. pc[t] \in {"checking", "writing", "resetting"}
            BY <1>1, <3>1, HoldersStand
        <3>3. Ready(t) \/ \E u \in Sessions : Waits(t, u) /\ Ready(u)
            BY <1>1, <3>2, DeciderReady, ResetterReady
        <3> QED BY <2>2, <3>1, <3>3 DEF Waits
    <2>3. CASE pc[s] \in {"bumping", "deleting"}
        <3>1. PICK t \in Sessions : t # s /\ pc[t] \in {"validating", "resetting"}
            BY <1>1, <2>3 DEF Ready, TemplateFree
        <3>2. Ready(t) \/ \E u \in Sessions : Waits(t, u) /\ Ready(u)
            BY <1>1, <3>1, ResetterReady DEF Ready
        <3> QED BY <2>3, <3>1, <3>2 DEF Waits
    <2>4. CASE pc[s] = "inserting"
        <3>1. PICK t \in Sessions : call[t].verb = "DELETE" /\ pc[t] = "resetting"
            BY <1>1, <2>4 DEF Ready
        <3>2. Ready(t) \/ \E u \in Sessions : Waits(t, u) /\ Ready(u)
            BY <1>1, <3>1, ResetterReady
        <3>3. tpl[s].version # 0 /\ template.version # 0
            BY <1>1, <2>4 DEF Ready
        <3> QED BY <2>4, <3>1, <3>2, <3>3 DEF Waits
    <2>5. CASE pc[s] \in {"reading", "checking", "writing", "validating"}
        BY <1>1, <2>5, DeciderReady DEF Ready
    <2>6. pc[s] \in Labels
        BY <1>1 DEF IInv, TypeOK
    <2> QED BY <1>1, <2>1, <2>2, <2>3, <2>4, <2>5, <2>6 DEF Labels
<1>2. IInv => SomebodyGoesOn
    BY <1>1 DEF SomebodyGoesOn
<1> QED BY <1>2, Inductive, PTL

\* Nothing but a ready session takes a step: Ready asks for no more than the guards do.
LEMMA OnlyReadyStep ==
    ASSUME IInv, NEW s \in Sessions, Step(s)
    PROVE  Ready(s)
BY DeciderReady DEF Step, ReadLines, Insert, InsertFails, LockInstance, LockDecided, CheckMembers,
   Forbidden, Advance, FinishApproved, FinishRejected, FinishCancelled, Bump, BumpFails,
   Validate, LineInvalid, ResetRow, CommitUpsert, Delete, DeleteFails, CommitDelete, Ready
=============================================================================
