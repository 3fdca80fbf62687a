------------------------ MODULE PayrollMonthProofs --------------------------
(***************************************************************************)
(* PayrollMonth for any number of corrections, runs, requests, reopenings  *)
(* and payments: its rows keep their types, a run is posted once, an       *)
(* adjustment goes to one run, and an approved correction is always in the *)
(* figures of a locked month or in its adjustments.                        *)
(***************************************************************************)
EXTENDS PayrollMonth, TLAPS

-----------------------------------------------------------------------------
(* The inductive invariant.                                                *)

Closing == {"fetching", "creating", "counting", "locking", "committing", "reopening"}

\* What a request serves follows from where it stands, and so does what it has locked.
RequestShape ==
    \A s \in Sessions :
        /\ call[s].verb = "CORRECT" <=> pc[s] = "applying"
        /\ call[s].verb \in {"LOCK", "REOPEN"} <=> pc[s] \in Closing
        /\ pc[s] = "applying" => /\ call[s].on \in Corrections
                                 /\ call[s].on \in held[s]
                                 /\ change[call[s].on] = "pending"
        /\ pc[s] = "reconciling" => call[s].on \in Unscheduled
        /\ pc[s] \in {"posting", "paying"} => call[s].on \in Runs
        /\ pc[s] = "committing" => "period" \in held[s] /\ CanLock
        /\ pc[s] = "reopening" => "period" \in held[s] /\ CanReopen

\* No row is locked by two requests.
LocksExclude == \A s, t \in Sessions : s # t => held[s] \cap held[t] = {}

\* A correction that is applied while the month is closed or reopened is an overlap.
OverlapsKnown ==
    \A s, t \in Sessions :
        pc[s] = "applying" /\ pc[t] \in Closing => call[s].on \in overlapped

\* What a request has read is still so, but for the overlaps.
CopiesFresh ==
    \A s \in Sessions :
        /\ pc[s] = "applying" /\ call[s].on \notin overlapped =>
              (copy[s].month = "LOCKED" <=> period.status = "LOCKED")
        /\ pc[s] = "committing" =>
              \A c \in Corrections :
                  /\ c \in copy[s].done => change[c] = "done"
                  /\ change[c] = "done" /\ c \notin overlapped => c \in copy[s].done

\* The month has a summary while it is locked, of corrections that were applied.
SummaryTrue ==
    /\ IF period.status = "LOCKED" THEN summaries # {} ELSE summaries = {}
    /\ \A d \in summaries : \A c \in d \cap Corrections : change[c] = "done"

\* An adjustment is of a correction that was applied, and until the month is reopened one
\* outside the overlaps means that it is locked.
AdjustmentTrue ==
    \A c \in Corrections :
        adjustment[c] # "none" =>
            /\ change[c] = "done"
            /\ c \notin overlapped /\ period.reopened = 0 => period.status = "LOCKED"

IInv ==
    /\ TypeOK /\ RequestShape /\ LocksExclude /\ OverlapsKnown /\ CopiesFresh
    /\ SummaryTrue /\ AdjustmentTrue /\ CorrectionAccounted /\ PostedOnce

-----------------------------------------------------------------------------
(* Every action keeps it.                                                  *)

\* One more payslip is a payslip count like the others.
LEMMA CountedSlip ==
    ASSUME NEW p \in Slips
    PROVE  [p EXCEPT !.count = @ + 1] \in Slips
BY DEF Slips

\* What a request has read keeps its type when it reads again.
LEMMA CopyTaken ==
    ASSUME TypeOK, NEW s \in Sessions, NEW d \in SUBSET Changes
    PROVE  [copy EXCEPT ![s].done = d] \in [Sessions -> Copies]
<1>1. [copy[s] EXCEPT !.done = d] \in Copies
    BY DEF TypeOK, Copies
<1> QED BY <1>1 DEF TypeOK

\* A request that is refused or rolled back leaves the rows and lets go of its locks.
LEMMA RefuseKeeps ==
    ASSUME IInv, NEW s \in Sessions, Refuse(s)
    PROVE  IInv'
<1>1. TypeOK'
    BY DEF IInv, TypeOK, Changes, Applied, Months, Periods, Slips, Copies, Verbs, Labels,
        Refuse, End, NoCall, NoCopy, db
<1>2. RequestShape'
    BY DEF IInv, TypeOK, RequestShape, Closing, CanLock, CanReopen, Refuse, End, NoCall,
        NoCopy, db
<1>3. LocksExclude'
    BY DEF IInv, TypeOK, LocksExclude, Refuse, End, NoCall, NoCopy, db
<1>4. OverlapsKnown'
    BY DEF IInv, TypeOK, RequestShape, OverlapsKnown, Closing, Refuse, End, NoCall, NoCopy,
        db
<1>5. CopiesFresh'
    BY DEF IInv, TypeOK, RequestShape, OverlapsKnown, CopiesFresh, Closing, Changes, Refuse,
        End, NoCall, NoCopy, db
<1>6. SummaryTrue' /\ AdjustmentTrue' /\ CorrectionAccounted' /\ PostedOnce'
    BY DEF IInv, SummaryTrue, AdjustmentTrue, CorrectionAccounted, Counted, PostedOnce,
        Refuse, End, db
<1> QED BY <1>1, <1>2, <1>3, <1>4, <1>5, <1>6 DEF IInv

\* A month that is created is open, and none was locked.
LEMMA GetOrCreatePeriodKeeps ==
    ASSUME IInv, GetOrCreatePeriod
    PROVE  IInv'
<1>1. TypeOK'
    BY DEF IInv, TypeOK, Changes, Applied, Months, Periods, Slips, Copies, Verbs, Labels,
        GetOrCreatePeriod
<1>2. RequestShape'
    BY DEF IInv, TypeOK, RequestShape, Closing, CanLock, CanReopen, GetOrCreatePeriod
<1>3. CopiesFresh'
    BY DEF IInv, TypeOK, RequestShape, OverlapsKnown, CopiesFresh, Closing, Changes,
        GetOrCreatePeriod
<1>4. SummaryTrue'
    BY DEF IInv, TypeOK, RequestShape, SummaryTrue, GetOrCreatePeriod
<1>5. AdjustmentTrue'
    BY DEF IInv, TypeOK, RequestShape, AdjustmentTrue, GetOrCreatePeriod
<1>6. CorrectionAccounted'
    BY DEF IInv, TypeOK, RequestShape, CorrectionAccounted, Counted, GetOrCreatePeriod
<1>7. LocksExclude' /\ OverlapsKnown' /\ PostedOnce'
    BY DEF IInv, LocksExclude, OverlapsKnown, Closing, PostedOnce, GetOrCreatePeriod
<1> QED BY <1>1, <1>2, <1>3, <1>4, <1>5, <1>6, <1>7 DEF IInv

\* A lock or a reopening turns the corrections being served into overlaps.
LEMMA BeginPeriodKeeps ==
    ASSUME IInv, NEW s \in Sessions, NEW verb \in {"LOCK", "REOPEN"}, BeginPeriod(s, verb)
    PROVE  IInv'
<1>1. TypeOK'
  <2>1. /\ period' \in Periods
        /\ summaries' \in SUBSET SUBSET Changes
        /\ change' \in [Changes -> {"none", "pending", "late", "done", "refused"}]
        /\ adjustment' \in [Corrections -> Applied]
        /\ run' \in [Runs -> {"none", "DRAFT", "POSTED"}]
        /\ slip' \in [Runs -> Slips]
        /\ shown' \in [Runs -> SUBSET Corrections]
    BY DEF IInv, TypeOK, RequestShape, Changes, Applied, Months, Periods, Slips, Copies,
        Verbs, Labels, Closing, BeginPeriod, Begin, Serving, db
  <2>2. /\ pc' \in [Sessions -> Labels]
        /\ call' \in [Sessions -> [verb : Verbs, on : {"none"} \cup Changes \cup Runs]]
    BY DEF IInv, TypeOK, RequestShape, Changes, Applied, Months, Periods, Slips, Copies,
        Verbs, Labels, Closing, BeginPeriod, Begin, Serving, db
  <2>3. /\ copy' \in [Sessions -> Copies]
        /\ held' \in [Sessions -> SUBSET ({"period"} \cup Changes)]
        /\ overlapped' \subseteq Corrections
    BY DEF IInv, TypeOK, RequestShape, Changes, Applied, Months, Periods, Slips, Copies,
        Verbs, Labels, Closing, BeginPeriod, Begin, Serving, db
  <2> QED BY <2>1, <2>2, <2>3 DEF TypeOK
<1>2. RequestShape'
    BY DEF IInv, TypeOK, RequestShape, Closing, CanLock, CanReopen, BeginPeriod, Begin,
        Serving, db
<1>3. LocksExclude'
    BY DEF IInv, TypeOK, LocksExclude, BeginPeriod, Begin, Serving, db
<1>4. OverlapsKnown'
    BY DEF IInv, TypeOK, RequestShape, OverlapsKnown, Closing, BeginPeriod, Begin, Serving,
        db
<1>5. CopiesFresh'
    BY DEF IInv, TypeOK, RequestShape, OverlapsKnown, CopiesFresh, Closing, Changes,
        BeginPeriod, Begin, Serving, db
<1>6. AdjustmentTrue'
    BY DEF IInv, TypeOK, RequestShape, AdjustmentTrue, BeginPeriod, Begin, Serving, db
<1>7. CorrectionAccounted'
    BY DEF IInv, TypeOK, RequestShape, CorrectionAccounted, Counted, BeginPeriod, Begin,
        Serving, db
<1>8. SummaryTrue' /\ PostedOnce'
    BY DEF IInv, SummaryTrue, PostedOnce, BeginPeriod, Begin, db
<1> QED BY <1>1, <1>2, <1>3, <1>4, <1>5, <1>6, <1>7, <1>8 DEF IInv

\* The month's row is locked for one request.
LEMMA GetPeriodForUpdateKeeps ==
    ASSUME IInv, NEW s \in Sessions, GetPeriodForUpdate(s)
    PROVE  IInv'
<1> SUFFICES ASSUME ~Refuse(s) PROVE IInv'
    BY RefuseKeeps
<1>1. TypeOK'
  <2>1. /\ period' \in Periods
        /\ summaries' \in SUBSET SUBSET Changes
        /\ change' \in [Changes -> {"none", "pending", "late", "done", "refused"}]
        /\ adjustment' \in [Corrections -> Applied]
        /\ run' \in [Runs -> {"none", "DRAFT", "POSTED"}]
        /\ slip' \in [Runs -> Slips]
        /\ shown' \in [Runs -> SUBSET Corrections]
    BY DEF IInv, TypeOK, RequestShape, Changes, Applied, Months, Periods, Slips, Copies,
        Verbs, Labels, Closing, GetPeriodForUpdate, Goto, PeriodFree, db
  <2>2. /\ pc' \in [Sessions -> Labels]
        /\ call' \in [Sessions -> [verb : Verbs, on : {"none"} \cup Changes \cup Runs]]
    BY DEF IInv, TypeOK, RequestShape, Changes, Applied, Months, Periods, Slips, Copies,
        Verbs, Labels, Closing, GetPeriodForUpdate, Goto, PeriodFree, db
  <2>3. copy' \in [Sessions -> Copies]
    BY DEF IInv, TypeOK, RequestShape, Changes, Applied, Months, Periods, Slips, Copies,
        Verbs, Labels, Closing, GetPeriodForUpdate, Goto, PeriodFree, db
  <2>4. held' \in [Sessions -> SUBSET ({"period"} \cup Changes)]
    BY PayrollAssumption DEF IInv, TypeOK, RequestShape, Changes, Applied, Months, Periods,
        Slips, Copies, Verbs, Labels, Closing, GetPeriodForUpdate, Goto, PeriodFree, db
  <2>5. overlapped' \subseteq Corrections
    BY DEF IInv, TypeOK, RequestShape, Changes, Applied, Months, Periods, Slips, Copies,
        Verbs, Labels, Closing, GetPeriodForUpdate, Goto, PeriodFree, db
  <2> QED BY <2>1, <2>2, <2>3, <2>4, <2>5 DEF TypeOK
<1>2. RequestShape'
    BY DEF IInv, TypeOK, RequestShape, Closing, CanLock, CanReopen, GetPeriodForUpdate,
        Goto, PeriodFree, db
<1>3. LocksExclude'
    BY DEF IInv, TypeOK, LocksExclude, GetPeriodForUpdate, Goto, PeriodFree, db
<1>4. OverlapsKnown'
    BY DEF IInv, TypeOK, RequestShape, OverlapsKnown, Closing, GetPeriodForUpdate, Goto,
        PeriodFree, db
<1>5. CopiesFresh'
    BY DEF IInv, TypeOK, RequestShape, OverlapsKnown, CopiesFresh, Closing, Changes,
        GetPeriodForUpdate, Goto, PeriodFree, db
<1>6. SummaryTrue' /\ AdjustmentTrue' /\ CorrectionAccounted' /\ PostedOnce'
    BY DEF IInv, SummaryTrue, AdjustmentTrue, CorrectionAccounted, Counted, PostedOnce,
        GetPeriodForUpdate, Goto, db
<1> QED BY <1>1, <1>2, <1>3, <1>4, <1>5, <1>6 DEF IInv

\* The month is not locked after it is created, as it was not before.
LEMMA CreatePeriodKeeps ==
    ASSUME IInv, NEW s \in Sessions, CreatePeriod(s)
    PROVE  IInv'
<1> SUFFICES ASSUME ~Refuse(s) PROVE IInv'
    BY RefuseKeeps
<1>1. /\ period.status \in {"NONE", "OPEN", "REOPENED"}
      /\ period' = [period EXCEPT !.status = IF @ = "NONE" THEN "OPEN" ELSE @]
      /\ pc' = [pc EXCEPT ![s] = "counting"] /\ pc[s] = "creating"
      /\ UNCHANGED <<summaries, change, adjustment, run, slip, shown,
                     call, copy, held, overlapped>>
    BY DEF CreatePeriod, Goto
<1>2. TypeOK'
    BY <1>1 DEF IInv, TypeOK, Changes, Applied, Months, Periods, Slips, Copies, Verbs,
        Labels
<1>3. RequestShape'
    BY <1>1 DEF IInv, TypeOK, RequestShape, Closing, CanLock, CanReopen, Months, Periods
<1>4. OverlapsKnown'
    BY <1>1 DEF IInv, TypeOK, RequestShape, OverlapsKnown, Closing, Months, Periods
<1>5. CopiesFresh'
    BY <1>1 DEF IInv, TypeOK, RequestShape, OverlapsKnown, CopiesFresh, Closing, Changes,
        Months, Periods
<1>6. SummaryTrue'
    BY <1>1 DEF IInv, TypeOK, RequestShape, SummaryTrue, Months, Periods
<1>7. AdjustmentTrue'
    BY <1>1 DEF IInv, TypeOK, RequestShape, AdjustmentTrue, Months, Periods
<1>8. CorrectionAccounted'
    BY <1>1 DEF IInv, TypeOK, RequestShape, CorrectionAccounted, Counted, Months, Periods
<1>9. LocksExclude' /\ PostedOnce'
    BY <1>1 DEF IInv, LocksExclude, PostedOnce, Months, Periods
<1> QED BY <1>2, <1>3, <1>4, <1>5, <1>6, <1>7, <1>8, <1>9 DEF IInv

\* Counting changes no row.
LEMMA CountFieldBlockersKeeps ==
    ASSUME IInv, NEW s \in Sessions, CountFieldBlockers(s)
    PROVE  IInv'
<1> SUFFICES ASSUME ~Refuse(s) PROVE IInv'
    BY RefuseKeeps
<1>1. /\ pc[s] = "counting" /\ pc' = [pc EXCEPT ![s] = "locking"]
      /\ UNCHANGED <<period, summaries, change, adjustment, run, slip, shown,
                     call, copy, held, overlapped>>
    BY DEF CountFieldBlockers, Goto, db
<1>2. TypeOK'
    BY <1>1 DEF IInv, TypeOK, Changes, Applied, Months, Periods, Slips, Copies, Verbs,
        Labels
<1>3. RequestShape'
    BY <1>1 DEF IInv, TypeOK, RequestShape, Closing, CanLock, CanReopen
<1>4. OverlapsKnown'
    BY <1>1 DEF IInv, TypeOK, RequestShape, OverlapsKnown, Closing
<1>5. CopiesFresh'
    BY <1>1 DEF IInv, TypeOK, RequestShape, OverlapsKnown, CopiesFresh, Closing, Changes
<1>6. /\ LocksExclude' /\ SummaryTrue'
      /\ AdjustmentTrue' /\ CorrectionAccounted' /\ PostedOnce'
    BY <1>1 DEF IInv, LocksExclude, SummaryTrue, AdjustmentTrue, CorrectionAccounted,
        Counted, PostedOnce
<1> QED BY <1>2, <1>3, <1>4, <1>5, <1>6 DEF IInv

\* The copy is of what is approved, under the lock of the month's row.
LEMMA SnapshotKeeps ==
    ASSUME IInv, NEW s \in Sessions, Snapshot(s)
    PROVE  IInv'
<1> SUFFICES ASSUME ~Refuse(s) PROVE IInv'
    BY RefuseKeeps
<1>1. /\ CanLock /\ PeriodFree(s) /\ pc[s] = "locking"
      /\ copy' = [copy EXCEPT ![s].done = {c \in Changes : change[c] = "done"}]
      /\ held' = [held EXCEPT ![s] = {"period"}]
      /\ pc' = [pc EXCEPT ![s] = "committing"]
      /\ UNCHANGED <<period, summaries, change, adjustment, run, slip, shown, call, overlapped>>
    BY DEF Snapshot, Goto, db
<1>2. TypeOK'
  <2>1. copy' \in [Sessions -> Copies]
    <3>1. {c \in Changes : change[c] = "done"} \in SUBSET Changes
      OBVIOUS
    <3> QED BY <1>1, <3>1, CopyTaken DEF IInv
  <2>2. overlapped' \subseteq Corrections
    BY <1>1 DEF IInv, TypeOK, RequestShape
  <2> QED
    BY <1>1, <2>1, <2>2 DEF IInv, TypeOK, Changes, Applied, Months, Periods, Slips, Copies,
        Verbs, Labels
<1>3. RequestShape'
    BY <1>1 DEF IInv, TypeOK, RequestShape, Closing, CanLock, CanReopen, PeriodFree
<1>4. LocksExclude'
    BY <1>1 DEF IInv, TypeOK, LocksExclude, PeriodFree
<1>5. OverlapsKnown'
    BY <1>1 DEF IInv, TypeOK, RequestShape, OverlapsKnown, Closing, PeriodFree
<1>6. CopiesFresh'
    BY <1>1 DEF IInv, TypeOK, RequestShape, OverlapsKnown, CopiesFresh, Closing, Changes,
        PeriodFree
<1>7. SummaryTrue' /\ AdjustmentTrue' /\ CorrectionAccounted' /\ PostedOnce'
    BY <1>1 DEF IInv, SummaryTrue, AdjustmentTrue, CorrectionAccounted, Counted, PostedOnce
<1> QED BY <1>2, <1>3, <1>4, <1>5, <1>6, <1>7 DEF IInv

\* The summary is the copy: no other request locked or reopened the month since it was taken,
\* and the corrections applied since are overlaps.
LEMMA CommitLockKeeps ==
    ASSUME IInv, NEW s \in Sessions, CommitLock(s)
    PROVE  IInv'
<1>1. TypeOK'
    BY DEF IInv, TypeOK, Changes, Applied, Months, Periods, Slips, Copies, Verbs, Labels,
        CommitLock, End, NoCall, NoCopy
<1>2. RequestShape'
    BY DEF IInv, TypeOK, RequestShape, Closing, CanLock, CanReopen, LocksExclude,
        CommitLock, End, NoCall, NoCopy
<1>3. LocksExclude'
    BY DEF IInv, TypeOK, LocksExclude, CommitLock, End, NoCall, NoCopy
<1>4. OverlapsKnown'
    BY DEF IInv, TypeOK, RequestShape, OverlapsKnown, Closing, CommitLock, End, NoCall,
        NoCopy
<1>5. CopiesFresh'
    BY DEF IInv, TypeOK, RequestShape, OverlapsKnown, CopiesFresh, Closing, Changes,
        LocksExclude, CommitLock, End, NoCall, NoCopy
<1>6. SummaryTrue'
  <2>1. summaries = {} /\ period.status \in {"OPEN", "REOPENED"}
    BY DEF IInv, RequestShape, CommitLock, SummaryTrue, CanLock
  <2>2. summaries' = {copy[s].done} /\ period'.status = "LOCKED"
    BY <2>1 DEF IInv, TypeOK, Months, Periods, CommitLock
  <2>3. \A c \in copy[s].done \cap Corrections : change[c] = "done"
    BY DEF IInv, CopiesFresh, CommitLock
  <2> QED BY <2>2, <2>3 DEF SummaryTrue, CommitLock
<1>7. AdjustmentTrue'
    BY DEF IInv, TypeOK, RequestShape, AdjustmentTrue, CommitLock, End, NoCall, NoCopy
<1>8. CorrectionAccounted'
    BY DEF IInv, TypeOK, RequestShape, CorrectionAccounted, Counted, CopiesFresh,
        SummaryTrue, AdjustmentTrue, CanLock, Closing, Changes, CommitLock, End, NoCall,
        NoCopy
<1>9. PostedOnce'
    BY DEF IInv, PostedOnce, CommitLock, End
<1> QED BY <1>1, <1>2, <1>3, <1>4, <1>5, <1>6, <1>7, <1>8, <1>9 DEF IInv

\* Only a locked month is reopened, and no other request is about to lock or reopen it.
LEMMA CommitReopenKeeps ==
    ASSUME IInv, NEW s \in Sessions, CommitReopen(s)
    PROVE  IInv'
<1>1. TypeOK'
    BY DEF IInv, TypeOK, Changes, Applied, Months, Periods, Slips, Copies, Verbs, Labels,
        CommitReopen, End, NoCall, NoCopy
<1>2. RequestShape'
    BY DEF IInv, TypeOK, RequestShape, Closing, CanLock, CanReopen, LocksExclude,
        CommitReopen, End, NoCall, NoCopy
<1>3. LocksExclude'
    BY DEF IInv, TypeOK, LocksExclude, CommitReopen, End, NoCall, NoCopy
<1>4. OverlapsKnown'
    BY DEF IInv, TypeOK, RequestShape, OverlapsKnown, Closing, CommitReopen, End, NoCall,
        NoCopy
<1>5. CopiesFresh'
    BY DEF IInv, TypeOK, RequestShape, OverlapsKnown, CopiesFresh, Closing, Changes,
        LocksExclude, CommitReopen, End, NoCall, NoCopy
<1>6. SummaryTrue'
    BY DEF IInv, TypeOK, RequestShape, SummaryTrue, CommitReopen, End, NoCall, NoCopy
<1>7. AdjustmentTrue'
    BY DEF IInv, TypeOK, RequestShape, AdjustmentTrue, Months, Periods, CommitReopen, End,
        NoCall, NoCopy
<1>8. CorrectionAccounted'
    BY DEF IInv, TypeOK, RequestShape, CorrectionAccounted, Counted, CommitReopen, End,
        NoCall, NoCopy
<1>9. PostedOnce'
    BY DEF IInv, PostedOnce, CommitReopen, End
<1> QED BY <1>1, <1>2, <1>3, <1>4, <1>5, <1>6, <1>7, <1>8, <1>9 DEF IInv

\* A change that is filed was in no summary and had no adjustment.
LEMMA FileKeeps ==
    ASSUME IInv, NEW c \in Changes, File(c)
    PROVE  IInv'
<1>1. TypeOK'
    BY DEF IInv, TypeOK, Changes, Applied, Months, Periods, Slips, Copies, Verbs, Labels,
        File
<1>2. RequestShape'
    BY DEF IInv, TypeOK, RequestShape, Closing, CanLock, CanReopen, File
<1>3. CopiesFresh'
    BY DEF IInv, TypeOK, RequestShape, OverlapsKnown, CopiesFresh, Closing, Changes, File
<1>4. SummaryTrue'
    BY DEF IInv, TypeOK, RequestShape, SummaryTrue, File
<1>5. AdjustmentTrue'
    BY DEF IInv, TypeOK, RequestShape, AdjustmentTrue, File
<1>6. CorrectionAccounted'
    BY DEF IInv, TypeOK, RequestShape, CorrectionAccounted, Counted, File
<1>7. LocksExclude' /\ OverlapsKnown' /\ PostedOnce'
    BY DEF IInv, LocksExclude, OverlapsKnown, Closing, PostedOnce, File
<1> QED BY <1>1, <1>2, <1>3, <1>4, <1>5, <1>6, <1>7 DEF IInv

\* A decided change was pending, and a correction being applied is locked.
LEMMA DecideKeeps ==
    ASSUME IInv, NEW c \in Changes, Decide(c)
    PROVE  IInv'
<1>1. TypeOK'
    BY DEF IInv, TypeOK, Changes, Applied, Months, Periods, Slips, Copies, Verbs, Labels,
        Decide, ChangeFree
<1>2. RequestShape'
    BY DEF IInv, TypeOK, RequestShape, Closing, CanLock, CanReopen, Decide, ChangeFree,
        Changes
<1>3. CopiesFresh'
    BY DEF IInv, TypeOK, RequestShape, OverlapsKnown, CopiesFresh, Closing, Changes, Decide,
        ChangeFree
<1>4. SummaryTrue'
    BY DEF IInv, TypeOK, RequestShape, SummaryTrue, Decide, ChangeFree, Changes
<1>5. AdjustmentTrue'
    BY DEF IInv, TypeOK, RequestShape, AdjustmentTrue, Decide, ChangeFree, Changes
<1>6. CorrectionAccounted'
    BY DEF IInv, TypeOK, RequestShape, CorrectionAccounted, Counted, Decide, ChangeFree,
        Changes
<1>7. LocksExclude' /\ OverlapsKnown' /\ PostedOnce'
    BY DEF IInv, LocksExclude, OverlapsKnown, Closing, PostedOnce, Decide
<1> QED BY <1>1, <1>2, <1>3, <1>4, <1>5, <1>6, <1>7 DEF IInv

\* What a correction reads of the month is so, unless it is an overlap.
LEMMA IsMonthLockedKeeps ==
    ASSUME IInv, NEW s \in Sessions, NEW c \in Corrections, IsMonthLocked(s, c)
    PROVE  IInv'
<1>1. /\ change[c] = "pending" /\ ChangeFree(c) /\ Begin(s, "CORRECT", c, "applying")
      /\ copy' = [copy EXCEPT ![s].month = period.status]
      /\ held' = [held EXCEPT ![s] = {c}]
      /\ UNCHANGED <<period, summaries, change, adjustment, run, slip, shown>>
    BY DEF IsMonthLocked, db
<1>2. TypeOK'
  <2>1. copy' \in [Sessions -> Copies]
    BY <1>1 DEF IInv, TypeOK, Periods, Copies
  <2>2. overlapped' \subseteq Corrections
    BY <1>1 DEF IInv, TypeOK, RequestShape, Begin, Serving
  <2>3. pc' \in [Sessions -> Labels] /\ held' \in [Sessions -> SUBSET ({"period"} \cup Changes)]
    BY <1>1 DEF IInv, TypeOK, Begin, Labels, Changes
  <2>4. call' \in [Sessions -> [verb : Verbs, on : {"none"} \cup Changes \cup Runs]]
    BY <1>1 DEF IInv, TypeOK, Begin, Verbs, Changes
  <2> QED BY <1>1, <2>1, <2>2, <2>3, <2>4 DEF IInv, TypeOK
<1>3. RequestShape'
    BY <1>1 DEF IInv, TypeOK, RequestShape, Closing, CanLock, CanReopen, Begin, Serving,
        ChangeFree, Changes
<1>4. LocksExclude'
    BY <1>1 DEF IInv, TypeOK, LocksExclude, Begin, Serving, ChangeFree, Changes
<1>5. OverlapsKnown'
    BY <1>1 DEF IInv, TypeOK, RequestShape, OverlapsKnown, Closing, Begin, Serving,
        ChangeFree, Changes
<1>6. CopiesFresh'
    BY <1>1 DEF IInv, TypeOK, RequestShape, OverlapsKnown, CopiesFresh, Closing, Changes,
        Begin, Serving, ChangeFree
<1>7. AdjustmentTrue'
    BY <1>1 DEF IInv, TypeOK, RequestShape, AdjustmentTrue, Begin, Serving, ChangeFree,
        Changes
<1>8. CorrectionAccounted'
    BY <1>1 DEF IInv, TypeOK, RequestShape, CorrectionAccounted, Counted, Begin, Serving,
        ChangeFree, Changes
<1>9. SummaryTrue' /\ PostedOnce'
    BY <1>1 DEF IInv, SummaryTrue, PostedOnce, Begin
<1> QED BY <1>2, <1>3, <1>4, <1>5, <1>6, <1>7, <1>8, <1>9 DEF IInv

\* The correction has an adjustment if the month is locked, or is an overlap.
LEMMA CommitCorrectionKeeps ==
    ASSUME IInv, NEW s \in Sessions, CommitCorrection(s)
    PROVE  IInv'
<1>1. TypeOK'
    BY DEF IInv, TypeOK, Changes, Applied, Months, Periods, Slips, Copies, Verbs, Labels,
        CommitCorrection, End, NoCall, NoCopy
<1>2. RequestShape'
    BY DEF IInv, TypeOK, RequestShape, Closing, CanLock, CanReopen, LocksExclude,
        CommitCorrection, End, NoCall, NoCopy
<1>3. LocksExclude'
    BY DEF IInv, TypeOK, LocksExclude, CommitCorrection, End, NoCall, NoCopy
<1>4. OverlapsKnown'
    BY DEF IInv, TypeOK, RequestShape, OverlapsKnown, Closing, CommitCorrection, End,
        NoCall, NoCopy
<1>5. CopiesFresh'
    BY DEF IInv, TypeOK, RequestShape, OverlapsKnown, CopiesFresh, Closing, Changes,
        LocksExclude, CommitCorrection, End, NoCall, NoCopy
<1>6. SummaryTrue'
    BY DEF IInv, TypeOK, RequestShape, SummaryTrue, CommitCorrection, End, NoCall, NoCopy
<1>7. AdjustmentTrue'
    BY PayrollAssumption DEF IInv, TypeOK, RequestShape, AdjustmentTrue, CopiesFresh,
        CommitCorrection, End, NoCall, NoCopy
<1>8. CorrectionAccounted'
    BY DEF IInv, TypeOK, RequestShape, CorrectionAccounted, Counted, CopiesFresh,
        SummaryTrue, AdjustmentTrue, CommitCorrection, End, NoCall, NoCopy
<1>9. PostedOnce'
    BY DEF IInv, PostedOnce, CommitCorrection, End
<1> QED BY <1>1, <1>2, <1>3, <1>4, <1>5, <1>6, <1>7, <1>8, <1>9 DEF IInv

\* A reconciliation reads no row it relies on.
LEMMA BeginReconcileKeeps ==
    ASSUME IInv, NEW s \in Sessions, NEW u \in Unscheduled, BeginReconcile(s, u)
    PROVE  IInv'
<1>1. TypeOK'
    BY DEF IInv, TypeOK, Changes, Applied, Months, Periods, Slips, Copies, Verbs, Labels,
        BeginReconcile, Begin, Serving, db
<1>2. RequestShape'
    BY DEF IInv, TypeOK, RequestShape, Closing, CanLock, CanReopen, BeginReconcile, Begin,
        Serving, db, Changes
<1>3. LocksExclude'
    BY DEF IInv, TypeOK, LocksExclude, BeginReconcile, Begin, Serving, db, Changes
<1>4. OverlapsKnown'
    BY DEF IInv, TypeOK, RequestShape, OverlapsKnown, Closing, BeginReconcile, Begin,
        Serving, db, Changes
<1>5. CopiesFresh'
    BY DEF IInv, TypeOK, RequestShape, OverlapsKnown, CopiesFresh, Closing, Changes,
        BeginReconcile, Begin, Serving, db
<1>6. SummaryTrue' /\ AdjustmentTrue' /\ CorrectionAccounted' /\ PostedOnce'
    BY DEF IInv, SummaryTrue, AdjustmentTrue, CorrectionAccounted, Counted, PostedOnce,
        BeginReconcile, Begin, db
<1> QED BY <1>1, <1>2, <1>3, <1>4, <1>5, <1>6 DEF IInv

\* Only attendance without a shift changes.
LEMMA CommitReconcileKeeps ==
    ASSUME IInv, NEW s \in Sessions, CommitReconcile(s)
    PROVE  IInv'
<1>1. TypeOK'
  <2>1. /\ period' \in Periods
        /\ summaries' \in SUBSET SUBSET Changes
        /\ change' \in [Changes -> {"none", "pending", "late", "done", "refused"}]
        /\ adjustment' \in [Corrections -> Applied]
        /\ run' \in [Runs -> {"none", "DRAFT", "POSTED"}]
        /\ slip' \in [Runs -> Slips]
        /\ shown' \in [Runs -> SUBSET Corrections]
    BY DEF IInv, TypeOK, RequestShape, Changes, Applied, Months, Periods, Slips, Copies,
        Verbs, Labels, Closing, CommitReconcile, End, NoCall, NoCopy, ChangeFree
  <2>2. /\ pc' \in [Sessions -> Labels]
        /\ call' \in [Sessions -> [verb : Verbs, on : {"none"} \cup Changes \cup Runs]]
    BY DEF IInv, TypeOK, RequestShape, Changes, Applied, Months, Periods, Slips, Copies,
        Verbs, Labels, Closing, CommitReconcile, End, NoCall, NoCopy, ChangeFree
  <2>3. /\ copy' \in [Sessions -> Copies]
        /\ held' \in [Sessions -> SUBSET ({"period"} \cup Changes)]
        /\ overlapped' \subseteq Corrections
    BY DEF IInv, TypeOK, RequestShape, Changes, Applied, Months, Periods, Slips, Copies,
        Verbs, Labels, Closing, CommitReconcile, End, NoCall, NoCopy, ChangeFree
  <2> QED BY <2>1, <2>2, <2>3 DEF TypeOK
<1>2. RequestShape'
    BY DEF IInv, TypeOK, RequestShape, Closing, CanLock, CanReopen, CommitReconcile, End,
        NoCall, NoCopy, ChangeFree, Changes
<1>3. LocksExclude'
    BY DEF IInv, TypeOK, LocksExclude, CommitReconcile, End, NoCall, NoCopy, ChangeFree,
        Changes
<1>4. OverlapsKnown'
    BY DEF IInv, TypeOK, RequestShape, OverlapsKnown, Closing, CommitReconcile, End, NoCall,
        NoCopy, ChangeFree, Changes
<1>5. CopiesFresh'
    BY PayrollAssumption DEF IInv, TypeOK, RequestShape, OverlapsKnown, CopiesFresh,
        Closing, Changes, CommitReconcile, End, NoCall, NoCopy, ChangeFree
<1>6. SummaryTrue'
    BY DEF IInv, TypeOK, RequestShape, SummaryTrue, CommitReconcile, End, NoCall, NoCopy,
        ChangeFree, Changes
<1>7. AdjustmentTrue'
    BY DEF IInv, TypeOK, RequestShape, AdjustmentTrue, CommitReconcile, End, NoCall, NoCopy,
        ChangeFree, Changes
<1>8. CorrectionAccounted'
    BY PayrollAssumption DEF IInv, TypeOK, RequestShape, CorrectionAccounted, Counted,
        CommitReconcile, End, NoCall, NoCopy, ChangeFree, Changes
<1>9. PostedOnce'
    BY DEF IInv, PostedOnce, CommitReconcile, End
<1> QED BY <1>1, <1>2, <1>3, <1>4, <1>5, <1>6, <1>7, <1>8, <1>9 DEF IInv

\* A draft has no payslip.
LEMMA OpenRunKeeps ==
    ASSUME IInv, NEW r \in Runs, OpenRun(r)
    PROVE  IInv'
<1>1. TypeOK'
    BY DEF IInv, TypeOK, Changes, Applied, Months, Periods, Slips, Copies, Verbs, Labels,
        OpenRun
<1>2. PostedOnce'
    BY DEF IInv, TypeOK, PostedOnce, OpenRun
<1>3. /\ RequestShape' /\ LocksExclude' /\ OverlapsKnown'
      /\ CopiesFresh' /\ SummaryTrue' /\ AdjustmentTrue' /\ CorrectionAccounted'
    BY DEF IInv, RequestShape, Closing, CanLock, CanReopen, LocksExclude, OverlapsKnown,
        CopiesFresh, SummaryTrue, AdjustmentTrue, CorrectionAccounted, Counted, OpenRun
<1> QED BY <1>1, <1>2, <1>3 DEF IInv

\* The lines are corrections.
LEMMA AssembleKeeps ==
    ASSUME IInv, NEW r \in Runs, Assemble(r)
    PROVE  IInv'
<1>1. TypeOK'
    BY DEF IInv, TypeOK, Changes, Applied, Months, Periods, Slips, Copies, Verbs, Labels,
        Assemble
<1>2. /\ RequestShape' /\ LocksExclude' /\ OverlapsKnown' /\ CopiesFresh'
      /\ SummaryTrue' /\ AdjustmentTrue' /\ CorrectionAccounted' /\ PostedOnce'
    BY DEF IInv, RequestShape, Closing, CanLock, CanReopen, LocksExclude, OverlapsKnown,
        CopiesFresh, SummaryTrue, AdjustmentTrue, CorrectionAccounted, Counted, PostedOnce,
        Assemble
<1> QED BY <1>1, <1>2 DEF IInv

\* The lines shown become the request's copy.
LEMMA BeginPostKeeps ==
    ASSUME IInv, NEW s \in Sessions, NEW r \in Runs, BeginPost(s, r)
    PROVE  IInv'
<1>1. /\ Begin(s, "POST", r, "posting")
      /\ copy' = [copy EXCEPT ![s].done = shown[r]]
      /\ UNCHANGED <<period, summaries, change, adjustment, run, slip, shown, held>>
    BY DEF BeginPost, db
<1>2. TypeOK'
  <2>1. copy' \in [Sessions -> Copies]
    <3>1. shown[r] \in SUBSET Changes
      BY DEF IInv, TypeOK, Changes
    <3> QED BY <1>1, <3>1, CopyTaken DEF IInv
  <2>2. overlapped' \subseteq Corrections
    BY <1>1 DEF IInv, TypeOK, RequestShape, Begin, Serving
  <2> QED
    BY <1>1, <2>1, <2>2 DEF IInv, TypeOK, Changes, Applied, Months, Periods, Slips, Copies,
        Verbs, Labels, Begin, Serving
<1>3. RequestShape'
    BY <1>1 DEF IInv, TypeOK, RequestShape, Closing, CanLock, CanReopen, Begin, Serving
<1>4. LocksExclude'
    BY <1>1 DEF IInv, TypeOK, LocksExclude, Begin, Serving
<1>5. OverlapsKnown'
    BY <1>1 DEF IInv, TypeOK, RequestShape, OverlapsKnown, Closing, Begin, Serving
<1>6. CopiesFresh'
    BY <1>1 DEF IInv, TypeOK, RequestShape, OverlapsKnown, CopiesFresh, Closing, Changes,
        Begin, Serving
<1>7. SummaryTrue' /\ AdjustmentTrue' /\ CorrectionAccounted' /\ PostedOnce'
    BY <1>1 DEF IInv, SummaryTrue, AdjustmentTrue, CorrectionAccounted, Counted, PostedOnce,
        Begin
<1> QED BY <1>2, <1>3, <1>4, <1>5, <1>6, <1>7 DEF IInv

\* A draft becomes posted with one payslip; adjustments stay adjustments.
LEMMA CommitPostKeeps ==
    ASSUME IInv, NEW s \in Sessions, CommitPost(s)
    PROVE  IInv'
<1> SUFFICES ASSUME ~Refuse(s) PROVE IInv'
    BY RefuseKeeps
<1>1. /\ pc[s] = "posting" /\ run[call[s].on] = "DRAFT" /\ call[s].on \in Runs
      /\ run' = [run EXCEPT ![call[s].on] = "POSTED"]
      /\ slip' = [slip EXCEPT ![call[s].on].count = @ + 1]
      /\ adjustment' = MarkAdjustmentsApplied(copy[s].done, call[s].on)
      /\ shown' = [shown EXCEPT ![call[s].on] = {}]
      /\ End(s)
      /\ UNCHANGED <<period, summaries, change>>
    BY DEF IInv, RequestShape, CommitPost, IsDraft
<1>2. TypeOK'
  <2>1. adjustment' \in [Corrections -> Applied]
    BY <1>1 DEF IInv, TypeOK, MarkAdjustmentsApplied, Applied
  <2>2. /\ run' \in [Runs -> {"none", "DRAFT", "POSTED"}]
       /\ shown' \in [Runs -> SUBSET Corrections]
    BY <1>1 DEF IInv, TypeOK
  <2>3. slip' \in [Runs -> Slips]
    <3>1. [slip[call[s].on] EXCEPT !.count = @ + 1] \in Slips
      BY <1>1, CountedSlip DEF IInv, TypeOK
    <3> QED BY <1>1, <3>1 DEF IInv, TypeOK
  <2>4. pc' \in [Sessions -> Labels] /\ held' \in [Sessions -> SUBSET ({"period"} \cup Changes)]
    BY <1>1 DEF IInv, TypeOK, End, Labels
  <2>5. call' \in [Sessions -> [verb : Verbs, on : {"none"} \cup Changes \cup Runs]]
    BY <1>1 DEF IInv, TypeOK, End, NoCall, Verbs
  <2>6. copy' \in [Sessions -> Copies]
    BY <1>1 DEF IInv, TypeOK, End, NoCopy, Months, Copies
  <2> QED BY <1>1, <2>1, <2>2, <2>3, <2>4, <2>5, <2>6 DEF IInv, TypeOK, End
<1>3. RequestShape'
    BY <1>1 DEF IInv, TypeOK, RequestShape, Closing, CanLock, CanReopen, End, NoCall,
        NoCopy, MarkAdjustmentsApplied
<1>4. LocksExclude'
    BY <1>1 DEF IInv, TypeOK, LocksExclude, End, NoCall, NoCopy, MarkAdjustmentsApplied
<1>5. OverlapsKnown'
    BY <1>1 DEF IInv, TypeOK, RequestShape, OverlapsKnown, Closing, Changes, End, NoCall,
        NoCopy, MarkAdjustmentsApplied
<1>6. CopiesFresh'
    BY <1>1 DEF IInv, TypeOK, RequestShape, OverlapsKnown, CopiesFresh, Closing, Changes,
        Slips, End, NoCall, NoCopy, MarkAdjustmentsApplied
<1>7. AdjustmentTrue'
    BY <1>1 DEF IInv, TypeOK, RequestShape, AdjustmentTrue, End, NoCall, NoCopy,
        MarkAdjustmentsApplied
<1>8. CorrectionAccounted'
    BY <1>1, PayrollAssumption DEF IInv, TypeOK, RequestShape, CorrectionAccounted, Counted,
        End, NoCall, NoCopy, MarkAdjustmentsApplied
<1>9. PostedOnce'
    BY <1>1 DEF IInv, TypeOK, PostedOnce, Slips, End, NoCall, NoCopy, MarkAdjustmentsApplied
<1>10. SummaryTrue'
    BY <1>1 DEF IInv, SummaryTrue, End
<1> QED BY <1>2, <1>3, <1>4, <1>5, <1>6, <1>7, <1>8, <1>9, <1>10 DEF IInv

\* Reading a payslip changes no row.
LEMMA BeginPayKeeps ==
    ASSUME IInv, NEW s \in Sessions, NEW r \in Runs, BeginPay(s, r)
    PROVE  IInv'
<1>1. TypeOK'
    BY DEF IInv, TypeOK, Changes, Applied, Months, Periods, Slips, Copies, Verbs, Labels,
        BeginPay, Begin, Serving, db
<1>2. RequestShape'
    BY DEF IInv, TypeOK, RequestShape, Closing, CanLock, CanReopen, BeginPay, Begin,
        Serving, db
<1>3. LocksExclude'
    BY DEF IInv, TypeOK, LocksExclude, BeginPay, Begin, Serving, db
<1>4. OverlapsKnown'
    BY DEF IInv, TypeOK, RequestShape, OverlapsKnown, Closing, BeginPay, Begin, Serving, db
<1>5. CopiesFresh'
    BY DEF IInv, TypeOK, RequestShape, OverlapsKnown, CopiesFresh, Closing, Changes,
        BeginPay, Begin, Serving, db
<1>6. SummaryTrue' /\ AdjustmentTrue' /\ CorrectionAccounted' /\ PostedOnce'
    BY DEF IInv, SummaryTrue, AdjustmentTrue, CorrectionAccounted, Counted, PostedOnce,
        BeginPay, Begin, db
<1> QED BY <1>1, <1>2, <1>3, <1>4, <1>5, <1>6 DEF IInv

\* A payment leaves the payslips of a run as they are.
LEMMA RecordPaymentKeeps ==
    ASSUME IInv, NEW s \in Sessions, RecordPayment(s)
    PROVE  IInv'
<1>1. TypeOK'
  <2>1. /\ period' \in Periods
        /\ summaries' \in SUBSET SUBSET Changes
        /\ change' \in [Changes -> {"none", "pending", "late", "done", "refused"}]
        /\ adjustment' \in [Corrections -> Applied]
        /\ run' \in [Runs -> {"none", "DRAFT", "POSTED"}]
        /\ shown' \in [Runs -> SUBSET Corrections]
    BY DEF IInv, TypeOK, RequestShape, Changes, Applied, Months, Periods, Slips, Copies,
        Verbs, Labels, Closing, RecordPayment, End, NoCall, NoCopy
  <2>2. slip' \in [Runs -> Slips]
    BY DEF IInv, TypeOK, RequestShape, Changes, Applied, Months, Periods, Slips, Copies,
        Verbs, Labels, Closing, RecordPayment, End, NoCall, NoCopy
  <2>3. /\ pc' \in [Sessions -> Labels]
        /\ call' \in [Sessions -> [verb : Verbs, on : {"none"} \cup Changes \cup Runs]]
    BY DEF IInv, TypeOK, RequestShape, Changes, Applied, Months, Periods, Slips, Copies,
        Verbs, Labels, Closing, RecordPayment, End, NoCall, NoCopy
  <2>4. /\ copy' \in [Sessions -> Copies]
        /\ held' \in [Sessions -> SUBSET ({"period"} \cup Changes)]
        /\ overlapped' \subseteq Corrections
    BY DEF IInv, TypeOK, RequestShape, Changes, Applied, Months, Periods, Slips, Copies,
        Verbs, Labels, Closing, RecordPayment, End, NoCall, NoCopy
  <2> QED BY <2>1, <2>2, <2>3, <2>4 DEF TypeOK
<1>2. RequestShape'
    BY DEF IInv, TypeOK, RequestShape, Closing, CanLock, CanReopen, RecordPayment, End,
        NoCall, NoCopy
<1>3. LocksExclude'
    BY DEF IInv, TypeOK, LocksExclude, RecordPayment, End, NoCall, NoCopy
<1>4. OverlapsKnown'
    BY DEF IInv, TypeOK, RequestShape, OverlapsKnown, Closing, RecordPayment, End, NoCall,
        NoCopy
<1>5. CopiesFresh'
    BY DEF IInv, TypeOK, RequestShape, OverlapsKnown, CopiesFresh, Closing, Changes,
        RecordPayment, End, NoCall, NoCopy
<1>6. PostedOnce'
    BY DEF IInv, TypeOK, PostedOnce, RecordPayment, End, NoCall, NoCopy
<1>7. SummaryTrue' /\ AdjustmentTrue' /\ CorrectionAccounted'
    BY DEF IInv, SummaryTrue, AdjustmentTrue, CorrectionAccounted, Counted, RecordPayment,
        End
<1> QED BY <1>1, <1>2, <1>3, <1>4, <1>5, <1>6, <1>7 DEF IInv

\* A void leaves the payslips of a run as they are.
LEMMA VoidPaymentKeeps ==
    ASSUME IInv, NEW r \in Runs, VoidPayment(r)
    PROVE  IInv'
<1>1. TypeOK'
    BY PayrollAssumption DEF IInv, TypeOK, Changes, Applied, Months, Periods, Slips, Copies,
        Verbs, Labels, VoidPayment, Voidable
<1>2. PostedOnce'
    BY DEF IInv, TypeOK, PostedOnce, VoidPayment, Voidable
<1>3. /\ RequestShape' /\ LocksExclude' /\ OverlapsKnown'
      /\ CopiesFresh' /\ SummaryTrue' /\ AdjustmentTrue' /\ CorrectionAccounted'
    BY DEF IInv, RequestShape, Closing, CanLock, CanReopen, LocksExclude, OverlapsKnown,
        CopiesFresh, SummaryTrue, AdjustmentTrue, CorrectionAccounted, Counted, VoidPayment
<1> QED BY <1>1, <1>2, <1>3 DEF IInv

\* A month nobody has looked at.
LEMMA InitHolds == Init => IInv
<1> SUFFICES ASSUME Init PROVE IInv
    OBVIOUS
<1>1. TypeOK
    BY DEF Init, TypeOK, Changes, Applied, Months, Periods, Slips, Copies, Verbs, Labels,
        NoCall, NoCopy, NoSlip
<1>2. RequestShape /\ LocksExclude /\ OverlapsKnown /\ CopiesFresh
    BY DEF Init, RequestShape, LocksExclude, OverlapsKnown, CopiesFresh, Closing, NoCall
<1>3. SummaryTrue /\ AdjustmentTrue /\ CorrectionAccounted
    BY DEF Init, SummaryTrue, AdjustmentTrue, CorrectionAccounted
<1>4. PostedOnce
    BY DEF Init, PostedOnce, NoSlip
<1> QED BY <1>1, <1>2, <1>3, <1>4 DEF IInv

\* A session's steps, whether they succeed or are rolled back.
LEMMA SessionKeeps ==
    ASSUME IInv, NEW s \in Sessions, Serve(s) \/ Step(s) \/ Rollback(s)
    PROVE  IInv'
<1>1. CASE Serve(s)
  <2>1. CASE \E verb \in {"LOCK", "REOPEN"} : BeginPeriod(s, verb)
    BY <2>1, BeginPeriodKeeps
  <2>2. CASE \E c \in Corrections : IsMonthLocked(s, c)
    BY <2>2, IsMonthLockedKeeps
  <2>3. CASE \E c \in Unscheduled : BeginReconcile(s, c)
    BY <2>3, BeginReconcileKeeps
  <2>4. CASE \E r \in Runs : BeginPost(s, r) \/ BeginPay(s, r)
    BY <2>4, BeginPostKeeps, BeginPayKeeps
  <2> QED BY <1>1, <2>1, <2>2, <2>3, <2>4 DEF Serve
<1>2. CASE Step(s)
  <2>1. CASE GetPeriodForUpdate(s)
    BY <2>1, GetPeriodForUpdateKeeps
  <2>2. CASE CreatePeriod(s)
    BY <2>2, CreatePeriodKeeps
  <2>3. CASE CountFieldBlockers(s)
    BY <2>3, CountFieldBlockersKeeps
  <2>4. CASE Snapshot(s)
    BY <2>4, SnapshotKeeps
  <2>5. CASE CommitLock(s)
    BY <2>5, CommitLockKeeps
  <2>6. CASE CommitReopen(s)
    BY <2>6, CommitReopenKeeps
  <2>7. CASE CommitCorrection(s)
    BY <2>7, CommitCorrectionKeeps
  <2>8. CASE CommitReconcile(s)
    BY <2>8, CommitReconcileKeeps
  <2>9. CASE CommitPost(s)
    BY <2>9, CommitPostKeeps
  <2>10. CASE RecordPayment(s)
    BY <2>10, RecordPaymentKeeps
  <2> QED BY <1>2, <2>1, <2>2, <2>3, <2>4, <2>5, <2>6, <2>7, <2>8, <2>9, <2>10 DEF Step
<1>3. CASE Rollback(s)
    BY <1>3, RefuseKeeps DEF Rollback
<1> QED BY <1>1, <1>2, <1>3

\* IInv is inductive.
LEMMA StepKeeps == IInv /\ [Next]_vars => IInv'
<1> SUFFICES ASSUME IInv, [Next]_vars PROVE IInv'
    OBVIOUS
<1>1. CASE GetOrCreatePeriod
    BY <1>1, GetOrCreatePeriodKeeps
<1>2. CASE \E s \in Sessions : Serve(s) \/ Step(s) \/ Rollback(s)
    BY <1>2, SessionKeeps
<1>3. CASE \E c \in Changes : File(c) \/ Decide(c)
    BY <1>3, FileKeeps, DecideKeeps
<1>4. CASE \E r \in Runs : OpenRun(r) \/ Assemble(r) \/ VoidPayment(r)
    BY <1>4, OpenRunKeeps, AssembleKeeps, VoidPaymentKeeps
<1>5. CASE UNCHANGED vars
    BY <1>5 DEF vars, IInv, TypeOK, RequestShape, LocksExclude, OverlapsKnown, CopiesFresh,
        SummaryTrue, AdjustmentTrue, CorrectionAccounted, Counted, PostedOnce, Closing,
        CanLock, CanReopen
<1> QED BY <1>1, <1>2, <1>3, <1>4, <1>5 DEF Next

-----------------------------------------------------------------------------
(* The theorems.                                                           *)

\* The inductive invariant holds of every reachable state.
THEOREM Invariance == Spec => []IInv
<1> QED BY InitHolds, StepKeeps, PTL DEF Spec

\* Rows, requests and what they have read keep their types, for every month, run and
\* number of requests.
THEOREM TypeCorrect == Spec => []TypeOK
<1>1. IInv => TypeOK
    BY DEF IInv
<1> QED BY <1>1, Invariance, PTL

\* PR-12: however many requests post a run, it has one payslip.
THEOREM RunPostedOnce == Spec => []PostedOnce
<1>1. IInv => PostedOnce
    BY DEF IInv
<1> QED BY <1>1, Invariance, PTL

\* PC-8, PC-9: no correction is lost from a locked month but the overlaps, and none is
\* counted twice in a month that was never reopened.
THEOREM CorrectionsAccounted == Spec => []CorrectionAccounted
<1>1. IInv => CorrectionAccounted
    BY DEF IInv
<1> QED BY <1>1, Invariance, PTL

\* What an action does to an adjustment: a correction's commit gives one to a correction
\* that had none, and a run takes those that wait.
LEMMA AdjustmentStep ==
    ASSUME IInv, Next, NEW c \in Corrections, adjustment[c] \in Runs
    PROVE  adjustment'[c] = adjustment[c]
<1>1. CASE \E s \in Sessions : CommitCorrection(s)
  <2>1. PICK s \in Sessions : CommitCorrection(s)
    BY <1>1
  <2>2. call[s].on # c
    BY <2>1, PayrollAssumption DEF IInv, RequestShape, AdjustmentTrue, CommitCorrection
  <2> QED BY <2>1, <2>2 DEF IInv, TypeOK, CommitCorrection
<1>2. CASE \E s \in Sessions : CommitPost(s)
    BY <1>2, PayrollAssumption DEF IInv, TypeOK, CommitPost, MarkAdjustmentsApplied, Refuse,
        db
<1>3. CASE ~\E s \in Sessions : CommitCorrection(s) \/ CommitPost(s)
  <2>1. UNCHANGED adjustment
    BY <1>3 DEF Next, Serve, Step, Rollback, Refuse, Goto, db, GetOrCreatePeriod,
        BeginPeriod, GetPeriodForUpdate, CreatePeriod, CountFieldBlockers, Snapshot,
        CommitLock, CommitReopen, File, Decide, IsMonthLocked, BeginReconcile,
        CommitReconcile, OpenRun, Assemble, BeginPost, BeginPay, RecordPayment, VoidPayment
  <2> QED BY <2>1
<1> QED BY <1>1, <1>2, <1>3

\* C-PC-7: an adjustment that a run has applied stays that run's.
THEOREM AdjustmentAppliedOnce == Spec => AppliedOnce
<1>1. IInv /\ [Next]_vars =>
          [\A c \in Corrections : adjustment[c] \in Runs => adjustment'[c] = adjustment[c]]_vars
    BY AdjustmentStep DEF vars
<1> QED BY <1>1, Invariance, PTL DEF Spec, AppliedOnce

-----------------------------------------------------------------------------
(* The order of the waits.                                                 *)

\* Rows are locked by a request for the month that has found it, and by a correction.
HoldersStand ==
    \A s \in Sessions :
        held[s] # {} =>
            /\ pc[s] \in {"counting", "locking", "committing", "reopening", "applying"}
            /\ pc[s] # "applying" => "period" \in held[s]

\* s stands before a row that t has locked.
Waits(s, t) ==
    /\ s # t
    /\ \/ pc[s] \in {"fetching", "locking"} /\ "period" \in held[t]
       \/ pc[s] = "reconciling" /\ call[s].on \in held[t]

\* The guard of one of its steps holds.
Ready(s) ==
    \/ pc[s] \in {"creating", "counting", "committing", "reopening", "applying",
                  "posting", "paying"}
    \/ pc[s] \in {"fetching", "locking"} /\ PeriodFree(s)
    \/ pc[s] = "reconciling" /\ ChangeFree(call[s].on)

\* Whoever is busy can go on, or waits for one who can.
SomebodyGoesOn ==
    \A s \in Sessions :
        pc[s] # "idle" => Ready(s) \/ \E t \in Sessions : Waits(s, t) /\ Ready(t)

\* Who holds a row asks for no other: a request to close the month asks twice for the same.
OnlyFreeHold == \A s, t, u \in Sessions : Waits(s, t) => ~Waits(t, u)

\* A step of one request leaves the others' locks where they are.
LEMMA SessionHolds ==
    ASSUME IInv, HoldersStand, NEW s \in Sessions, Serve(s) \/ Step(s) \/ Rollback(s)
    PROVE  HoldersStand'
<1> USE DEF IInv, TypeOK, HoldersStand
<1>1. CASE Refuse(s)
    BY <1>1 DEF Refuse, End
<1>2. CASE Serve(s)
    BY <1>2 DEF Serve, BeginPeriod, IsMonthLocked, BeginReconcile, BeginPost, BeginPay, Begin
<1>3. CASE GetPeriodForUpdate(s)
    <2>1. CASE held' = held /\ Goto(s, "creating")
        BY <1>3, <2>1 DEF GetPeriodForUpdate, Goto
    <2>2. CASE /\ held' = [held EXCEPT ![s] = {"period"}]
               /\ Goto(s, "reopening") \/ Goto(s, "counting")
        BY <2>2 DEF Goto
    <2> QED BY <1>1, <1>3, <2>1, <2>2 DEF GetPeriodForUpdate
<1>4. CASE CreatePeriod(s)
    BY <1>1, <1>4 DEF CreatePeriod, Goto
<1>5. CASE CountFieldBlockers(s)
    BY <1>1, <1>5 DEF CountFieldBlockers, Goto
<1>6. CASE Snapshot(s)
    BY <1>1, <1>6 DEF Snapshot, Goto
<1>7. CASE End(s)
    BY <1>7 DEF End
<1>8. CASE \/ CommitLock(s) \/ CommitReopen(s) \/ CommitCorrection(s) \/ CommitReconcile(s)
           \/ CommitPost(s) \/ RecordPayment(s) \/ Rollback(s)
    BY <1>1, <1>7, <1>8 DEF CommitLock, CommitReopen, CommitCorrection, CommitReconcile,
        CommitPost, RecordPayment, Rollback
<1> QED BY <1>2, <1>3, <1>4, <1>5, <1>6, <1>8 DEF Step

\* Only requests take and release locks.
LEMMA HoldingKept == IInv /\ HoldersStand /\ [Next]_vars => HoldersStand'
<1> SUFFICES ASSUME IInv, HoldersStand, [Next]_vars PROVE HoldersStand'
    OBVIOUS
<1>1. CASE \E s \in Sessions : Serve(s) \/ Step(s) \/ Rollback(s)
    BY <1>1, SessionHolds
<1>2. CASE UNCHANGED <<pc, held>>
    BY <1>2 DEF HoldersStand
<1> QED BY <1>1, <1>2 DEF Next, vars, GetOrCreatePeriod, File, Decide, OpenRun, Assemble,
        VoidPayment

\* Where a request has locked rows is known of every reachable state.
THEOREM HoldersKnown == Spec => []HoldersStand
<1>1. Init => HoldersStand
    BY DEF Init, HoldersStand
<1> QED BY <1>1, HoldingKept, Invariance, PTL DEF Spec

\* Whom a request waits for can go on.
LEMMA HolderReady ==
    ASSUME IInv, HoldersStand, NEW s \in Sessions, NEW t \in Sessions, Waits(s, t)
    PROVE  Ready(t)
<1>1. held[t] # {}
    BY DEF Waits
<1>2. CASE pc[t] = "locking"
    <2>1. "period" \in held[t]
        BY <1>1, <1>2 DEF HoldersStand
    <2>2. PeriodFree(t)
        BY <2>1 DEF IInv, LocksExclude, PeriodFree
    <2> QED BY <1>2, <2>2 DEF Ready
<1>3. CASE pc[t] # "locking"
    BY <1>1, <1>3 DEF HoldersStand, Ready
<1> QED BY <1>2, <1>3

\* No requests wait for each other in a circle, however many close the month, reopen it,
\* correct and reconcile it at once: whoever is waited for waits for nobody.
THEOREM NoCircleOfWaits == Spec => []OnlyFreeHold
<1>1. ASSUME IInv, HoldersStand, NEW s \in Sessions, NEW t \in Sessions, NEW u \in Sessions,
             Waits(s, t), Waits(t, u)
      PROVE  FALSE
    <2>1. Ready(t)
        BY <1>1, HolderReady
    <2>2. pc[t] \in {"fetching", "locking"} => ~PeriodFree(t)
        BY <1>1 DEF Waits, PeriodFree
    <2>3. pc[t] = "reconciling" => ~ChangeFree(call[t].on)
        BY <1>1 DEF Waits, ChangeFree
    <2> QED BY <1>1, <2>1, <2>2, <2>3 DEF Ready, Waits
<1>2. IInv /\ HoldersStand => OnlyFreeHold
    BY <1>1 DEF OnlyFreeHold
<1> QED BY <1>2, Invariance, HoldersKnown, PTL

\* Every busy request can take a step of its own, or the one it waits for can.
THEOREM NobodyStuck == Spec => []SomebodyGoesOn
<1>1. ASSUME IInv, HoldersStand, NEW s \in Sessions, pc[s] # "idle", ~Ready(s)
      PROVE  \E t \in Sessions : Waits(s, t) /\ Ready(t)
    <2>1. CASE pc[s] \in {"fetching", "locking"}
        <3>1. PICK t \in Sessions : t # s /\ "period" \in held[t]
            BY <1>1, <2>1 DEF Ready, PeriodFree
        <3>2. Waits(s, t)
            BY <2>1, <3>1 DEF Waits
        <3> QED BY <1>1, <3>2, HolderReady
    <2>2. CASE pc[s] = "reconciling"
        <3>1. PICK t \in Sessions : call[s].on \in held[t]
            BY <1>1, <2>2 DEF Ready, ChangeFree
        <3>2. held[s] = {}
            BY <1>1, <2>2 DEF HoldersStand
        <3>3. Waits(s, t)
            BY <2>2, <3>1, <3>2 DEF Waits
        <3> QED BY <1>1, <3>3, HolderReady
    <2>3. pc[s] \in Labels
        BY <1>1 DEF IInv, TypeOK
    <2> QED BY <1>1, <2>1, <2>2, <2>3 DEF Labels, Ready
<1>2. IInv /\ HoldersStand => SomebodyGoesOn
    BY <1>1 DEF SomebodyGoesOn
<1> QED BY <1>2, Invariance, HoldersKnown, PTL

\* Nothing but a ready request takes a step: Ready asks for no more than the guards do.
LEMMA OnlyReadyStep ==
    ASSUME NEW s \in Sessions, Step(s)
    PROVE  Ready(s)
BY DEF Step, GetPeriodForUpdate, CreatePeriod, CountFieldBlockers, Snapshot, CommitLock,
   CommitReopen, CommitCorrection, CommitReconcile, CommitPost, RecordPayment, Ready
=============================================================================
