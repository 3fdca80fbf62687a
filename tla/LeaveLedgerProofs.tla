-------------------------- MODULE LeaveLedgerProofs -------------------------
(***************************************************************************)
(* LeaveLedger for any number of requests and sessions, any spans, roster, *)
(* entitlements and adjustments: its rows keep their types, a request and  *)
(* its approval instance agree, the days of an approved leave are marked,  *)
(* no submission or approval takes days that the window does not have,     *)
(* what the window counts is what the requests charge, and the engine is   *)
(* used as its contract says.                                              *)
(***************************************************************************)
EXTENDS LeaveLedger, TLAPS, FiniteSetTheorems

-----------------------------------------------------------------------------
(* The inductive invariant.                                                *)

Creations == {"DRAFT", "FILE"}
Hooks == {"APPROVE", "REJECT"}
Locking == {"SUBMIT", "CANCEL", "CANCEL_APPROVED", "SHORTEN"} \cup Hooks
Verbs == {"NONE", "ADJUST"} \cup Creations \cup Locking

ChainRows == [status : {"NONE", "PENDING", "APPROVED", "REJECTED"}, line : Nat, count : Nat,
              templated : BOOLEAN, version : Nat]

\* What the sessions keep.
SessionsTyped ==
    /\ pc \in [Sessions -> {"idle", "locking", "metering", "opening", "writing"}]
    /\ call \in [Sessions -> [verb : Verbs, req : Requests, arg : Int]]
    /\ row \in [Sessions -> RequestRows]
    /\ win \in [Sessions -> WindowRows]
    /\ held \in [Sessions -> SUBSET {"instance", "request", "window"}]

\* What the tables keep.
RowsTyped ==
    /\ request \in [Requests -> RequestRows]
    /\ window \in WindowRows
    /\ leaveDays \in [Dates -> SUBSET Requests]
    /\ chain \in [Requests -> ChainRows]
    /\ effect \in [Requests -> Seq({"OnApproved", "OnRejected"})]

\* Where a session stands says which rows it has locked, and that one about to charge
\* or refund the window has found it.
CallShape ==
    \A s \in Sessions :
        /\ pc[s] = "idle" <=> call[s].verb = "NONE"
        /\ pc[s] = "locking" => call[s].verb \in Locking
        /\ pc[s] = "opening" => Opens(call[s].verb)
        /\ "instance" \in held[s] <=> call[s].verb \in Hooks
        /\ "request" \in held[s] <=> call[s].verb \in Locking /\ pc[s] # "locking"
        /\ "window" \in held[s] <=> win[s].open
        /\ win[s].open => pc[s] = "writing"
        /\ pc[s] = "writing" /\ call[s].verb \notin {"DRAFT", "CANCEL"} => win[s].open

\* No row is locked by two sessions, and none creates what another creates.
LocksExclude ==
    \A s, t \in Sessions :
        s # t =>
            /\ ~ ("window" \in held[s] /\ "window" \in held[t])
            /\ call[s].req = call[t].req =>
                  /\ ~ ("request" \in held[s] /\ "request" \in held[t])
                  /\ ~ ("instance" \in held[s] /\ "instance" \in held[t])
                  /\ ~ (call[s].verb \in Creations /\ call[t].verb \in Creations)

\* What a session has read under a lock is still so, and what it creates is still new.
Fresh(s) ==
    /\ call[s].verb \in Creations =>
          /\ request[call[s].req].status = "NONE"
          /\ row[s].status = "DRAFT"
          /\ row[s].first..row[s].last \subseteq Dates
    /\ "instance" \in held[s] => chain[call[s].req].status = "PENDING"
    /\ "request" \in held[s] => row[s] = request[call[s].req] /\ Proceeds(s)
    /\ "window" \in held[s] => win[s].used = window.used /\ win[s].pending = window.pending

CopiesFresh == \A s \in Sessions : Fresh(s)

\* The window is open once a request was charged to it.
WindowOpened == \A r \in Requests : request[r].status \in {"PENDING", "APPROVED"} => window.open

\* Requests ask for known dates.
DatesKnown ==
    \A r \in Requests :
        request[r].status # "NONE" => request[r].first..request[r].last \subseteq Dates

IInv ==
    /\ SessionsTyped /\ RowsTyped /\ CallShape /\ LocksExclude /\ CopiesFresh
    /\ WindowOpened /\ DatesKnown /\ StatusFollowsInstance /\ LeaveDaysMarked

-----------------------------------------------------------------------------
(* The operators.                                                          *)

\* A count of days is natural.
LEMMA DurationNat ==
    ASSUME NEW first \in Nat, NEW last \in Nat
    PROVE  Duration(first, last) \in Nat
<1>1. IsFiniteSet(first..last)
    BY FS_Interval
<1>2. \A S \in SUBSET (first..last) : Cardinality(S) \in Nat
    BY <1>1, FS_Subset, FS_CardinalityType
<1>3. /\ {d \in first..last : d \in Roster /\ leaveDays[d] = {}} \in SUBSET (first..last)
      /\ (first..last) \cap WorkingDays \in SUBSET (first..last)
    OBVIOUS
<1> QED BY <1>2, <1>3 DEF Duration

\* The counters of a window that a meter's update leaves.
LEMMA Counters ==
    ASSUME NEW w \in WindowRows, NEW d \in Nat
    PROVE  /\ Less(w.used, d) \in Nat
           /\ Less(w.pending, d) \in Nat
BY DEF WindowRows, Less

\* The meter's updates keep the counters natural, and an open window open.
LEMMA MeterTyped ==
    ASSUME NEW w \in WindowRows, NEW d \in Nat
    PROVE  \A v \in {Reserved(w, d), Committed(w, d), Released(w, d), Reversed(w, d)} :
              v \in WindowRows /\ v.open = w.open
<1>1. /\ w.used \in Nat /\ w.pending \in Nat
      /\ w.used + d \in Nat /\ w.pending + d \in Nat
    BY DEF WindowRows
<1>2. \A n \in Nat : /\ [w EXCEPT !.used = n] \in WindowRows
                   /\ [w EXCEPT !.pending = n] \in WindowRows
    BY DEF WindowRows
<1>3. \A m, n \in Nat : [w EXCEPT !.pending = m, !.used = n] \in WindowRows
    BY DEF WindowRows
<1>4. /\ Reserved(w, d) \in WindowRows /\ Released(w, d) \in WindowRows
      /\ Reversed(w, d) \in WindowRows
    BY <1>1, <1>2, Counters DEF Reserved, Released, Reversed
<1>5. Committed(w, d) \in WindowRows
    BY <1>1, <1>3, Counters DEF Committed
<1> QED BY <1>4, <1>5 DEF WindowRows, Reserved, Committed, Released, Reversed

\* What the meter's updates leave in the counters.
LEMMA Metering ==
    ASSUME NEW w \in WindowRows, NEW d \in Nat
    PROVE  /\ Reserved(w, d).entitled = w.entitled
           /\ Reserved(w, d).used = w.used
           /\ Reserved(w, d).pending = w.pending + d
           /\ Committed(w, d).entitled = w.entitled
           /\ Committed(w, d).used = w.used + d
           /\ Committed(w, d).pending = Less(w.pending, d)
           /\ Released(w, d).used = w.used
           /\ Released(w, d).pending = Less(w.pending, d)
           /\ Reversed(w, d).used = Less(w.used, d)
           /\ Reversed(w, d).pending = w.pending
BY DEF WindowRows, Reserved, Committed, Released, Reversed

\* A charge that replaces another.
LEMMA Recharging ==
    ASSUME NEW w \in WindowRows, NEW d \in Nat, NEW e \in Nat
    PROVE  /\ Committed(Reversed(w, d), e).used = Less(w.used, d) + e
           /\ Committed(Reversed(w, d), e).pending = Less(w.pending, e)
<1>1. Reversed(w, d) \in WindowRows
    BY MeterTyped
<1> QED BY <1>1, Metering

\* The window's row as a session has it.
LEMMA MineTyped ==
    ASSUME SessionsTyped, RowsTyped, NEW s \in Sessions
    PROVE  /\ Mine(s) \in WindowRows
           /\ Mine(s).open = win[s].open
           /\ Mine(s).entitled = win[s].entitled
           /\ Mine(s).used = window.used
           /\ Mine(s).pending = window.pending
BY DEF SessionsTyped, RowsTyped, Mine, WindowRows

\* A session that is not in a transaction.
LEMMA Blank ==
    /\ NoCall \in [verb : Verbs, req : Requests, arg : Int]
    /\ NoCall.verb = "NONE"
    /\ NoRequest \in RequestRows
    /\ NoWindow \in WindowRows
    /\ NoWindow.open = FALSE
BY LedgerAssumption DEF NoCall, NoRequest, NoWindow, Verbs, RequestRows, Statuses,
        WindowRows

-----------------------------------------------------------------------------
(* What several actions do.                                                *)

\* Nothing but the tables decides these.
LEMMA RowsKept ==
    ASSUME IInv, UNCHANGED db
    PROVE  /\ RowsTyped' /\ WindowOpened' /\ DatesKnown'
           /\ StatusFollowsInstance' /\ LeaveDaysMarked'
BY DEF IInv, db, RowsTyped, WindowOpened, DatesKnown, StatusFollowsInstance, LeaveDaysMarked

\* A transaction that ends lets go of its locks, whatever it has written.
LEMMA EndReleases ==
    ASSUME IInv, NEW s \in Sessions, End(s)
    PROVE  /\ SessionsTyped' /\ CallShape' /\ LocksExclude'
           /\ call'[s].verb = "NONE" /\ held'[s] = {}
           /\ \A t \in Sessions \ {s} :
                 /\ call'[t] = call[t] /\ row'[t] = row[t]
                 /\ win'[t] = win[t] /\ held'[t] = held[t]
<1>1. SessionsTyped'
    BY Blank DEF IInv, SessionsTyped, End
<1>2. /\ pc'[s] = "idle" /\ call'[s] = NoCall /\ win'[s] = NoWindow /\ held'[s] = {}
      /\ \A t \in Sessions \ {s} :
            /\ pc'[t] = pc[t] /\ call'[t] = call[t] /\ row'[t] = row[t]
            /\ win'[t] = win[t] /\ held'[t] = held[t]
    BY DEF IInv, SessionsTyped, End
<1>3. CallShape'
    BY <1>2, Blank DEF IInv, CallShape, Creations, Hooks, Locking
<1>4. LocksExclude'
    BY <1>2, Blank DEF IInv, LocksExclude, Creations
<1> QED BY <1>1, <1>2, <1>3, <1>4, Blank

\* What a transaction writes under its locks is read by no other: the others' copies
\* are as fresh as they were.
LEMMA EndKeepsFresh ==
    ASSUME IInv, NEW s \in Sessions, End(s),
           \A r \in Requests \ {call[s].req} : request'[r] = request[r] /\ chain'[r] = chain[r],
           \/ UNCHANGED request
           \/ call[s].verb \in Creations
           \/ "request" \in held[s],
           \/ UNCHANGED chain
           \/ "instance" \in held[s]
           \/ chain[call[s].req].status # "PENDING",
           UNCHANGED window \/ "window" \in held[s]
    PROVE  CopiesFresh'
<1> SUFFICES ASSUME NEW t \in Sessions PROVE Fresh(t)'
    BY DEF CopiesFresh
<1>1. CASE t = s
    BY <1>1, EndReleases DEF Fresh, Creations
<1>2. CASE t # s
  <2>1. /\ call'[t] = call[t] /\ row'[t] = row[t] /\ win'[t] = win[t] /\ held'[t] = held[t]
        /\ call[t].req \in Requests
        /\ Fresh(t) /\ Fresh(s)
    BY <1>2, EndReleases DEF IInv, CopiesFresh, SessionsTyped
  <2>2. ASSUME call[t].verb \in Creations \/ "request" \in held[t]
        PROVE  request'[call[t].req] = request[call[t].req]
    <3>1. CASE call[t].req # call[s].req
      BY <2>1, <3>1
    <3>2. CASE call[t].req = call[s].req /\ ~ UNCHANGED request
      BY <1>2, <2>1, <2>2, <3>2 DEF IInv, LocksExclude, Fresh, Proceeds, Accepts
    <3> QED BY <3>1, <3>2
  <2>3. "instance" \in held[t] => chain'[call[t].req] = chain[call[t].req]
    BY <1>2, <2>1 DEF IInv, LocksExclude, Fresh
  <2>4. "window" \in held[t] => window' = window
    BY <1>2 DEF IInv, LocksExclude
  <2> QED BY <2>1, <2>2, <2>3, <2>4 DEF Fresh, Proceeds, Accepts, GoodEnd
<1> QED BY <1>1, <1>2

\* A request that is refused or rolled back leaves the tables as they are.
LEMMA EndKeeps ==
    ASSUME IInv, NEW s \in Sessions, End(s), UNCHANGED db
    PROVE  IInv'
<1>1. UNCHANGED <<request, chain, window>>
    BY DEF db
<1> QED BY <1>1, EndReleases, EndKeepsFresh, RowsKept DEF IInv

-----------------------------------------------------------------------------
(* The actions that begin a request, lock a row or read one.               *)

\* A creation is of a request that does not exist and that no other session creates.
LEMMA BeginCreateKeeps ==
    ASSUME IInv, NEW s \in Sessions, NEW r \in Requests, NEW span \in Spans,
           NEW verb \in Creations,
           BeginCreate(s, r, span, verb)
    PROVE  IInv'
<1>1. SessionsTyped'
  <2>1. span[1] \in Nat /\ span[2] \in Nat
    BY LedgerAssumption
  <2>2. [status |-> "DRAFT", first |-> span[1], last |-> span[2],
         days |-> Duration(span[1], span[2])] \in RequestRows
    BY <2>1, DurationNat DEF RequestRows, Statuses
  <2> QED BY <2>2 DEF IInv, SessionsTyped, Verbs, BeginCreate, Begin
<1>2. CallShape'
    BY DEF IInv, SessionsTyped, CallShape, Creations, Hooks, Locking, BeginCreate, Begin
<1>3. LocksExclude'
  <2>1. call'[s].req = r /\ \A t \in Sessions \ {s} : call'[t] = call[t]
    BY DEF IInv, SessionsTyped, BeginCreate, Begin
  <2>2. /\ held' = held /\ held[s] = {}
        /\ \A t \in Sessions : ~ (call[t].verb \in Creations /\ call[t].req = r)
    BY DEF IInv, SessionsTyped, CallShape, BeginCreate, Begin, Creations, Hooks, Locking
  <2> QED BY <2>1, <2>2 DEF IInv, LocksExclude
<1>4. CopiesFresh'
    BY LedgerAssumption DEF IInv, SessionsTyped, CallShape, CopiesFresh, Fresh, Proceeds,
        GoodEnd, Hooks, Locking, Dates, BeginCreate, Begin, db
<1>5. UNCHANGED db
    BY DEF BeginCreate, db
<1> QED BY <1>1, <1>2, <1>3, <1>4, <1>5, RowsKept DEF IInv

\* A session that has just begun has locked no row.
LEMMA BeginRequestKeeps ==
    ASSUME IInv, NEW s \in Sessions, NEW r \in Requests,
           NEW verb \in Locking \ Hooks, NEW arg \in Int,
           BeginRequest(s, r, verb, arg)
    PROVE  IInv'
<1>1. SessionsTyped'
    BY DEF IInv, SessionsTyped, Verbs, BeginRequest, Begin
<1>2. CallShape'
    BY DEF IInv, SessionsTyped, CallShape, Hooks, Locking, BeginRequest, Begin
<1>3. LocksExclude'
    BY DEF IInv, CallShape, LocksExclude, Creations, Hooks, Locking, BeginRequest, Begin
<1>4. CopiesFresh'
    BY DEF IInv, CallShape, CopiesFresh, Fresh, Proceeds, GoodEnd, Creations, Hooks,
        Locking, BeginRequest, Begin, db
<1>5. UNCHANGED db
    BY DEF BeginRequest, db
<1> QED BY <1>1, <1>2, <1>3, <1>4, <1>5, RowsKept DEF IInv

\* The engine has locked a pending instance.
LEMMA BeginHookKeeps ==
    ASSUME IInv, NEW s \in Sessions, NEW r \in Requests, NEW verb \in Hooks,
           BeginHook(s, r, verb)
    PROVE  IInv'
<1>1. SessionsTyped'
    BY DEF IInv, SessionsTyped, Verbs, Locking, BeginHook, Begin
<1>2. CallShape'
    BY DEF IInv, SessionsTyped, CallShape, Hooks, Locking, BeginHook, Begin
<1>3. LocksExclude'
    BY DEF IInv, SessionsTyped, LocksExclude, Creations, Hooks, BeginHook, Begin,
        InstanceFree
<1>4. CopiesFresh'
    BY DEF IInv, SessionsTyped, CopiesFresh, Fresh, Proceeds, GoodEnd, Creations, Hooks,
        BeginHook, Begin, db
<1>5. UNCHANGED db
    BY DEF BeginHook, db
<1> QED BY <1>1, <1>2, <1>3, <1>4, <1>5, RowsKept DEF IInv

\* An adjustment locks no row before the window's.
LEMMA BeginAdjustKeeps ==
    ASSUME IInv, NEW s \in Sessions, NEW delta \in Deltas, BeginAdjust(s, delta)
    PROVE  IInv'
<1>1. SessionsTyped'
    BY LedgerAssumption, Blank DEF IInv, SessionsTyped, Verbs, BeginAdjust, Begin
<1>2. CallShape'
    BY DEF IInv, SessionsTyped, CallShape, Hooks, Locking, BeginAdjust, Begin
<1>3. LocksExclude'
  <2>1. /\ call'[s].verb = "ADJUST"
        /\ \A t \in Sessions \ {s} : call'[t] = call[t]
    BY DEF IInv, SessionsTyped, BeginAdjust, Begin
  <2>2. held' = held /\ held[s] = {}
    BY DEF IInv, SessionsTyped, CallShape, BeginAdjust, Begin, Hooks, Locking
  <2> QED BY <2>1, <2>2 DEF IInv, LocksExclude, Creations
<1>4. CopiesFresh'
    BY DEF IInv, CallShape, CopiesFresh, Fresh, Proceeds, GoodEnd, Creations, Hooks,
        Locking, BeginAdjust, Begin, db
<1>5. UNCHANGED db
    BY DEF BeginAdjust, db
<1> QED BY <1>1, <1>2, <1>3, <1>4, <1>5, RowsKept DEF IInv

\* The copy is of a row that no other session has locked.
LEMMA LockRequestKeeps ==
    ASSUME IInv, NEW s \in Sessions, LockRequest(s)
    PROVE  IInv'
<1>1. SessionsTyped'
    BY DEF IInv, SessionsTyped, RowsTyped, LockRequest, Goto
<1>2. CallShape'
    BY DEF IInv, SessionsTyped, CallShape, LockRequest, Goto
<1>3. LocksExclude'
    BY DEF IInv, LocksExclude, LockRequest, Goto, RequestFree
<1>4. CopiesFresh'
    BY DEF IInv, SessionsTyped, CopiesFresh, Fresh, Proceeds, Accepts, GoodEnd, LockRequest,
        Goto, db
<1>5. UNCHANGED db
    BY DEF LockRequest, db
<1> QED BY <1>1, <1>2, <1>3, <1>4, <1>5, RowsKept DEF IInv

\* The window's copy is of a row that no other session has locked.
LEMMA ResolveWindowKeeps ==
    ASSUME IInv, NEW s \in Sessions, ResolveWindow(s)
    PROVE  IInv'
<1>1. SessionsTyped'
    BY DEF IInv, SessionsTyped, RowsTyped, ResolveWindow, Goto
<1>2. CallShape'
    BY DEF IInv, SessionsTyped, CallShape, ResolveWindow, Goto
<1>3. LocksExclude'
    BY DEF IInv, LocksExclude, ResolveWindow, Goto, WindowFree
<1>4. CopiesFresh'
    BY DEF IInv, SessionsTyped, CopiesFresh, Fresh, Proceeds, GoodEnd, ResolveWindow, Goto,
        db
<1>5. UNCHANGED db
    BY DEF ResolveWindow, db
<1> QED BY <1>1, <1>2, <1>3, <1>4, <1>5, RowsKept DEF IInv

\* The entitlement read is natural.
LEMMA ReadEntitlementKeeps ==
    ASSUME IInv, NEW s \in Sessions, ReadEntitlement(s)
    PROVE  IInv'
<1>1. SessionsTyped'
    BY LedgerAssumption DEF IInv, SessionsTyped, WindowRows, ReadEntitlement, Goto
<1>2. CallShape'
    BY DEF IInv, CallShape, ReadEntitlement, Goto
<1>3. LocksExclude'
    BY DEF IInv, LocksExclude, ReadEntitlement, Goto
<1>4. CopiesFresh'
    BY DEF IInv, CopiesFresh, Fresh, Proceeds, GoodEnd, ReadEntitlement, Goto, db
<1>5. UNCHANGED db
    BY DEF ReadEntitlement, db
<1> QED BY <1>1, <1>2, <1>3, <1>4, <1>5, RowsKept DEF IInv

\* Only a cancellation finds no window: a request that was charged has one.
LEMMA NothingHeldKeeps ==
    ASSUME IInv, NEW s \in Sessions, NothingHeld(s)
    PROVE  IInv'
<1>1. SessionsTyped'
    BY DEF IInv, SessionsTyped, NothingHeld, Goto
<1>2. CallShape'
    BY DEF IInv, SessionsTyped, CallShape, Opens, Verbs, Creations, CopiesFresh, Fresh,
        Proceeds, Accepts, WindowOpened, NothingHeld, Goto
<1>3. LocksExclude'
    BY DEF IInv, LocksExclude, NothingHeld, Goto
<1>4. CopiesFresh'
    BY DEF IInv, CopiesFresh, Fresh, Proceeds, GoodEnd, NothingHeld, Goto, db
<1>5. UNCHANGED db
    BY DEF NothingHeld, db
<1> QED BY <1>1, <1>2, <1>3, <1>4, <1>5, RowsKept DEF IInv

\* The window is opened under its lock, with the counters it has.
LEMMA OpenWindowKeeps ==
    ASSUME IInv, NEW s \in Sessions, OpenWindow(s)
    PROVE  IInv'
<1>1. SessionsTyped'
    BY DEF IInv, SessionsTyped, WindowRows, RowsTyped, OpenWindow, Goto
<1>2. CallShape'
    BY DEF IInv, SessionsTyped, CallShape, OpenWindow, Goto
<1>3. LocksExclude'
    BY DEF IInv, LocksExclude, OpenWindow, Goto, WindowFree
<1>4. CopiesFresh'
    BY DEF IInv, SessionsTyped, CopiesFresh, Fresh, Proceeds, GoodEnd, OpenWindow, Goto, db
<1>5. UNCHANGED db
    BY DEF OpenWindow, db
<1> QED BY <1>1, <1>2, <1>3, <1>4, <1>5, RowsKept DEF IInv

-----------------------------------------------------------------------------
(* The commits.                                                            *)

\* A draft is a new row.
LEMMA CommitDraftKeeps ==
    ASSUME IInv, NEW s \in Sessions, CommitDraft(s)
    PROVE  IInv'
<1>1. /\ call[s].req \in Requests /\ row[s] \in RequestRows
      /\ call[s].verb \in Creations /\ Fresh(s)
    BY DEF IInv, SessionsTyped, CopiesFresh, CommitDraft, Writing, Creations
<1>2. /\ request' = [request EXCEPT ![call[s].req] = row[s]]
      /\ End(s) /\ UNCHANGED <<window, leaveDays, chain, effect>>
    BY DEF CommitDraft
<1>3. RowsTyped'
    BY <1>1, <1>2 DEF IInv, RowsTyped
<1>4. WindowOpened' /\ DatesKnown' /\ StatusFollowsInstance' /\ LeaveDaysMarked'
    BY <1>1, <1>2 DEF IInv, Fresh, WindowOpened, DatesKnown, StatusFollowsInstance,
        LeaveDaysMarked
<1>5. CopiesFresh'
    BY <1>1, <1>2, EndKeepsFresh DEF IInv, RowsTyped
<1> QED BY <1>2, <1>3, <1>4, <1>5, EndReleases DEF IInv

\* What a session about to charge or refund its request knows.
LEMMA Charging ==
    ASSUME IInv, NEW s \in Sessions,
           Writing(s, {"SUBMIT", "FILE", "APPROVE", "REJECT", "CANCEL_APPROVED", "SHORTEN"})
    PROVE  /\ call[s].req \in Requests /\ row[s] \in RequestRows
           /\ win[s].open /\ "window" \in held[s]
           /\ win[s].used = window.used /\ win[s].pending = window.pending
           /\ Fresh(s)
           /\ call[s].verb # "FILE" => "request" \in held[s]
           /\ call[s].verb \in Hooks => "instance" \in held[s]
BY DEF IInv, SessionsTyped, CallShape, CopiesFresh, Fresh, Writing, Locking, Hooks

\* The new instance is of a request that had none.
LEMMA CommitSubmitKeeps ==
    ASSUME IInv, NEW s \in Sessions, CommitSubmit(s)
    PROVE  IInv'
<1> DEFINE r == call[s].req
<1>1. /\ r \in Requests /\ row[s] \in RequestRows /\ "window" \in held[s]
      /\ win[s].open /\ Fresh(s)
      /\ call[s].verb \in Creations \/ "request" \in held[s]
    BY Charging DEF CommitSubmit, Writing, Creations
<1>2. /\ request' = [request EXCEPT ![r] = [row[s] EXCEPT !.status = "PENDING"]]
      /\ chain' = [chain EXCEPT ![r] = NewChain]
      /\ window' = Reserved(Mine(s), row[s].days)
      /\ End(s) /\ UNCHANGED <<leaveDays, effect>>
    BY DEF CommitSubmit
<1>3. window' \in WindowRows /\ window'.open
    BY <1>1, <1>2, MineTyped, MeterTyped DEF IInv, RequestRows
<1>4. /\ request[r].status \in {"NONE", "DRAFT"}
      /\ row[s].first..row[s].last \subseteq Dates
    BY <1>1 DEF IInv, CommitSubmit, Writing, Fresh, Proceeds, Accepts, DatesKnown, Creations
<1>5. RowsTyped'
    BY <1>1, <1>2, <1>3 DEF IInv, RowsTyped, RequestRows, Statuses, ChainRows, NewChain
<1>6. WindowOpened' /\ DatesKnown' /\ LeaveDaysMarked'
    BY <1>1, <1>2, <1>3, <1>4 DEF IInv, WindowOpened, DatesKnown, LeaveDaysMarked
<1>7. chain[r].status = "NONE" /\ effect[r] = <<>>
    BY <1>1, <1>4 DEF IInv, StatusFollowsInstance, Engine!Absent
<1>8. StatusFollowsInstance'
    BY <1>1, <1>2, <1>7 DEF IInv, RowsTyped, RequestRows, StatusFollowsInstance, NewChain
<1>9. CopiesFresh'
    BY <1>1, <1>2, <1>7, EndKeepsFresh DEF IInv, RowsTyped
<1> QED BY <1>2, <1>5, <1>6, <1>8, <1>9, EndReleases DEF IInv

\* The instance and the request are approved together, and the days are marked.
LEMMA CommitApproveKeeps ==
    ASSUME IInv, NEW s \in Sessions, CommitApprove(s)
    PROVE  IInv'
<1> DEFINE r == call[s].req
<1>1. /\ r \in Requests /\ row[s] \in RequestRows
      /\ "window" \in held[s] /\ "request" \in held[s] /\ "instance" \in held[s]
      /\ win[s].open /\ Fresh(s)
    BY Charging DEF CommitApprove, Writing, Hooks
<1>2. /\ request' = [request EXCEPT ![r].status = "APPROVED"]
      /\ chain' = [chain EXCEPT ![r].status = "APPROVED"]
      /\ effect' = [effect EXCEPT ![r] = Append(effect[r], "OnApproved")]
      /\ leaveDays' = Marked(s)
      /\ window' = Committed(Mine(s), row[s].days)
      /\ End(s)
    BY DEF CommitApprove, Engine!Approve, Engine!Close
<1>3. window' \in WindowRows /\ window'.open
    BY <1>1, <1>2, MineTyped, MeterTyped DEF IInv, RequestRows
<1>4. /\ request[r].status = "PENDING" /\ chain[r].status = "PENDING"
      /\ row[s] = request[r]
    BY <1>1 DEF CommitApprove, Writing, Fresh, Proceeds, Accepts
<1>5. RowsTyped'
  <2>1. request' \in [Requests -> RequestRows]
    BY <1>1, <1>2 DEF IInv, RowsTyped, RequestRows, Statuses
  <2>2. chain' \in [Requests -> ChainRows]
    BY <1>1, <1>2 DEF IInv, RowsTyped, ChainRows
  <2>3. Append(effect[r], "OnApproved") \in Seq({"OnApproved", "OnRejected"})
    BY <1>1 DEF IInv, RowsTyped
  <2>4. leaveDays' \in [Dates -> SUBSET Requests]
    BY <1>1, <1>2 DEF IInv, RowsTyped, Marked
  <2> QED BY <1>2, <1>3, <2>1, <2>2, <2>3, <2>4 DEF IInv, RowsTyped
<1>6. WindowOpened' /\ DatesKnown'
    BY <1>1, <1>2, <1>3, <1>4 DEF IInv, RowsTyped, RequestRows, WindowOpened, DatesKnown
<1>7. LeaveDaysMarked'
  <2>1. ASSUME NEW q \in Requests, request'[q].status = "APPROVED",
               NEW d \in request'[q].first..request'[q].last
        PROVE  leaveDays'[d] # {}
    <3>1. /\ d \in request[q].first..request[q].last /\ d \in Dates
          /\ q # r => request[q].status = "APPROVED"
      BY <1>1, <1>2, <1>4, <2>1 DEF IInv, RowsTyped, RequestRows, DatesKnown
    <3>2. leaveDays[d] # {} \/ q = r
      BY <3>1 DEF IInv, LeaveDaysMarked
    <3> QED BY <1>2, <1>4, <3>1, <3>2 DEF Marked
  <2> QED BY <2>1 DEF LeaveDaysMarked
<1>8. StatusFollowsInstance'
  <2>1. effect[r] = <<>>
    BY <1>1, <1>4 DEF IInv, StatusFollowsInstance
  <2>2. effect'[r] = <<"OnApproved">>
    BY <1>1, <1>2, <2>1 DEF IInv, RowsTyped
  <2>3. /\ request'[r].status = "APPROVED" /\ chain'[r].status = "APPROVED"
        /\ \A q \in Requests \ {r} : /\ request'[q] = request[q]
                                      /\ chain'[q] = chain[q]
                                      /\ effect'[q] = effect[q]
    BY <1>1, <1>2 DEF IInv, RowsTyped, RequestRows, ChainRows
  <2> QED BY <1>1, <2>2, <2>3 DEF IInv, StatusFollowsInstance
<1>9. CopiesFresh'
    BY <1>1, <1>2, EndKeepsFresh DEF IInv, RowsTyped
<1> QED BY <1>2, <1>5, <1>6, <1>7, <1>8, <1>9, EndReleases DEF IInv

\* The instance and the request are rejected together.
LEMMA CommitRejectKeeps ==
    ASSUME IInv, NEW s \in Sessions, CommitReject(s)
    PROVE  IInv'
<1> DEFINE r == call[s].req
<1>1. /\ r \in Requests /\ row[s] \in RequestRows
      /\ "window" \in held[s] /\ "request" \in held[s] /\ "instance" \in held[s]
      /\ win[s].open /\ Fresh(s)
    BY Charging DEF CommitReject, Writing, Hooks
<1>2. /\ request' = [request EXCEPT ![r].status = "REJECTED"]
      /\ chain' = [chain EXCEPT ![r].status = "REJECTED"]
      /\ effect' = [effect EXCEPT ![r] = Append(effect[r], "OnRejected")]
      /\ window' = Released(Mine(s), row[s].days)
      /\ End(s) /\ UNCHANGED leaveDays
    BY DEF CommitReject, Engine!Reject, Engine!Close
<1>3. window' \in WindowRows /\ window'.open
    BY <1>1, <1>2, MineTyped, MeterTyped DEF IInv, RequestRows
<1>4. request[r].status = "PENDING" /\ chain[r].status = "PENDING"
    BY <1>1 DEF CommitReject, Writing, Fresh, Proceeds, Accepts
<1>5. RowsTyped'
  <2>1. request' \in [Requests -> RequestRows]
    BY <1>1, <1>2 DEF IInv, RowsTyped, RequestRows, Statuses
  <2>2. chain' \in [Requests -> ChainRows]
    BY <1>1, <1>2 DEF IInv, RowsTyped, ChainRows
  <2>3. Append(effect[r], "OnRejected") \in Seq({"OnApproved", "OnRejected"})
    BY <1>1 DEF IInv, RowsTyped
  <2> QED BY <1>2, <1>3, <2>1, <2>2, <2>3 DEF IInv, RowsTyped
<1>6. WindowOpened' /\ DatesKnown' /\ LeaveDaysMarked'
    BY <1>1, <1>2, <1>3, <1>4 DEF IInv, WindowOpened, DatesKnown, LeaveDaysMarked
<1>7. StatusFollowsInstance'
  <2>1. effect[r] = <<>>
    BY <1>1, <1>4 DEF IInv, StatusFollowsInstance
  <2>2. effect'[r] = <<"OnRejected">>
    BY <1>1, <1>2, <2>1 DEF IInv, RowsTyped
  <2>3. /\ request'[r].status = "REJECTED" /\ chain'[r].status = "REJECTED"
        /\ \A q \in Requests \ {r} : /\ request'[q] = request[q]
                                      /\ chain'[q] = chain[q]
                                      /\ effect'[q] = effect[q]
    BY <1>1, <1>2 DEF IInv, RowsTyped, RequestRows, ChainRows
  <2> QED BY <1>1, <2>2, <2>3 DEF IInv, StatusFollowsInstance
<1>8. CopiesFresh'
    BY <1>1, <1>2, EndKeepsFresh DEF IInv, RowsTyped
<1> QED BY <1>2, <1>5, <1>6, <1>7, <1>8, EndReleases DEF IInv

\* A cancelled request is not approved, and its instance is left alone.
LEMMA CommitCancelKeeps ==
    ASSUME IInv, NEW s \in Sessions, CommitCancel(s)
    PROVE  IInv'
<1> DEFINE r == call[s].req
<1>1. /\ r \in Requests /\ row[s] \in RequestRows /\ "request" \in held[s] /\ Fresh(s)
      /\ "window" \in held[s] <=> win[s].open
    BY DEF IInv, SessionsTyped, CallShape, CopiesFresh, CommitCancel, Writing, Locking
<1>2. /\ request' = [request EXCEPT ![r].status = "CANCELLED"]
      /\ window' = IF win[s].open THEN Released(Mine(s), row[s].days) ELSE window
      /\ End(s) /\ UNCHANGED <<leaveDays, chain, effect>>
    BY DEF CommitCancel
<1>3. window' \in WindowRows /\ (window.open => window'.open)
    BY <1>1, <1>2, MineTyped, MeterTyped DEF IInv, RowsTyped, RequestRows
<1>4. request[r].status \in {"DRAFT", "PENDING"}
    BY <1>1 DEF CommitCancel, Writing, Fresh, Proceeds, Accepts
<1>5. RowsTyped'
    BY <1>1, <1>2, <1>3 DEF IInv, RowsTyped, RequestRows, Statuses
<1>6. WindowOpened' /\ DatesKnown' /\ LeaveDaysMarked'
    BY <1>1, <1>2, <1>3, <1>4 DEF IInv, WindowOpened, DatesKnown, LeaveDaysMarked
<1>7. chain[r].status \in {"NONE", "PENDING"}
    BY <1>1, <1>4 DEF IInv, StatusFollowsInstance, Engine!Absent
<1>8. StatusFollowsInstance'
    BY <1>1, <1>2, <1>4, <1>7 DEF IInv, RowsTyped, RequestRows, StatusFollowsInstance
<1>9. CopiesFresh'
    BY <1>1, <1>2, EndKeepsFresh DEF IInv, RowsTyped
<1> QED BY <1>2, <1>5, <1>6, <1>8, <1>9, EndReleases DEF IInv

\* A cancelled leave had an approved instance, which stays approved.
LEMMA CommitCancelApprovedKeeps ==
    ASSUME IInv, NEW s \in Sessions, CommitCancelApproved(s)
    PROVE  IInv'
<1> DEFINE r == call[s].req
<1>1. /\ r \in Requests /\ row[s] \in RequestRows
      /\ "window" \in held[s] /\ "request" \in held[s] /\ win[s].open /\ Fresh(s)
    BY Charging DEF CommitCancelApproved, Writing
<1>2. /\ request' = [request EXCEPT ![r].status = "CANCELLED"]
      /\ window' = Reversed(Mine(s), row[s].days)
      /\ End(s) /\ UNCHANGED <<leaveDays, chain, effect>>
    BY DEF CommitCancelApproved
<1>3. window' \in WindowRows /\ window'.open
    BY <1>1, <1>2, MineTyped, MeterTyped DEF IInv, RequestRows
<1>4. request[r].status = "APPROVED"
    BY <1>1 DEF CommitCancelApproved, Writing, Fresh, Proceeds, Accepts
<1>5. RowsTyped'
    BY <1>1, <1>2, <1>3 DEF IInv, RowsTyped, RequestRows, Statuses
<1>6. WindowOpened' /\ DatesKnown' /\ LeaveDaysMarked'
    BY <1>1, <1>2, <1>3, <1>4 DEF IInv, WindowOpened, DatesKnown, LeaveDaysMarked
<1>7. StatusFollowsInstance'
    BY <1>1, <1>2, <1>4 DEF IInv, RowsTyped, RequestRows, StatusFollowsInstance
<1>8. CopiesFresh'
    BY <1>1, <1>2, EndKeepsFresh DEF IInv, RowsTyped
<1> QED BY <1>2, <1>5, <1>6, <1>7, <1>8, EndReleases DEF IInv

\* A shortened leave keeps some of its days, all of them marked.
LEMMA CommitShortenKeeps ==
    ASSUME IInv, NEW s \in Sessions, CommitShorten(s)
    PROVE  IInv'
<1> DEFINE r == call[s].req
           e == call[s].arg
           n == e - row[s].first + 1
<1>1. /\ r \in Requests /\ row[s] \in RequestRows /\ e \in Int
      /\ "window" \in held[s] /\ "request" \in held[s] /\ win[s].open /\ Fresh(s)
    BY Charging DEF IInv, SessionsTyped, CommitShorten, Writing
<1>2. /\ request' = [request EXCEPT ![r].last = e, ![r].days = n]
      /\ window' = Committed(Reversed(Mine(s), row[s].days), n)
      /\ End(s) /\ UNCHANGED <<leaveDays, chain, effect>>
    BY DEF CommitShorten
<1>3. /\ request[r].status = "APPROVED" /\ row[s] = request[r]
      /\ request[r].first <= e /\ e < request[r].last
    BY <1>1 DEF CommitShorten, Writing, Fresh, Proceeds, Accepts, GoodEnd
<1>4. e \in Nat /\ n \in Nat
    BY <1>1, <1>3 DEF RequestRows
<1>5. window' \in WindowRows /\ window'.open
  <2>1. /\ Reversed(Mine(s), row[s].days) \in WindowRows
        /\ Reversed(Mine(s), row[s].days).open
    BY <1>1, MineTyped, MeterTyped DEF IInv, RequestRows
  <2> QED BY <1>2, <1>4, <2>1, MeterTyped
<1>6. request'[r] \in RequestRows
    BY <1>1, <1>2, <1>4 DEF IInv, RowsTyped, RequestRows
<1>7. RowsTyped'
    BY <1>1, <1>2, <1>5, <1>6 DEF IInv, RowsTyped
<1>8. /\ request'[r].status = "APPROVED"
      /\ request'[r].first..request'[r].last \subseteq request[r].first..request[r].last
      /\ \A q \in Requests \ {r} : request'[q] = request[q]
  <2>1. request' = [request EXCEPT ![r] = [request[r] EXCEPT !.last = e, !.days = n]]
    BY <1>1, <1>2 DEF IInv, RowsTyped, RequestRows
  <2>2. /\ request'[r].status = "APPROVED"
        /\ request'[r].first = request[r].first /\ request'[r].last = e
        /\ \A q \in Requests \ {r} : request'[q] = request[q]
    BY <1>1, <1>3, <2>1 DEF IInv, RowsTyped, RequestRows
  <2>3. request[r].first \in Nat /\ request[r].last \in Nat
    BY <1>1 DEF IInv, RowsTyped, RequestRows
  <2> QED BY <1>3, <1>4, <2>2, <2>3
<1>9. WindowOpened' /\ DatesKnown' /\ LeaveDaysMarked'
    BY <1>1, <1>2, <1>3, <1>5, <1>8 DEF IInv, WindowOpened, DatesKnown, LeaveDaysMarked
<1>10. StatusFollowsInstance'
  <2>1. UNCHANGED <<chain, effect>>
    BY <1>2
  <2> QED BY <1>1, <1>3, <1>8, <2>1 DEF IInv, StatusFollowsInstance
<1>11. CopiesFresh'
    BY <1>1, <1>2, <1>8, EndKeepsFresh
<1> QED BY <1>2, <1>7, <1>9, <1>10, <1>11, EndReleases DEF IInv

\* An adjustment leaves the counters alone, and the entitlement above them.
LEMMA CommitAdjustKeeps ==
    ASSUME IInv, NEW s \in Sessions, CommitAdjust(s)
    PROVE  IInv'
<1>1. /\ win[s] \in WindowRows /\ call[s].arg \in Int /\ win[s].open
      /\ "window" \in held[s] /\ win[s].used = window.used /\ win[s].pending = window.pending
    BY DEF IInv, SessionsTyped, CallShape, CopiesFresh, Fresh, CommitAdjust, Writing
<1>2. /\ window' = [Mine(s) EXCEPT !.entitled = @ + call[s].arg]
      /\ win[s].entitled - win[s].used - win[s].pending + call[s].arg >= 0
      /\ End(s) /\ UNCHANGED <<request, leaveDays, chain, effect>>
    BY DEF CommitAdjust, Remaining
<1>3. window' \in WindowRows /\ window'.open
  <2>1. win[s].entitled + call[s].arg \in Nat
    BY <1>1, <1>2 DEF WindowRows
  <2> QED BY <1>1, <1>2, <2>1, MineTyped DEF IInv, WindowRows
<1>4. RowsTyped' /\ WindowOpened' /\ DatesKnown' /\ StatusFollowsInstance' /\ LeaveDaysMarked'
    BY <1>2, <1>3 DEF IInv, RowsTyped, WindowOpened, DatesKnown, StatusFollowsInstance,
        LeaveDaysMarked
<1>5. CopiesFresh'
    BY <1>1, <1>2, EndKeepsFresh
<1> QED BY <1>2, <1>4, <1>5, EndReleases DEF IInv

-----------------------------------------------------------------------------
(* Every step keeps the invariant.                                         *)

\* A day nobody has asked for leave.
LEMMA InitHolds == Init => IInv
<1> SUFFICES ASSUME Init PROVE IInv
    OBVIOUS
<1>1. SessionsTyped /\ RowsTyped
    BY Blank DEF Init, Engine!Init, Engine!Absent, NoDay, ChainRows, SessionsTyped,
        RowsTyped
<1>2. CallShape /\ LocksExclude /\ CopiesFresh
    BY Blank DEF Init, CallShape, LocksExclude, CopiesFresh, Fresh, Creations, Hooks,
        Locking
<1>3. WindowOpened /\ DatesKnown /\ StatusFollowsInstance /\ LeaveDaysMarked
    BY DEF Init, Engine!Init, Engine!Absent, NoRequest, WindowOpened, DatesKnown,
        StatusFollowsInstance, LeaveDaysMarked
<1> QED BY <1>1, <1>2, <1>3 DEF IInv

\* A session begins to serve a request.
LEMMA ServeKeeps ==
    ASSUME IInv, NEW s \in Sessions, Serve(s)
    PROVE  IInv'
<1>1. CASE \E r \in Requests, span \in Spans, verb \in {"DRAFT", "FILE"} :
              BeginCreate(s, r, span, verb)
    BY <1>1, BeginCreateKeeps DEF Creations
<1>2. CASE \E r \in Requests, verb \in {"SUBMIT", "CANCEL", "CANCEL_APPROVED"} :
              BeginRequest(s, r, verb, 0)
    BY <1>2, BeginRequestKeeps DEF Locking, Hooks
<1>3. CASE \E r \in Requests, date \in ShortenTo : BeginRequest(s, r, "SHORTEN", date)
    BY <1>3, BeginRequestKeeps, LedgerAssumption DEF Locking, Hooks
<1>4. CASE \E r \in Requests, verb \in {"APPROVE", "REJECT"} : BeginHook(s, r, verb)
    BY <1>4, BeginHookKeeps DEF Hooks
<1>5. CASE \E delta \in Deltas : BeginAdjust(s, delta)
    BY <1>5, BeginAdjustKeeps
<1> QED BY <1>1, <1>2, <1>3, <1>4, <1>5 DEF Serve

\* A session takes a step of its transaction.
LEMMA SessionKeeps ==
    ASSUME IInv, NEW s \in Sessions, Step(s) \/ Rollback(s)
    PROVE  IInv'
<1>1. CASE \/ LockRefused(s) \/ QuotaExceeded(s) \/ ApproveOverCap(s) \/ AdjustRefused(s)
           \/ Rollback(s)
    BY <1>1, EndKeeps DEF LockRefused, QuotaExceeded, ApproveOverCap, AdjustRefused,
        Rollback
<1>2. CASE LockRequest(s) \/ ResolveWindow(s) \/ ReadEntitlement(s) \/ NothingHeld(s)
           \/ OpenWindow(s)
    BY <1>2, LockRequestKeeps, ResolveWindowKeeps, ReadEntitlementKeeps, NothingHeldKeeps,
        OpenWindowKeeps
<1>3. CASE CommitDraft(s) \/ CommitSubmit(s) \/ CommitApprove(s) \/ CommitReject(s)
    BY <1>3, CommitDraftKeeps, CommitSubmitKeeps, CommitApproveKeeps, CommitRejectKeeps
<1>4. CASE CommitCancel(s) \/ CommitCancelApproved(s) \/ CommitShorten(s) \/ CommitAdjust(s)
    BY <1>4, CommitCancelKeeps, CommitCancelApprovedKeeps, CommitShortenKeeps,
        CommitAdjustKeeps
<1> QED BY <1>1, <1>2, <1>3, <1>4 DEF Step

\* Every step of the system keeps the invariant.
LEMMA StepKeeps == IInv /\ [Next]_vars => IInv'
<1> SUFFICES ASSUME IInv, [Next]_vars PROVE IInv'
    OBVIOUS
<1>1. CASE Next
    BY <1>1, ServeKeeps, SessionKeeps DEF Next
<1>2. CASE UNCHANGED vars
  <2>1. /\ UNCHANGED db
        /\ UNCHANGED <<pc, call, row, win, held>>
    BY <1>2 DEF vars, db
  <2>2. SessionsTyped' /\ CallShape' /\ LocksExclude' /\ CopiesFresh'
    BY <2>1 DEF db, IInv, SessionsTyped, CallShape, LocksExclude, CopiesFresh, Fresh,
        Proceeds, GoodEnd
  <2> QED BY <2>1, <2>2, RowsKept DEF IInv
<1> QED BY <1>1, <1>2

-----------------------------------------------------------------------------
(* The theorems.                                                           *)

\* The inductive invariant holds of every reachable state.
THEOREM Invariance == Spec => []IInv
<1> QED BY InitHolds, StepKeeps, PTL DEF Spec

\* Rows, copies and labels keep their types, and the window's counters stay natural, for
\* every number of requests and sessions.
THEOREM TypeCorrect == Spec => []TypeOK
<1>1. IInv => TypeOK
    BY DEF IInv, TypeOK, SessionsTyped, RowsTyped
<1> QED BY <1>1, Invariance, PTL

\* INV-2: a request and its approval instance agree.
THEOREM InstanceFollowed == Spec => []StatusFollowsInstance
<1>1. IInv => StatusFollowsInstance
    BY DEF IInv
<1> QED BY <1>1, Invariance, PTL

\* INV-3: every day of an approved leave is marked.
THEOREM ApprovedDaysMarked == Spec => []LeaveDaysMarked
<1>1. IInv => LeaveDaysMarked
    BY DEF IInv
<1> QED BY <1>1, Invariance, PTL

\* What a step does to a request's status: only a submission makes it pending, and only
\* an approval approved.
LEMMA Charges ==
    ASSUME IInv, Next, NEW r \in Requests,
           request'[r].status # request[r].status,
           request'[r].status \in {"PENDING", "APPROVED"}
    PROVE  \E s \in Sessions : CommitSubmit(s) \/ CommitApprove(s)
<1> SUFFICES ASSUME ~ \E s \in Sessions : CommitSubmit(s) \/ CommitApprove(s) PROVE FALSE
    OBVIOUS
<1>1. PICK s \in Sessions : Serve(s) \/ Step(s) \/ Rollback(s)
    BY DEF Next
<1>2. CASE CommitDraft(s)
  <2>1. call[s].req \in Requests /\ row[s].status = "DRAFT"
    BY <1>2 DEF IInv, CopiesFresh, Fresh, CommitDraft, Writing, Creations
  <2> QED BY <1>2, <2>1 DEF IInv, RowsTyped, CommitDraft
<1>3. CASE CommitReject(s)
    BY <1>3 DEF IInv, RowsTyped, SessionsTyped, RequestRows, CommitReject
<1>4. CASE CommitCancel(s)
    BY <1>4 DEF IInv, RowsTyped, SessionsTyped, RequestRows, CommitCancel
<1>5. CASE CommitCancelApproved(s)
    BY <1>5 DEF IInv, RowsTyped, SessionsTyped, RequestRows, CommitCancelApproved
<1>6. CASE CommitShorten(s)
    BY <1>6 DEF IInv, RowsTyped, SessionsTyped, RequestRows, CommitShorten
<1>7. CASE ~ (CommitDraft(s) \/ CommitReject(s) \/ CommitCancel(s) \/ CommitCancelApproved(s)
              \/ CommitShorten(s))
  <2>1. UNCHANGED request
    BY <1>1, <1>7 DEF Serve, Step, Rollback, db, BeginCreate, BeginRequest, BeginHook,
        BeginAdjust, LockRequest, LockRefused, ResolveWindow, ReadEntitlement, NothingHeld,
        OpenWindow, QuotaExceeded, ApproveOverCap, CommitAdjust, AdjustRefused
  <2> QED BY <2>1
<1> QED BY <1>1, <1>2, <1>3, <1>4, <1>5, <1>6, <1>7

\* A submission or an approval that commits takes days that the window has.
LEMMA CapRespected ==
    ASSUME IInv, NEW s \in Sessions, CommitSubmit(s) \/ CommitApprove(s)
    PROVE  \/ window'.used + window'.pending <= window.used + window.pending
           \/ window'.used + window'.pending <= window'.entitled
<1>1. /\ row[s] \in RequestRows
      /\ win[s].used = window.used /\ win[s].pending = window.pending
    BY Charging DEF CommitSubmit, CommitApprove, Writing
<1>2. /\ window.used \in Nat /\ window.pending \in Nat /\ win[s].entitled \in Nat
      /\ row[s].days \in Nat
    BY <1>1 DEF IInv, RowsTyped, SessionsTyped, WindowRows, RequestRows
<1>3. /\ Mine(s) \in WindowRows
      /\ Mine(s).entitled = win[s].entitled
      /\ Mine(s).used = window.used
      /\ Mine(s).pending = window.pending
    BY MineTyped DEF IInv
<1>4. CASE CommitSubmit(s)
  <2>1. /\ window'.used = window.used
        /\ window'.pending = window.pending + row[s].days
        /\ window'.entitled = win[s].entitled
    <3>1. window' = Reserved(Mine(s), row[s].days)
      BY <1>4 DEF CommitSubmit
    <3> QED BY <1>2, <1>3, <3>1, Metering
  <2> QED BY <1>1, <1>2, <1>4, <2>1 DEF CommitSubmit, Remaining
<1>5. CASE CommitApprove(s)
  <2>1. /\ window'.used = window.used + row[s].days
        /\ window'.pending = Less(window.pending, row[s].days)
        /\ window'.entitled = win[s].entitled
    <3>1. window' = Committed(Mine(s), row[s].days)
      BY <1>5 DEF CommitApprove
    <3> QED BY <1>2, <1>3, <3>1, Metering
  <2> QED BY <1>1, <1>2, <1>5, <2>1 DEF CommitApprove, OverCap, Remaining, Less
<1> QED BY <1>4, <1>5

\* LQ-5: no submission or approval takes days that the window does not have.
THEOREM CapKept == Spec => MeterRespectsCap
<1>1. IInv /\ [Next]_vars =>
          [\A r \in Requests :
              /\ request'[r].status # request[r].status
              /\ request'[r].status \in {"PENDING", "APPROVED"}
              => \/ window'.used + window'.pending <= window.used + window.pending
                 \/ window'.used + window'.pending <= window'.entitled]_vars
    BY Charges, CapRespected
<1> QED BY <1>1, Invariance, PTL DEF Spec, MeterRespectsCap

-----------------------------------------------------------------------------
(* The meter's invariant: what the window counts is what the requests say. *)

\* A cancellation that has found no window has none of its days to release.
NothingToRelease ==
    \A s \in Sessions :
        pc[s] = "writing" /\ call[s].verb = "CANCEL" /\ ~ win[s].open =>
            row[s].status # "PENDING"

\* The days charged can be counted, and the window counts them.
SumsHold ==
    /\ \A status \in {"PENDING", "APPROVED"} : IsFiniteSet(Charged(status))
    /\ UsedMatchesApproved /\ NoLeakedHold

Metered == SumsHold /\ NothingToRelease

-----------------------------------------------------------------------------
(* Sums of days.                                                           *)

\* The days of the given rows, as Charged has those of the committed ones.
DaysIn(rows, status) ==
    UNION {{r} \X (1..rows[r].days) : r \in {q \in Requests : rows[q].status = status}}

\* What one row adds to the days of a status.
Share(a, status) == IF a.status = status THEN a.days ELSE 0

\* A request of n days is charged n days.
LEMMA DaysCounted ==
    ASSUME NEW r, NEW n \in Nat
    PROVE  IsFiniteSet({r} \X (1..n)) /\ Cardinality({r} \X (1..n)) = n
<1> DEFINE f == [k \in 1..n |-> <<r, k>>]
<1>1. f \in Bijection(1..n, {r} \X (1..n))
  <2>1. f \in [1..n -> {r} \X (1..n)]
    OBVIOUS
  <2>2. \A j, k \in 1..n : f[j] = f[k] => j = k
    OBVIOUS
  <2>3. \A p \in {r} \X (1..n) : \E k \in 1..n : f[k] = p
    OBVIOUS
  <2> HIDE DEF f
  <2>4. f \in Injection(1..n, {r} \X (1..n))
    BY <2>1, <2>2 DEF Injection, IsInjective
  <2>5. f \in Surjection(1..n, {r} \X (1..n))
    BY <2>1, <2>3 DEF Surjection
  <2> QED BY <2>4, <2>5 DEF Bijection
<1>2. IsFiniteSet(1..n) /\ Cardinality(1..n) = n
    BY FS_Interval
<1> HIDE DEF f
<1>3. ExistsBijection(1..n, {r} \X (1..n))
    BY <1>1 DEF ExistsBijection
<1> QED BY <1>2, <1>3, FS_Bijection

\* The days of a status are those of one request and those of the others.
LEMMA DaysSplit ==
    ASSUME NEW rows \in [Requests -> RequestRows], NEW q \in Requests, NEW status,
           NEW rest,
           rest = UNION {{r} \X (1..rows[r].days) :
                         r \in {p \in Requests \ {q} : rows[p].status = status}}
    PROVE  /\ IsFiniteSet(DaysIn(rows, status)) <=> IsFiniteSet(rest)
           /\ IsFiniteSet(rest) => Cardinality(rest) \in Nat
           /\ IsFiniteSet(rest) =>
                 Cardinality(DaysIn(rows, status)) = Cardinality(rest) + Share(rows[q], status)
<1> DEFINE own == {q} \X (1..rows[q].days)
<1>1. rows[q].days \in Nat
    BY DEF RequestRows
<1>2. IsFiniteSet(own) /\ Cardinality(own) = rows[q].days
    BY <1>1, DaysCounted
<1>3. rest \cap own = {}
    OBVIOUS
<1>4. rows[q].status = status => DaysIn(rows, status) = rest \cup own
    BY DEF DaysIn
<1>5. rows[q].status # status => DaysIn(rows, status) = rest
    BY DEF DaysIn
<1> HIDE DEF own
<1>6. ASSUME IsFiniteSet(rest)
      PROVE  /\ IsFiniteSet(rest \cup own)
             /\ Cardinality(rest) \in Nat
             /\ Cardinality(rest \cup own) = Cardinality(rest) + rows[q].days
  <2>1. /\ IsFiniteSet(rest \cup own)
        /\ Cardinality(rest \cup own) =
              Cardinality(rest) + Cardinality(own) - Cardinality(rest \cap own)
    BY <1>2, <1>6, FS_Union
  <2>2. Cardinality(rest \cap own) = 0
    BY <1>3, FS_EmptySet
  <2>3. Cardinality(rest) \in Nat
    BY <1>6, FS_CardinalityType
  <2> QED BY <1>1, <1>2, <2>1, <2>2, <2>3
<1>7. IsFiniteSet(rest \cup own) => IsFiniteSet(rest)
    BY FS_Subset
<1>8. CASE rows[q].status = status
    BY <1>4, <1>6, <1>7, <1>8 DEF Share
<1>9. CASE rows[q].status # status
    BY <1>5, <1>6, <1>9 DEF Share
<1> QED BY <1>8, <1>9

\* Writing one request's row moves its days and no others.
LEMMA DaysMoved ==
    ASSUME NEW old \in [Requests -> RequestRows], NEW new \in [Requests -> RequestRows],
           NEW q \in Requests, NEW status,
           \A r \in Requests \ {q} : new[r] = old[r],
           IsFiniteSet(DaysIn(old, status))
    PROVE  /\ IsFiniteSet(DaysIn(new, status))
           /\ Cardinality(DaysIn(old, status)) \in Nat
           /\ Cardinality(DaysIn(old, status)) >= Share(old[q], status)
           /\ Cardinality(DaysIn(new, status)) =
                 Cardinality(DaysIn(old, status)) - Share(old[q], status)
                    + Share(new[q], status)
<1> DEFINE rest == UNION {{r} \X (1..old[r].days) :
                          r \in {p \in Requests \ {q} : old[p].status = status}}
<1>1. rest = UNION {{r} \X (1..new[r].days) :
                    r \in {p \in Requests \ {q} : new[p].status = status}}
    OBVIOUS
<1>2. Share(old[q], status) \in Nat /\ Share(new[q], status) \in Nat
    BY DEF Share, RequestRows
<1>3. rest = UNION {{r} \X (1..old[r].days) :
                    r \in {p \in Requests \ {q} : old[p].status = status}}
    OBVIOUS
<1> HIDE DEF rest
<1>4. /\ IsFiniteSet(rest) /\ Cardinality(rest) \in Nat
      /\ Cardinality(DaysIn(old, status)) = Cardinality(rest) + Share(old[q], status)
    BY <1>3, DaysSplit
<1>5. /\ IsFiniteSet(DaysIn(new, status))
      /\ Cardinality(DaysIn(new, status)) = Cardinality(rest) + Share(new[q], status)
    BY <1>1, <1>4, DaysSplit
<1> QED BY <1>2, <1>4, <1>5

-----------------------------------------------------------------------------
(* What the steps do to the sums.                                          *)

\* A step that writes one request, or none, moves the days of that request.
LEMMA SumsMoved ==
    ASSUME IInv, IInv', Metered, NEW q \in Requests,
           \A r \in Requests \ {q} : request'[r] = request[r],
           NEW status \in {"PENDING", "APPROVED"}
    PROVE  /\ IsFiniteSet(Charged(status)')
           /\ DaysOf(status) \in Nat
           /\ DaysOf(status) >= Share(request[q], status)
           /\ DaysOf(status)' =
                 DaysOf(status) - Share(request[q], status) + Share(request'[q], status)
<1>1. request \in [Requests -> RequestRows] /\ request' \in [Requests -> RequestRows]
    BY DEF IInv, RowsTyped
<1>2. Charged(status) = DaysIn(request, status)
    BY DEF Charged, DaysIn
<1>3. Charged(status)' = DaysIn(request', status)
    BY DEF Charged, DaysIn
<1>4. IsFiniteSet(DaysIn(request, status))
    BY <1>2 DEF Metered, SumsHold
<1> QED BY <1>1, <1>2, <1>3, <1>4, DaysMoved DEF DaysOf

\* The counts hold after a step that keeps the requests and the counters.
LEMMA SumsKept ==
    ASSUME Metered, UNCHANGED request,
           window'.used = window.used, window'.pending = window.pending
    PROVE  SumsHold'
<1>1. \A status : Charged(status)' = Charged(status)
    BY DEF Charged
<1> QED BY <1>1 DEF Metered, SumsHold, UsedMatchesApproved, NoLeakedHold, DaysOf

\* The counts hold after a step that writes one request, when the counters follow it.
LEMMA SumsFollow ==
    ASSUME IInv, IInv', Metered, NEW q \in Requests,
           \A r \in Requests \ {q} : request'[r] = request[r],
           window'.used =
              window.used - Share(request[q], "APPROVED") + Share(request'[q], "APPROVED"),
           \/ window'.pending <=
                 window.pending - Share(request[q], "PENDING") + Share(request'[q], "PENDING")
           \/ window'.pending = 0
    PROVE  SumsHold'
<1>1. window \in WindowRows /\ window' \in WindowRows
    BY DEF IInv, RowsTyped
<1>2. \A status \in {"PENDING", "APPROVED"} :
          /\ Share(request[q], status) \in Nat
          /\ Share(request'[q], status) \in Nat
    BY DEF IInv, RowsTyped, RequestRows, Share
<1>3. \A status \in {"PENDING", "APPROVED"} :
          /\ IsFiniteSet(Charged(status)')
          /\ DaysOf(status) \in Nat
          /\ DaysOf(status) >= Share(request[q], status)
          /\ DaysOf(status)' =
                DaysOf(status) - Share(request[q], status) + Share(request'[q], status)
    BY SumsMoved
<1>4. UsedMatchesApproved'
  <2>1. window.used = DaysOf("APPROVED")
    BY DEF Metered, SumsHold, UsedMatchesApproved
  <2>2. window'.used = DaysOf("APPROVED")'
    BY <1>2, <1>3, <2>1
  <2> QED BY <2>2 DEF UsedMatchesApproved
<1>5. NoLeakedHold'
  <2>1. window.pending <= DaysOf("PENDING") /\ window.pending \in Nat /\ window'.pending \in Nat
    BY <1>1 DEF Metered, SumsHold, NoLeakedHold, WindowRows
  <2>2. window'.pending <= DaysOf("PENDING")'
    BY <1>2, <1>3, <2>1
  <2> QED BY <2>2 DEF NoLeakedHold
<1> QED BY <1>3, <1>4, <1>5 DEF SumsHold

-----------------------------------------------------------------------------
(* The commits.                                                            *)

\* What the commits write, and over what.
LEMMA Written ==
    ASSUME IInv, NEW s \in Sessions, pc[s] = "writing", call[s].verb # "ADJUST"
    PROVE  /\ call[s].req \in Requests
           /\ row[s].days \in Nat /\ row[s] \in RequestRows
           /\ request[call[s].req] \in RequestRows
           /\ Mine(s) \in WindowRows
           /\ Mine(s).used = window.used /\ Mine(s).pending = window.pending
           /\ window.used \in Nat /\ window.pending \in Nat
           /\ call[s].verb \in Creations => request[call[s].req].status = "NONE"
           /\ call[s].verb \in Creations => row[s].status = "DRAFT"
           /\ call[s].verb \notin Creations =>
                 row[s] = request[call[s].req] /\ Proceeds(s)
<1>1. call[s].verb \in Creations \cup Locking
    BY DEF IInv, SessionsTyped, CallShape, Verbs
<1>2. call[s].verb \notin Creations => "request" \in held[s]
    BY <1>1 DEF IInv, CallShape
<1>3. Fresh(s)
    BY DEF IInv, CopiesFresh
<1>4. /\ call[s].req \in Requests /\ row[s] \in RequestRows
      /\ request[call[s].req] \in RequestRows
      /\ window \in WindowRows
    BY DEF IInv, SessionsTyped, RowsTyped
<1>5. row[s].days \in Nat /\ window.used \in Nat /\ window.pending \in Nat
    BY <1>4 DEF RequestRows, WindowRows
<1> QED BY <1>2, <1>3, <1>4, <1>5, MineTyped DEF IInv, Fresh

\* A draft holds nothing.
LEMMA CommitDraftMeters ==
    ASSUME IInv, IInv', Metered, NEW s \in Sessions, CommitDraft(s)
    PROVE  SumsHold'
<1> DEFINE r == call[s].req
<1>1. /\ r \in Requests /\ request[r].status = "NONE" /\ row[s].status = "DRAFT"
      /\ window.used \in Nat /\ window.pending \in Nat
    BY Written DEF CommitDraft, Writing, Creations
<1>2. /\ request' = [request EXCEPT ![r] = row[s]] /\ window' = window
    BY DEF CommitDraft
<1>3. request'[r] = row[s] /\ \A q \in Requests \ {r} : request'[q] = request[q]
    BY <1>1, <1>2 DEF IInv, RowsTyped
<1>4. \A status \in {"PENDING", "APPROVED"} :
          Share(request[r], status) = 0 /\ Share(request'[r], status) = 0
    BY <1>1, <1>3 DEF Share
<1> HIDE DEF r
<1> QED BY <1>1, <1>2, <1>3, <1>4, SumsFollow

\* A submission holds the days of the request that becomes pending.
LEMMA CommitSubmitMeters ==
    ASSUME IInv, IInv', Metered, NEW s \in Sessions, CommitSubmit(s)
    PROVE  SumsHold'
<1> DEFINE r == call[s].req
           d == row[s].days
<1>1. /\ r \in Requests /\ request[r].status \in {"NONE", "DRAFT"}
      /\ window.used \in Nat /\ window.pending \in Nat /\ d \in Nat
      /\ row[s] \in RequestRows
      /\ Mine(s) \in WindowRows
      /\ Mine(s).used = window.used /\ Mine(s).pending = window.pending
    BY Written DEF CommitSubmit, Writing, Creations, Proceeds, Accepts
<1>2. /\ request' = [request EXCEPT ![r] = [row[s] EXCEPT !.status = "PENDING"]]
      /\ window' = Reserved(Mine(s), d)
    BY DEF CommitSubmit
<1>3. /\ request'[r].status = "PENDING" /\ request'[r].days = d
      /\ \A q \in Requests \ {r} : request'[q] = request[q]
    BY <1>1, <1>2 DEF IInv, RowsTyped, RequestRows
<1>4. window'.used = window.used /\ window'.pending = window.pending + d
    BY <1>1, <1>2, Metering
<1>5. /\ Share(request[r], "APPROVED") = 0 /\ Share(request'[r], "APPROVED") = 0
      /\ Share(request[r], "PENDING") = 0 /\ Share(request'[r], "PENDING") = d
    BY <1>1, <1>3 DEF Share
<1> HIDE DEF r, d
<1>6. /\ window'.used =
            window.used - Share(request[r], "APPROVED") + Share(request'[r], "APPROVED")
      /\ window'.pending <=
            window.pending - Share(request[r], "PENDING") + Share(request'[r], "PENDING")
    BY <1>1, <1>4, <1>5
<1> QED BY <1>1, <1>3, <1>6, SumsFollow

\* An approval charges the days it stops holding.
LEMMA CommitApproveMeters ==
    ASSUME IInv, IInv', Metered, NEW s \in Sessions, CommitApprove(s)
    PROVE  SumsHold'
<1> DEFINE r == call[s].req
           d == row[s].days
<1>1. /\ r \in Requests /\ request[r].status = "PENDING" /\ request[r].days = d
      /\ window.used \in Nat /\ window.pending \in Nat /\ d \in Nat
      /\ Mine(s) \in WindowRows
      /\ Mine(s).used = window.used /\ Mine(s).pending = window.pending
    BY Written DEF CommitApprove, Writing, Creations, Proceeds, Accepts
<1>2. /\ request' = [request EXCEPT ![r].status = "APPROVED"]
      /\ window' = Committed(Mine(s), d)
    BY DEF CommitApprove
<1>3. /\ request'[r].status = "APPROVED" /\ request'[r].days = d
      /\ \A q \in Requests \ {r} : request'[q] = request[q]
    BY <1>1, <1>2 DEF IInv, RowsTyped, RequestRows
<1>4. window'.used = window.used + d /\ window'.pending = Less(window.pending, d)
    BY <1>1, <1>2, Metering
<1>5. /\ Share(request[r], "APPROVED") = 0 /\ Share(request'[r], "APPROVED") = d
      /\ Share(request[r], "PENDING") = d /\ Share(request'[r], "PENDING") = 0
    BY <1>1, <1>3 DEF Share
<1> HIDE DEF r, d
<1>6. /\ window'.used =
            window.used - Share(request[r], "APPROVED") + Share(request'[r], "APPROVED")
      /\ \/ window'.pending <=
               window.pending - Share(request[r], "PENDING") + Share(request'[r], "PENDING")
         \/ window'.pending = 0
    BY <1>1, <1>4, <1>5 DEF Less
<1> QED BY <1>1, <1>3, <1>6, SumsFollow

\* A rejection lets go of the days it held.
LEMMA CommitRejectMeters ==
    ASSUME IInv, IInv', Metered, NEW s \in Sessions, CommitReject(s)
    PROVE  SumsHold'
<1> DEFINE r == call[s].req
           d == row[s].days
<1>1. /\ r \in Requests /\ request[r].status = "PENDING" /\ request[r].days = d
      /\ window.used \in Nat /\ window.pending \in Nat /\ d \in Nat
      /\ Mine(s) \in WindowRows
      /\ Mine(s).used = window.used /\ Mine(s).pending = window.pending
    BY Written DEF CommitReject, Writing, Creations, Proceeds, Accepts
<1>2. /\ request' = [request EXCEPT ![r].status = "REJECTED"]
      /\ window' = Released(Mine(s), d)
    BY DEF CommitReject
<1>3. /\ request'[r].status = "REJECTED"
      /\ \A q \in Requests \ {r} : request'[q] = request[q]
    BY <1>1, <1>2 DEF IInv, RowsTyped, RequestRows
<1>4. window'.used = window.used /\ window'.pending = Less(window.pending, d)
    BY <1>1, <1>2, Metering
<1>5. /\ Share(request[r], "APPROVED") = 0 /\ Share(request'[r], "APPROVED") = 0
      /\ Share(request[r], "PENDING") = d /\ Share(request'[r], "PENDING") = 0
    BY <1>1, <1>3 DEF Share
<1> HIDE DEF r, d
<1>6. /\ window'.used =
            window.used - Share(request[r], "APPROVED") + Share(request'[r], "APPROVED")
      /\ \/ window'.pending <=
               window.pending - Share(request[r], "PENDING") + Share(request'[r], "PENDING")
         \/ window'.pending = 0
    BY <1>1, <1>4, <1>5 DEF Less
<1> QED BY <1>1, <1>3, <1>6, SumsFollow

\* A cancellation lets go of days held, of its own or, for a draft, of the others': what
\* is left is still held for pending requests.  Without a window there is nothing held.
LEMMA CommitCancelMeters ==
    ASSUME IInv, IInv', Metered, NEW s \in Sessions, CommitCancel(s)
    PROVE  SumsHold'
<1> DEFINE r == call[s].req
           d == row[s].days
<1>1. /\ r \in Requests /\ request[r].status \in {"DRAFT", "PENDING"}
      /\ request[r].days = d
      /\ window.used \in Nat /\ window.pending \in Nat /\ d \in Nat
      /\ Mine(s) \in WindowRows
      /\ Mine(s).used = window.used /\ Mine(s).pending = window.pending
    BY Written DEF CommitCancel, Writing, Creations, Proceeds, Accepts
<1>2. /\ request' = [request EXCEPT ![r].status = "CANCELLED"]
      /\ window' = IF win[s].open THEN Released(Mine(s), d) ELSE window
    BY DEF CommitCancel
<1>3. /\ request'[r].status = "CANCELLED"
      /\ \A q \in Requests \ {r} : request'[q] = request[q]
    BY <1>1, <1>2 DEF IInv, RowsTyped, RequestRows
<1>4. ~ win[s].open => request[r].status = "DRAFT"
  <2>1. pc[s] = "writing" /\ call[s].verb = "CANCEL" /\ row[s] = request[r]
    BY Written DEF CommitCancel, Writing, Creations
  <2> QED BY <1>1, <2>1 DEF Metered, NothingToRelease
<1>5. /\ window'.used = window.used
      /\ \/ win[s].open /\ window'.pending = Less(window.pending, d)
         \/ request[r].status = "DRAFT" /\ window'.pending = window.pending
  <2>1. CASE win[s].open
    BY <1>1, <1>2, <2>1, Metering
  <2>2. CASE ~ win[s].open
    BY <1>2, <1>4, <2>2
  <2> QED BY <2>1, <2>2
<1>6. /\ Share(request[r], "APPROVED") = 0 /\ Share(request'[r], "APPROVED") = 0
      /\ Share(request'[r], "PENDING") = 0
      /\ request[r].status = "DRAFT" => Share(request[r], "PENDING") = 0
      /\ Share(request[r], "PENDING") \in {0, d}
    BY <1>1, <1>3 DEF Share
<1> HIDE DEF r, d
<1>7. window'.used =
          window.used - Share(request[r], "APPROVED") + Share(request'[r], "APPROVED")
    BY <1>1, <1>5, <1>6
<1>8. \/ window'.pending <=
            window.pending - Share(request[r], "PENDING") + Share(request'[r], "PENDING")
      \/ window'.pending = 0
    BY <1>1, <1>5, <1>6 DEF Less
<1> QED BY <1>1, <1>3, <1>7, <1>8, SumsFollow

\* The used days include those of every approved request: none is reversed in vain.
LEMMA UsedSuffices ==
    ASSUME IInv, IInv', Metered, NEW q \in Requests, request[q].status = "APPROVED",
           \A r \in Requests \ {q} : request'[r] = request[r]
    PROVE  window.used >= request[q].days
<1>1. DaysOf("APPROVED") >= Share(request[q], "APPROVED")
    BY SumsMoved
<1> QED BY <1>1 DEF Metered, SumsHold, UsedMatchesApproved, Share

\* A cancelled leave gives its used days back.
LEMMA CommitCancelApprovedMeters ==
    ASSUME IInv, IInv', Metered, NEW s \in Sessions, CommitCancelApproved(s)
    PROVE  SumsHold'
<1> DEFINE r == call[s].req
           d == row[s].days
<1>1. /\ r \in Requests /\ request[r].status = "APPROVED" /\ request[r].days = d
      /\ window.used \in Nat /\ window.pending \in Nat /\ d \in Nat
      /\ Mine(s) \in WindowRows
      /\ Mine(s).used = window.used /\ Mine(s).pending = window.pending
    BY Written DEF CommitCancelApproved, Writing, Creations, Proceeds, Accepts
<1>2. /\ request' = [request EXCEPT ![r].status = "CANCELLED"]
      /\ window' = Reversed(Mine(s), d)
    BY DEF CommitCancelApproved
<1>3. /\ request'[r].status = "CANCELLED"
      /\ \A q \in Requests \ {r} : request'[q] = request[q]
    BY <1>1, <1>2 DEF IInv, RowsTyped, RequestRows
<1>4. window'.used = Less(window.used, d) /\ window'.pending = window.pending
    BY <1>1, <1>2, Metering
<1>5. /\ Share(request[r], "APPROVED") = d /\ Share(request'[r], "APPROVED") = 0
      /\ Share(request[r], "PENDING") = 0 /\ Share(request'[r], "PENDING") = 0
    BY <1>1, <1>3 DEF Share
<1> HIDE DEF r, d
<1>6. window.used >= d
    BY <1>1, <1>3, UsedSuffices
<1>7. /\ window'.used =
            window.used - Share(request[r], "APPROVED") + Share(request'[r], "APPROVED")
      /\ window'.pending <=
            window.pending - Share(request[r], "PENDING") + Share(request'[r], "PENDING")
    BY <1>1, <1>4, <1>5, <1>6 DEF Less
<1> QED BY <1>1, <1>3, <1>7, SumsFollow

\* A shortened leave is charged its new days in place of its old ones.
LEMMA CommitShortenMeters ==
    ASSUME IInv, IInv', Metered, NEW s \in Sessions, CommitShorten(s)
    PROVE  SumsHold'
<1> DEFINE r == call[s].req
           d == row[s].days
           e == call[s].arg
           n == e - row[s].first + 1
<1>1. /\ r \in Requests /\ request[r].status = "APPROVED" /\ request[r].days = d
      /\ request[r].first = row[s].first
      /\ window.used \in Nat /\ window.pending \in Nat /\ d \in Nat
      /\ Mine(s) \in WindowRows
      /\ Mine(s).used = window.used /\ Mine(s).pending = window.pending
      /\ row[s].first \in Nat /\ row[s].first <= e /\ e \in Int
  <2>1. Proceeds(s) /\ row[s] = request[r] /\ call[s].verb = "SHORTEN"
    BY Written DEF CommitShorten, Writing, Creations
  <2> QED BY <2>1, Written DEF CommitShorten, Writing, Proceeds, Accepts, GoodEnd, IInv,
        SessionsTyped, RequestRows
<1>2. /\ request' = [request EXCEPT ![r].last = e, ![r].days = n]
      /\ window' = Committed(Reversed(Mine(s), d), n)
    BY DEF CommitShorten
<1>3. n \in Nat
    BY <1>1
<1>4. /\ request'[r].status = "APPROVED" /\ request'[r].days = n
      /\ \A q \in Requests \ {r} : request'[q] = request[q]
  <2>1. request' = [request EXCEPT ![r] = [request[r] EXCEPT !.last = e, !.days = n]]
    BY <1>1, <1>2 DEF IInv, RowsTyped, RequestRows
  <2> QED BY <1>1, <2>1 DEF IInv, RowsTyped, RequestRows
<1>5. window'.used = Less(window.used, d) + n /\ window'.pending = Less(window.pending, n)
    BY <1>1, <1>2, <1>3, Recharging
<1>6. /\ Share(request[r], "APPROVED") = d /\ Share(request'[r], "APPROVED") = n
      /\ Share(request[r], "PENDING") = 0 /\ Share(request'[r], "PENDING") = 0
    BY <1>1, <1>4 DEF Share
<1> HIDE DEF r, d, n
<1>7. window.used >= d
    BY <1>1, <1>4, UsedSuffices
<1>8. /\ window'.used =
            window.used - Share(request[r], "APPROVED") + Share(request'[r], "APPROVED")
      /\ window'.pending <=
            window.pending - Share(request[r], "PENDING") + Share(request'[r], "PENDING")
    BY <1>1, <1>3, <1>5, <1>6, <1>7 DEF Less
<1> QED BY <1>1, <1>4, <1>8, SumsFollow

\* Every other step keeps the requests and the counters.
LEMMA OthersKeepSums ==
    ASSUME IInv, Metered, NEW s \in Sessions,
           Serve(s) \/ Step(s) \/ Rollback(s),
           ~ (CommitDraft(s) \/ CommitSubmit(s) \/ CommitApprove(s) \/ CommitReject(s)),
           ~ (CommitCancel(s) \/ CommitCancelApproved(s) \/ CommitShorten(s))
    PROVE  SumsHold'
<1>1. CASE CommitAdjust(s)
  <2>1. window'.used = window.used /\ window'.pending = window.pending
    BY <1>1, MineTyped DEF IInv, CommitAdjust, WindowRows
  <2> QED BY <1>1, <2>1, SumsKept DEF CommitAdjust
<1>2. CASE ~ CommitAdjust(s)
  <2>1. UNCHANGED <<request, window>>
    BY <1>2 DEF Serve, Step, Rollback, db, BeginCreate, BeginRequest, BeginHook,
        BeginAdjust, LockRequest, LockRefused, ResolveWindow, ReadEntitlement, NothingHeld,
        OpenWindow, QuotaExceeded, ApproveOverCap, AdjustRefused
  <2> QED BY <2>1, SumsKept
<1> QED BY <1>1, <1>2

\* A session about to cancel without a window read its request when there was none, so
\* before any submission: NothingHeld is the one step that brings it there.
LEMMA StillNothingToRelease ==
    ASSUME IInv, Metered, NEW s \in Sessions, Serve(s) \/ Step(s) \/ Rollback(s)
    PROVE  NothingToRelease'
<1> SUFFICES ASSUME NEW t \in Sessions,
                    pc'[t] = "writing", call'[t].verb = "CANCEL", ~ win'[t].open
             PROVE  row'[t].status # "PENDING"
    BY DEF NothingToRelease
<1>1. CASE NothingHeld(s) /\ t = s
  <2>1. /\ ~ window.open /\ call[t].verb = "CANCEL" /\ pc[t] = "metering"
        /\ row' = row
    BY <1>1 DEF NothingHeld, Goto
  <2>2. row[t] = request[call[t].req] /\ call[t].req \in Requests
    BY <2>1 DEF IInv, SessionsTyped, CallShape, CopiesFresh, Fresh, Locking
  <2> QED BY <2>1, <2>2 DEF IInv, WindowOpened
<1>2. CASE ~ (NothingHeld(s) /\ t = s)
  <2>1. pc[t] = "writing" /\ call[t] = call'[t] /\ win[t] = win'[t] /\ row[t] = row'[t]
    <3>1. CASE Serve(s)
      BY <1>2, <3>1 DEF IInv, SessionsTyped, Serve, Begin, BeginCreate, BeginRequest,
          BeginHook, BeginAdjust
    <3>2. CASE End(s)
      BY <3>2, Blank DEF IInv, SessionsTyped, End
    <3>3. CASE LockRequest(s) \/ ResolveWindow(s) \/ ReadEntitlement(s) \/ NothingHeld(s)
               \/ OpenWindow(s)
      <4>1. t # s
        <5>1. CASE LockRequest(s) \/ ReadEntitlement(s)
          BY <5>1 DEF IInv, SessionsTyped, Goto, LockRequest, ReadEntitlement
        <5>2. CASE ResolveWindow(s)
          BY <5>2 DEF IInv, SessionsTyped, ResolveWindow
        <5>3. CASE OpenWindow(s)
          BY <5>3 DEF IInv, SessionsTyped, RowsTyped, WindowRows, OpenWindow
        <5> QED BY <1>2, <3>3, <5>1, <5>2, <5>3
      <4> QED BY <3>3, <4>1 DEF IInv, SessionsTyped, Goto, LockRequest, ResolveWindow,
            ReadEntitlement, NothingHeld, OpenWindow
    <3>4. Serve(s) \/ End(s) \/ LockRequest(s) \/ ResolveWindow(s) \/ ReadEntitlement(s)
          \/ NothingHeld(s) \/ OpenWindow(s)
      BY DEF Step, Rollback, LockRefused, CommitDraft, CommitSubmit, QuotaExceeded,
          CommitApprove, ApproveOverCap, CommitReject, CommitCancel, CommitCancelApproved,
          CommitShorten, CommitAdjust, AdjustRefused
    <3> QED BY <3>1, <3>2, <3>3, <3>4
  <2> QED BY <2>1 DEF Metered, NothingToRelease
<1> QED BY <1>1, <1>2

\* Every step keeps the meter's invariant.
LEMMA MeterKept == IInv /\ IInv' /\ Metered /\ [Next]_vars => Metered'
<1> SUFFICES ASSUME IInv, IInv', Metered, [Next]_vars PROVE Metered'
    OBVIOUS
<1>1. CASE Next
  <2>1. PICK s \in Sessions : Serve(s) \/ Step(s) \/ Rollback(s)
    BY <1>1 DEF Next
  <2>2. SumsHold'
    <3>1. CASE CommitDraft(s) \/ CommitSubmit(s) \/ CommitApprove(s) \/ CommitReject(s)
      BY <3>1, CommitDraftMeters, CommitSubmitMeters, CommitApproveMeters,
          CommitRejectMeters
    <3>2. CASE CommitCancel(s) \/ CommitCancelApproved(s) \/ CommitShorten(s)
      BY <3>2, CommitCancelMeters, CommitCancelApprovedMeters, CommitShortenMeters
    <3> QED BY <2>1, <3>1, <3>2, OthersKeepSums
  <2>3. NothingToRelease'
    BY <2>1, StillNothingToRelease
  <2> QED BY <2>2, <2>3 DEF Metered
<1>2. CASE UNCHANGED vars
  <2>1. UNCHANGED <<request, window, pc, call, row, win>>
    BY <1>2 DEF vars
  <2>2. NothingToRelease'
    BY <2>1 DEF Metered, NothingToRelease
  <2> QED BY <2>1, <2>2, SumsKept DEF Metered
<1> QED BY <1>1, <1>2

\* With no request there is nothing held or used.
LEMMA MeterStarts == Init => Metered
<1> SUFFICES ASSUME Init PROVE Metered
    OBVIOUS
<1>1. \A status \in {"PENDING", "APPROVED"} : Charged(status) = {}
    BY DEF Init, NoRequest, Charged
<1>2. \A status \in {"PENDING", "APPROVED"} :
          IsFiniteSet(Charged(status)) /\ DaysOf(status) = 0
    BY <1>1, FS_EmptySet DEF DaysOf
<1>3. window.used = 0 /\ window.pending = 0
    BY DEF Init, NoWindow
<1> QED BY <1>2, <1>3 DEF Init, Metered, SumsHold, UsedMatchesApproved,
        NoLeakedHold, NothingToRelease

\* The meter's invariant holds of every reachable state.
THEOREM MeterInvariance == Spec => []Metered
<1> QED BY MeterStarts, MeterKept, Invariance, PTL DEF Spec

\* LQ-2, LQ-3: the used days are those of the approved requests.
THEOREM UsedIsApproved == Spec => []UsedMatchesApproved
<1>1. Metered => UsedMatchesApproved
    BY DEF Metered, SumsHold
<1> QED BY <1>1, MeterInvariance, PTL

\* LQ-12: what is held is held for requests that are still pending.
THEOREM HoldsArePending == Spec => []NoLeakedHold
<1>1. Metered => NoLeakedHold
    BY DEF Metered, SumsHold
<1> QED BY <1>1, MeterInvariance, PTL

-----------------------------------------------------------------------------
(* The domain's side of the engine's contract.                             *)

\* A submission enters a request that has no instance.
LEMMA SubmitsOnce ==
    ASSUME IInv, NEW s \in Sessions, CommitSubmit(s)
    PROVE  Engine!Submit(call[s].req)
<1> DEFINE r == call[s].req
<1>1. r \in Requests /\ request[r].status \in {"NONE", "DRAFT"}
    BY Written DEF CommitSubmit, Writing, Creations, Proceeds, Accepts
<1>2. chain[r].status = "NONE"
    BY <1>1 DEF IInv, StatusFollowsInstance, Engine!Absent
<1>3. chain' = [chain EXCEPT ![r] = NewChain] /\ UNCHANGED effect
    BY DEF CommitSubmit
<1>4. chain'[r] = NewChain
    BY <1>1, <1>3 DEF IInv, RowsTyped
<1>5. NewChain = [status |-> "PENDING", line |-> 1, count |-> chain'[r].count,
                  templated |-> chain'[r].templated, version |-> chain'[r].version]
    BY <1>4 DEF NewChain
<1>6. /\ chain'[r].count \in 1..3 /\ chain'[r].templated \in BOOLEAN
      /\ chain'[r].version \in Nat
    BY <1>4 DEF NewChain
<1> HIDE DEF r
<1>7. chain' = [chain EXCEPT ![r] = [status |-> "PENDING", line |-> 1,
                    count |-> chain'[r].count, templated |-> chain'[r].templated,
                    version |-> chain'[r].version]]
    BY <1>3, <1>5
<1>8. Engine!Submit(r)
    BY <1>2, <1>3, <1>6, <1>7 DEF Engine!Submit
<1> QED BY <1>8 DEF r

\* Every step is an operation of the engine's contract, or leaves its tables alone.
LEMMA StepKeepsContract == IInv /\ [Next]_vars => [Engine!Next]_(Engine!vars)
<1> SUFFICES ASSUME IInv, [Next]_vars PROVE [Engine!Next]_(Engine!vars)
    OBVIOUS
<1>1. CASE Next
  <2>1. PICK s \in Sessions : Serve(s) \/ Step(s) \/ Rollback(s)
    BY <1>1 DEF Next
  <2>2. call[s].req \in Requests
    BY DEF IInv, SessionsTyped
  <2>3. CASE CommitSubmit(s)
    BY <2>2, <2>3, SubmitsOnce DEF Engine!Next
  <2>4. CASE CommitApprove(s)
    BY <2>2, <2>4 DEF CommitApprove, Engine!Next
  <2>5. CASE CommitReject(s)
    BY <2>2, <2>5 DEF CommitReject, Engine!Next
  <2>6. CASE ~ (CommitSubmit(s) \/ CommitApprove(s) \/ CommitReject(s))
    <3>1. UNCHANGED <<chain, effect>>
      BY <2>1, <2>6 DEF Serve, Step, Rollback, db, BeginCreate, BeginRequest, BeginHook,
          BeginAdjust, LockRequest, LockRefused, ResolveWindow, ReadEntitlement,
          NothingHeld, OpenWindow, CommitDraft, QuotaExceeded, ApproveOverCap,
          CommitCancel, CommitCancelApproved, CommitShorten, CommitAdjust, AdjustRefused
    <3> QED BY <3>1 DEF Engine!vars
  <2> QED BY <2>3, <2>4, <2>5, <2>6
<1>2. CASE UNCHANGED vars
  <2>1. UNCHANGED <<chain, effect>>
    BY <1>2 DEF vars
  <2> QED BY <2>1 DEF Engine!vars
<1> QED BY <1>1, <1>2

\* Leave keeps its side of the engine's contract: a request enters the engine once, and
\* the hooks run with the decision of a pending instance.
THEOREM ContractKept == Spec => KeepsContract
<1>1. Init => Engine!Init
    BY DEF Init
<1> QED BY <1>1, StepKeepsContract, Invariance, PTL DEF Spec, KeepsContract, Engine!Spec
-----------------------------------------------------------------------------
(* The order of the waits.                                                 *)

\* s stands before a row that t has locked.
Waits(s, t) ==
    /\ s # t
    /\ \/ pc[s] = "locking" /\ call[t].req = call[s].req /\ "request" \in held[t]
       \/ pc[s] = "metering" /\ window.open /\ "window" \in held[t]
       \/ pc[s] = "opening" /\ "window" \in held[t]

\* The guard of one of its steps holds: the row it asks for is free, and a decision it
\* carries to the engine finds the instance still to be decided.
Ready(s) ==
    \/ pc[s] = "locking" /\ RequestFree(s)
    \/ pc[s] = "metering" /\ (window.open => WindowFree(s))
    \/ pc[s] = "opening" /\ WindowFree(s)
    \/ /\ pc[s] = "writing"
       /\ call[s].verb # "NONE"
       /\ call[s].verb \in Hooks => chain[call[s].req].status = "PENDING"

\* The order in which the rows are locked: the request, then the window.
Rank(s) == CASE pc[s] = "locking" -> 0
             [] pc[s] \in {"metering", "opening"} -> 1
             [] OTHER -> 2

WaitsInOrder == \A s, t \in Sessions : Waits(s, t) => Rank(s) < Rank(t)

\* Whoever is busy can go on, or waits for one who can, or for one who waits for one.
SomebodyGoesOn ==
    \A s \in Sessions :
        pc[s] # "idle" =>
            \/ Ready(s)
            \/ \E t \in Sessions :
                  Waits(s, t) /\ (Ready(t) \/ \E u \in Sessions : Waits(t, u) /\ Ready(u))

\* A request is locked by a session past the lock, the window by one about to commit.
LEMMA HoldersStand ==
    ASSUME IInv, NEW t \in Sessions
    PROVE  /\ "request" \in held[t] => pc[t] \in {"metering", "opening", "writing"}
           /\ "window" \in held[t] => pc[t] = "writing"
BY DEF IInv, SessionsTyped, CallShape, Locking, Hooks

\* A session that writes can commit.
LEMMA WriterReady ==
    ASSUME IInv, NEW s \in Sessions, pc[s] = "writing"
    PROVE  Ready(s)
BY DEF IInv, CallShape, CopiesFresh, Fresh, Ready

\* A session at the window goes on, or waits for one that does.
LEMMA MeterReady ==
    ASSUME IInv, NEW s \in Sessions, pc[s] \in {"metering", "opening"}
    PROVE  Ready(s) \/ \E t \in Sessions : Waits(s, t) /\ Ready(t)
<1>1. CASE WindowFree(s)
    BY <1>1 DEF Ready
<1>2. CASE ~WindowFree(s)
    <2>1. PICK t \in Sessions : t # s /\ "window" \in held[t]
        BY <1>2 DEF WindowFree
    <2>2. Ready(t)
        BY <2>1, HoldersStand, WriterReady
    <2>3. CASE pc[s] = "metering" /\ ~window.open
        BY <2>3 DEF Ready
    <2>4. CASE pc[s] = "opening" \/ window.open
        BY <2>1, <2>2, <2>4 DEF Waits
    <2> QED BY <2>3, <2>4
<1> QED BY <1>1, <1>2

\* No transactions wait for each other in a circle, however many are served at once: the
\* hook takes request and window in the order the domain's own operations do.
THEOREM NoCircleOfWaits == Spec => []WaitsInOrder
<1>1. ASSUME IInv, NEW s \in Sessions, NEW t \in Sessions, Waits(s, t)
      PROVE  Rank(s) < Rank(t)
    BY <1>1, HoldersStand DEF Waits, Rank
<1>2. IInv => WaitsInOrder
    BY <1>1 DEF WaitsInOrder
<1> QED BY <1>2, Invariance, PTL

\* Every busy session can take a step of its own, or after at most two waits there is one
\* that can: what strong fairness then answers, without a timeout or a rollback.
THEOREM NobodyStuck == Spec => []SomebodyGoesOn
<1>1. ASSUME IInv, NEW s \in Sessions, pc[s] # "idle", ~Ready(s)
      PROVE  \E t \in Sessions :
                Waits(s, t) /\ (Ready(t) \/ \E u \in Sessions : Waits(t, u) /\ Ready(u))
    <2>1. CASE pc[s] \in {"metering", "opening"}
        BY <1>1, <2>1, MeterReady
    <2>2. CASE pc[s] = "locking"
        <3>1. PICK t \in Sessions :
                 t # s /\ call[t].req = call[s].req /\ "request" \in held[t]
            BY <1>1, <2>2 DEF Ready, RequestFree
        <3>2. Ready(t) \/ \E u \in Sessions : Waits(t, u) /\ Ready(u)
            BY <1>1, <3>1, HoldersStand, WriterReady, MeterReady
        <3> QED BY <2>2, <3>1, <3>2 DEF Waits
    <2>3. CASE pc[s] = "writing"
        BY <1>1, <2>3, WriterReady
    <2>4. pc[s] \in {"idle", "locking", "metering", "opening", "writing"}
        BY <1>1 DEF IInv, SessionsTyped
    <2> QED BY <1>1, <2>1, <2>2, <2>3, <2>4
<1>2. IInv => SomebodyGoesOn
    BY <1>1 DEF SomebodyGoesOn
<1> QED BY <1>2, Invariance, PTL

\* Nothing but a ready session takes a step: Ready asks for no more than the guards do.
LEMMA OnlyReadyStep ==
    ASSUME IInv, NEW s \in Sessions, Step(s)
    PROVE  Ready(s)
BY WriterReady DEF Step, LockRequest, LockRefused, ResolveWindow, ReadEntitlement, NothingHeld,
   OpenWindow, CommitDraft, CommitSubmit, QuotaExceeded, CommitApprove, ApproveOverCap,
   CommitReject, CommitCancel, CommitCancelApproved, CommitShorten, CommitAdjust,
   AdjustRefused, Writing, Ready
=============================================================================
