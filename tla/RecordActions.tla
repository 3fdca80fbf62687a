----------------------------- MODULE RecordActions -----------------------------
(***************************************************************************)
(* What a user does to one record: the buttons, dialogs and forms of the   *)
(* console and of the phone against the checks of the server.  One machine *)
(* runs any offer of ActionCatalog; an offer names the server operation it *)
(* calls (ServerRecords).                                                  *)
(*                                                                         *)
(* The page shows the record as it was last read.  Another user may change *)
(* the record at any time, the answer to a request may be lost, and a      *)
(* dialog may be closed while its request is under way.                    *)
(***************************************************************************)
EXTENDS Integers, Sequences, FiniteSets, SequencesExt

CONSTANTS Offers,     \* the offers considered, records of ActionCatalog
          MaxOthers,  \* bound: writes of other users
          MaxSent,    \* bound: requests of this user under way at once
          MaxEffects  \* bound: effects that are counted

ASSUME ActionAssumption == MaxOthers \in Nat /\ MaxSent \in Nat /\ MaxEffects \in Nat

\* The offers that break a rule below; each is named in the README.
NotServed == {"add agreement", "approve", "approve overtime", "confirm overtime",
    "confirm overtime from the list", "confirm overtime on the phone", "deactivate shift",
    "delete leave type", "edit shift", "new shift", "reactivate shift", "reject",
    "reject attendance in the queue", "reject attendance on the phone", "reject overtime",
    "verify attendance in the queue", "verify attendance on the phone"}
Unasked == {"correct a status on the phone", "edit own profile",
    "edit own profile on the phone", "edit shift", "edit user", "new shift",
    "reject attendance on the phone"}
OfferedAnyway == {"deactivate company", "delete holiday", "delete template",
    "verify attendance", "verify attendance in the queue", "verify attendance on the phone",
    "verify attendance with times", "withdraw overtime", "withdraw overtime from the list",
    "withdraw overtime on the phone"}
Dropped == {"assign leader", "close agreement", "edit attendance code", "edit company",
    "edit employee", "edit leave type", "edit shift", "edit site", "edit user", "new agreement",
    "new employee", "new site", "renew agreement", "replace leader"}
Repeats == {"adjust quota", "append audit note", "export report", "log activity",
    "log activity on the phone", "raise clarification", "send password reset"}
CheckedEarly == {"assign shift", "close agreement", "deactivate company", "drop activity",
    "drop activity on the phone", "edit entitlement", "force lock period", "reactivate company",
    "renew agreement", "transfer placement", "verify attendance",
    "verify attendance in the queue", "verify attendance on the phone",
    "verify attendance with times"}
LeftStale == {"reject attendance", "reject attendance in the queue",
    "reject attendance on the phone", "verify attendance", "verify attendance in the queue",
    "verify attendance on the phone", "verify attendance with times"}

\* What tells a second request of the same intention from the first: the write, which
\* changes nothing where the first has been; or the check, which turns it away, where the
\* button waits for the answer to the first.
WriteTells(o) ==
    ~o.op.adds /\ \A t \in o.op.to \cap o.op.writes : o.op.to = {t} \/ o.op.writes = {t}
CheckTells(o) == o.guard /\ o.op.to # {} /\ o.op.to \cap o.op.from = {}

\* An offer is about statuses of its record, and is shown where its operation starts.
ASSUME OfferRules ==
    \A o \in Offers :
        /\ o.shown \subseteq o.kind /\ o.op.to \subseteq o.kind
        /\ {o.dialog, o.guard, o.op.adds} \subseteq BOOLEAN
        /\ o.name \notin OfferedAnyway => o.shown \subseteq o.op.from
        /\ o.name \notin Repeats => WriteTells(o) \/ CheckTells(o)

VARIABLES offer,    \* the offer that is exercised
          role,     \* the role of the user
          filled,   \* the fields this user fills in
          rec,      \* the status of the server's record
          view,     \* the status the page last read
          due,      \* a read of the record is under way
          form,     \* the dialog: open or not, what it was opened on
          sent,     \* the requests under way
          said,     \* what the user was last told
          effects,  \* how often the present intention took effect
          others    \* writes of other users so far
vars == <<offer, role, filled, rec, view, due, form, sent, said, effects, others>>

Call == offer.op
Statuses == offer.kind
Closed == [open |-> FALSE, seen |-> CHOOSE s \in Statuses : TRUE]

\* One role the server admits and one it does not stand for all that are shown the offer;
\* a form is filled as sparsely or as fully as it allows, or but for one optional field.
Roles == {CHOOSE r \in R : TRUE : R \in {offer.roles \cap Call.roles, offer.roles \ Call.roles} \ {{}}}
Fillings == {offer.asks, offer.fields} \cup {offer.fields \ {f} : f \in offer.fields \ offer.asks}
\* What of it goes with the request: a field may go only in the company of another.
Went == {f \in filled \cap offer.sends : \A p \in offer.pairs : f = p[1] => p[2] \in filled}

Init == /\ offer \in Offers
        /\ role \in Roles
        /\ filled \in Fillings
        /\ rec \in Statuses
        /\ view = rec
        /\ due = FALSE /\ form = Closed /\ sent = << >> /\ said = "nothing"
        /\ effects = 0 /\ others = 0

-----------------------------------------------------------------------------
(* The page *)

Shown == view \in offer.shown

\* The read ends.
Reread == /\ due
          /\ view' = rec /\ due' = FALSE
          /\ UNCHANGED <<offer, role, filled, rec, form, sent, said, effects, others>>

\* Leaving the page and coming back, or any other write of this page that succeeds.
Revisit == /\ ~due /\ view # rec
           /\ due' = TRUE
           /\ UNCHANGED <<offer, role, filled, rec, view, form, sent, said, effects, others>>

OpenDialogAnyway ==
    /\ offer.dialog /\ ~form.open
    /\ form' = [open |-> TRUE, seen |-> view]
    /\ effects' = 0 /\ said' = "nothing"
    /\ UNCHANGED <<offer, role, filled, rec, view, due, sent, others>>

OpenDialog == /\ offer.dialog /\ ~form.open /\ Shown
              /\ form' = [open |-> TRUE, seen |-> view]
              /\ effects' = 0 /\ said' = "nothing"
              /\ UNCHANGED <<offer, role, filled, rec, view, due, sent, others>>

\* Escape closes any dialog, also where Cancel is disabled while a request is pending; the
\* request goes on without its dialog.
Cancel == /\ form.open
          /\ form' = Closed
          /\ sent' = [i \in DOMAIN sent |-> [sent[i] EXCEPT !.mine = FALSE]]
          /\ UNCHANGED <<offer, role, filled, rec, view, due, said, effects, others>>

-----------------------------------------------------------------------------
(* The request *)

\* The button is disabled while a request of this dialog is pending.
BusyNever == FALSE
Busy == offer.guard /\ \E i \in DOMAIN sent : sent[i].mine

\* Without a dialog a press is a new intention unless the last one went unanswered.
Anew == ~offer.dialog /\ sent = << >> /\ said # "lost"

Submit ==
    /\ IF offer.dialog THEN form.open ELSE Shown
    /\ ~Busy /\ Len(sent) < MaxSent
    /\ sent' = Append(sent, [at |-> "way", why |-> "none", mine |-> TRUE,
                             seen |-> IF offer.dialog THEN form.seen ELSE view])
    /\ effects' = IF Anew THEN 0 ELSE effects
    /\ UNCHANGED <<offer, role, filled, rec, view, due, form, said, others>>

\* What the operation does to the record.
Results == IF Call.to = {} THEN {rec} ELSE Call.to
Counts(i, s) == sent[i].mine /\ (Call.adds \/ s # rec)
Write(i) ==
    \E s \in Results :
        /\ rec' = s
        /\ effects' = IF Counts(i, s) /\ effects < MaxEffects THEN effects + 1 ELSE effects
        /\ sent' = [sent EXCEPT ![i].at = "done"]

\* The request reaches the server: the role, the fields (the needed ones, and those that
\* are taken only together), then the status.
Incomplete == \/ ~(Call.needs \subseteq Went)
              \/ \E p \in Call.pairs : p[1] \in Went /\ p[2] \notin Went
Refusal(i) == CASE role \notin Call.roles -> "forbidden"
                [] Incomplete            -> "incomplete"
                [] rec \notin Call.from  -> "conflict"
                [] OTHER                 -> "none"
RefusedBare(i, why) == sent' = [sent EXCEPT ![i].at = "refused"]
Refused(i, why) == sent' = [sent EXCEPT ![i].at = "refused", ![i].why = why]
Check(i) ==
    /\ sent[i].at = "way"
    /\ IF Refusal(i) = "none" THEN sent' = [sent EXCEPT ![i].at = "checked"]
                              ELSE Refused(i, Refusal(i))
    /\ UNCHANGED <<offer, role, filled, rec, view, due, form, said, effects, others>>

\* The write asks for the status again where the statement, a unique index or a row lock
\* held since the check does (Call.writes); elsewhere it goes through whatever came between.
Commit(i) ==
    /\ sent[i].at = "checked"
    /\ \/ rec \in Call.writes /\ Write(i)
       \/ rec \notin Call.writes /\ Refused(i, "conflict") /\ UNCHANGED <<rec, effects>>
    /\ UNCHANGED <<offer, role, filled, view, due, form, said, others>>

Gone(i) == sent' = SubSeq(sent, 1, i - 1) \o SubSeq(sent, i + 1, Len(sent))

\* Success closes the dialog and invalidates every query.
Succeed(i) == /\ sent[i].at = "done" /\ said' = "ok" /\ Gone(i)
              /\ form' = Closed /\ due' = TRUE
              /\ UNCHANGED <<offer, role, filled, rec, view, effects, others>>

\* A refusal, or no answer at all: a failed mutation invalidates nothing by itself.
Fail(i) == /\ \/ sent[i].at = "refused" /\ said' = sent[i].why
              \/ sent[i].at \in {"way", "done"} /\ said' = "lost"
           /\ Gone(i)
           /\ form' = (IF offer.stays THEN form ELSE Closed)
           /\ due' = (due \/ (offer.heals /\ said' = "conflict"))
           /\ UNCHANGED <<offer, role, filled, rec, view, effects, others>>

-----------------------------------------------------------------------------
(* Other users *)

\* Another user moves the record: a refusal was about where it was before.
OtherWrite == /\ others < MaxOthers /\ others' = others + 1
              /\ rec' \in Statuses \ {rec}
              /\ effects' = 0
              /\ said' = IF said = "conflict" THEN "nothing" ELSE said
              /\ UNCHANGED <<offer, role, filled, view, due, form, sent>>

Next == \/ Reread \/ Revisit \/ OpenDialog \/ Cancel \/ Submit \/ OtherWrite
        \/ \E i \in DOMAIN sent : Check(i) \/ Commit(i) \/ Succeed(i) \/ Fail(i)
Spec == Init /\ [][Next]_vars /\ WF_vars(Reread)

-----------------------------------------------------------------------------
(* Properties *)

TypeOK ==
    /\ offer \in Offers /\ role \in offer.roles /\ filled \in Fillings
    /\ rec \in Statuses /\ view \in Statuses /\ due \in BOOLEAN
    /\ form \in [open : BOOLEAN, seen : Statuses]
    /\ sent \in Seq([at : {"way", "checked", "done", "refused"},
                     why : {"none", "forbidden", "incomplete", "conflict"},
                     seen : Statuses, mine : BOOLEAN])
    /\ Len(sent) <= MaxSent
    /\ said \in {"nothing", "ok", "lost", "forbidden", "incomplete", "conflict"}
    /\ effects \in 0..MaxEffects /\ others \in 0..MaxOthers

\* An item to decide: its pages read it again when a decision is refused.
Decision == "decided" \in offer.kind /\ offer.name \notin LeftStale

\* A button is shown only to roles the server lets through.
OfferedToServed == offer.name \notin NotServed => said # "forbidden"

\* What the form insists on is all the server needs: its own check of the fields never
\* refuses what the form let pass.
AskedIsEnough == offer.name \notin Unasked => said # "incomplete"

\* The server refuses for the record's status only a user who was overtaken: on what the
\* page showed when the dialog was opened it would have gone through.
RefusedOnlyIfOvertaken ==
    offer.name \notin OfferedAnyway =>
        \A i \in DOMAIN sent : sent[i].why = "conflict" => sent[i].seen \in Call.from

\* Success is announced only when everything that was entered, in whatever combination,
\* went with the request and is what the server stores of it.
KeepsWhatWasTyped ==
    (said = "ok" /\ offer.name \notin Dropped) => filled \subseteq Went \ Call.ignores

\* Confirming once takes effect at most once, however often the button is pressed again
\* because no answer came: the key of a retry is a new one (mutator.ts), so only the
\* operation's own guard can tell.  What another user undoes may be done again.
OneEffectPerIntention == offer.name \notin Repeats => effects <= 1

\* A status changes only from one the operation allows and at which the page offers it,
\* whatever happened since the dialog was opened or the status was checked.
WrittenFromAllowed ==
    [][(\E i \in DOMAIN sent : Commit(i)) /\ offer.name \notin CheckedEarly
        => rec' = rec \/ rec \in Call.from \cap offer.shown]_vars

\* A decision refused because the item moved on leaves the user with where it is now.
RefusalHeals ==
    (Decision /\ said = "conflict" /\ sent = << >>)
        ~> (view = rec \/ said # "conflict" \/ sent # << >>)
=============================================================================
