--------------------------- MODULE RecordActionsProofs ---------------------------
(***************************************************************************)
(* RecordActions for any offers that obey OfferRules, any number of        *)
(* requests under way, and any writes of other users: every variable keeps *)
(* its type, an intention takes effect at most once, a refusal for the     *)
(* status meets only a user who was overtaken.  Theorems that rest on a    *)
(* rule some offers break have that rule as their hypothesis.              *)
(***************************************************************************)
EXTENDS RecordActions, TLAPS, SequenceTheorems

-----------------------------------------------------------------------------
(* The inductive invariant.                                                *)

Underway == [at : {"way", "checked", "done", "refused"},
             why : {"none", "forbidden", "incomplete", "conflict"},
             seen : Statuses, mine : BOOLEAN]

Admitted == role \in Call.roles /\ ~Incomplete

\* The form insists on, and sends whatever else is filled in, what the operation needs, and
\* the operation takes every field by itself.
AsksEnough(o) == /\ o.op.needs \subseteq o.asks \cap o.sends /\ o.op.pairs = {}
                 /\ \A p \in o.pairs : p[1] \notin o.op.needs
\* Each field is sent, whatever else is filled in, and stored.
SendsAll(o) == o.fields \subseteq o.sends \ o.op.ignores /\ o.pairs = {}

\* What was opened or sent was offered: its status was one the page shows the offer for.
Offered == /\ form.open => offer.dialog /\ form.seen \in offer.shown
           /\ \A i \in DOMAIN sent : sent[i].seen \in offer.shown

\* A reason given, on its way to the user or told, is the server's; what is past the check,
\* or told to have succeeded, was admitted.
Reasons == /\ \A i \in DOMAIN sent : /\ sent[i].at = "refused" => sent[i].why # "none"
                                     /\ sent[i].at \in {"checked", "done"} => Admitted
                                     /\ sent[i].why = "forbidden" => role \notin Call.roles
                                     /\ sent[i].why = "incomplete" => Incomplete
           /\ said = "forbidden" => role \notin Call.roles
           /\ said = "incomplete" => Incomplete
           /\ said = "ok" => Admitted

\* A guarded button has one request of the present intention under way.
OneMine == offer.guard => \A i, j \in DOMAIN sent : sent[i].mine /\ sent[j].mine => i = j

\* Once the intention took effect, the status of the record is what stops the next one:
\* the write finds nothing to change, or the check turns away every request of the same
\* intention, of which none has passed it.
Spent == /\ WriteTells(offer) =>
               /\ rec \in Call.to
               /\ rec \in Call.writes => Call.to = {rec}
         /\ CheckTells(offer) =>
               /\ rec \in Call.to
               /\ \A i \in DOMAIN sent : sent[i].at = "checked" => ~sent[i].mine
Effective == effects >= 1 => Spent /\ (WriteTells(offer) \/ CheckTells(offer) => effects = 1)

IInv == TypeOK /\ Offered /\ Reasons /\ OneMine /\ Effective

-----------------------------------------------------------------------------
(* The operators.                                                          *)

\* The place, in a sequence, of member j of the sequence without its member i.
Skip(i, j) == IF j < i THEN j ELSE j + 1

\* A sequence without one of its members: the others, each in one place.
LEMMA Without ==
    ASSUME NEW S, NEW s \in Seq(S), NEW i \in 1..Len(s)
    PROVE  LET r == SubSeq(s, 1, i - 1) \o SubSeq(s, i + 1, Len(s)) IN
           /\ r \in Seq(S) /\ Len(r) = Len(s) - 1
           /\ \A j \in 1..Len(r) : Skip(i, j) \in 1..Len(s) /\ r[j] = s[Skip(i, j)]
           /\ \A j, k \in 1..Len(r) : Skip(i, j) = Skip(i, k) => j = k
<1> DEFINE n == Len(s)
           a == SubSeq(s, 1, i - 1)
           b == SubSeq(s, i + 1, n)
           r == a \o b
<1>1. n \in Nat /\ i \in Nat /\ 1 <= i /\ i <= n
    OBVIOUS
<1>2. /\ a \in Seq(S) /\ Len(a) = i - 1
      /\ \A j \in 1..i - 1 : a[j] = s[j]
    BY <1>1, SubSeqProperties
<1>3. /\ b \in Seq(S) /\ Len(b) = n - i
      /\ \A j \in 1..n - i : b[j] = s[i + j]
    <2>1. i + 1 \in 1..n + 1 /\ n \in (i + 1) - 1..n
        BY <1>1
    <2>2. /\ SubSeq(s, i + 1, n) \in Seq(S)
          /\ Len(SubSeq(s, i + 1, n)) = IF i + 1 <= n THEN n - (i + 1) + 1 ELSE 0
          /\ \A j \in 1..(n - (i + 1) + 1) : SubSeq(s, i + 1, n)[j] = s[(i + 1) + j - 1]
        BY <2>1, SubSeqProperties
    <2> QED BY <1>1, <2>2
<1> HIDE DEF a, b, n
<1>4. /\ r \in Seq(S) /\ Len(r) = Len(a) + Len(b)
      /\ \A j \in 1..Len(a) + Len(b) : r[j] = IF j <= Len(a) THEN a[j] ELSE b[j - Len(a)]
    BY <1>2, <1>3, ConcatProperties
<1> HIDE DEF r
<1>5. Len(r) = n - 1
    BY <1>1, <1>2, <1>3, <1>4
<1>6. ASSUME NEW j \in 1..n - 1 PROVE Skip(i, j) \in 1..n /\ r[j] = s[Skip(i, j)]
    <2>1. j \in 1..Len(a) + Len(b)
        BY <1>1, <1>2, <1>3
    <2>2. r[j] = IF j <= i - 1 THEN a[j] ELSE b[j - (i - 1)]
        BY <1>2, <1>4, <2>1
    <2>3. CASE j < i
        BY <1>1, <1>2, <2>2, <2>3 DEF Skip
    <2>4. CASE ~(j < i)
        <3>1. j - (i - 1) \in 1..n - i /\ i + (j - (i - 1)) = j + 1
            BY <1>1, <2>4
        <3>2. b[j - (i - 1)] = s[i + (j - (i - 1))]
            BY <1>3, <3>1
        <3>3. r[j] = s[j + 1]
            BY <1>1, <2>2, <2>4, <3>1, <3>2
        <3> QED BY <1>1, <2>4, <3>3 DEF Skip
    <2> QED BY <2>3, <2>4
<1>7. ASSUME NEW j \in 1..n - 1, NEW k \in 1..n - 1, Skip(i, j) = Skip(i, k) PROVE j = k
    BY <1>1, <1>7 DEF Skip
<1> QED BY <1>4, <1>5, <1>6, <1>7 DEF r, a, b, n

\* What the type invariant and the rules say of the offer.
LEMMA Rules ==
    ASSUME TypeOK
    PROVE  /\ offer.shown \subseteq Statuses /\ Call.to \subseteq Statuses
           /\ offer.dialog \in BOOLEAN /\ offer.guard \in BOOLEAN /\ Call.adds \in BOOLEAN
           /\ offer.name \notin OfferedAnyway => offer.shown \subseteq Call.from
           /\ offer.name \notin Repeats => WriteTells(offer) \/ CheckTells(offer)
           /\ Closed \in [open : BOOLEAN, seen : Statuses]
           /\ Closed.open = FALSE
<1>1. offer \in Offers /\ rec \in Statuses
    BY DEF TypeOK
<1>2. (CHOOSE s \in Statuses : TRUE) \in Statuses
    BY <1>1
<1>3. Closed \in [open : BOOLEAN, seen : Statuses] /\ Closed.open = FALSE
    BY <1>2 DEF Closed
<1> QED BY <1>1, <1>3, OfferRules DEF Statuses, Call

\* The same offer, exercised in the same way, has the same words for it.
LEMMA Frame ==
    ASSUME UNCHANGED <<offer, role, filled>>
    PROVE  /\ Call' = Call /\ Statuses' = Statuses /\ Underway' = Underway
           /\ Fillings' = Fillings /\ Went' = Went
           /\ Incomplete' = Incomplete /\ Admitted' = Admitted
BY DEF Call, Statuses, Underway, Fillings, Went, Incomplete, Admitted

\* The request in place i of those under way.
LEMMA Sent ==
    ASSUME TypeOK
    PROVE  /\ sent \in Seq(Underway) /\ Len(sent) \in Nat /\ DOMAIN sent = 1..Len(sent)
           /\ \A i \in DOMAIN sent : sent[i] \in Underway
           /\ MaxSent \in Nat /\ MaxEffects \in Nat /\ effects \in Nat
<1>1. sent \in Seq(Underway) /\ effects \in 0..MaxEffects
    BY DEF TypeOK, Underway
<1> QED BY <1>1, ActionAssumption

\* A request that goes one step further, or is refused, is the only one that changes.
LEMMA Moved ==
    ASSUME TypeOK, NEW i \in DOMAIN sent, NEW x \in {"way", "checked", "done", "refused"},
           NEW y \in {"none", "forbidden", "incomplete", "conflict"},
           \/ sent' = [sent EXCEPT ![i].at = x] /\ y = sent[i].why
           \/ sent' = [sent EXCEPT ![i].at = x, ![i].why = y]
    PROVE  /\ sent' \in Seq(Underway) /\ Len(sent') = Len(sent) /\ DOMAIN sent' = DOMAIN sent
           /\ \A j \in DOMAIN sent : /\ sent'[j].mine = sent[j].mine
                                     /\ sent'[j].seen = sent[j].seen
                                     /\ j # i => sent'[j] = sent[j]
           /\ sent'[i].at = x /\ sent'[i].why = y
<1> DEFINE r == [sent[i] EXCEPT !.at = x, !.why = y]
<1>1. sent \in Seq(Underway) /\ i \in 1..Len(sent) /\ sent[i] \in Underway
    BY Sent
<1>2. /\ r \in Underway /\ r.at = x /\ r.why = y
      /\ r.mine = sent[i].mine /\ r.seen = sent[i].seen
    BY <1>1 DEF Underway
<1>3. sent' = [sent EXCEPT ![i] = r]
    <2>1. CASE sent' = [sent EXCEPT ![i].at = x] /\ y = sent[i].why
        <3>1. [sent[i] EXCEPT !.at = x] = r
            BY <1>1, <2>1 DEF Underway
        <3> QED BY <2>1, <3>1
    <2>2. CASE sent' = [sent EXCEPT ![i].at = x, ![i].why = y]
        <3>1. sent' = [sent EXCEPT ![i] = [[sent[i] EXCEPT !.at = x] EXCEPT !.why = y]]
            BY <1>1, <2>2
        <3>2. [[sent[i] EXCEPT !.at = x] EXCEPT !.why = y] = r
            BY <1>1 DEF Underway
        <3> QED BY <3>1, <3>2
    <2> QED BY <2>1, <2>2
<1> HIDE DEF r
<1>4. /\ [sent EXCEPT ![i] = r] \in Seq(Underway) /\ Len([sent EXCEPT ![i] = r]) = Len(sent)
      /\ \A j \in 1..Len(sent) : [sent EXCEPT ![i] = r][j] = IF j = i THEN r ELSE sent[j]
    BY <1>1, <1>2, ExceptSeq
<1>5. sent' \in Seq(Underway) /\ Len(sent') = Len(sent)
    BY <1>3, <1>4
<1>6. DOMAIN sent' = DOMAIN sent
    BY <1>1, <1>5
<1>7. \A j \in DOMAIN sent : sent'[j] = IF j = i THEN r ELSE sent[j]
    BY <1>1, <1>3, <1>4
<1> QED BY <1>2, <1>5, <1>6, <1>7

\* The requests that are left when one is answered are some of those there were.
LEMMA Left ==
    ASSUME TypeOK, NEW i \in DOMAIN sent, Gone(i)
    PROVE  /\ sent' \in Seq(Underway) /\ Len(sent') = Len(sent) - 1
           /\ \A j \in DOMAIN sent' : Skip(i, j) \in DOMAIN sent /\ sent'[j] = sent[Skip(i, j)]
           /\ \A j, k \in DOMAIN sent' : Skip(i, j) = Skip(i, k) => j = k
<1>1. sent \in Seq(Underway) /\ i \in 1..Len(sent)
    BY Sent
<1>2. sent' = SubSeq(sent, 1, i - 1) \o SubSeq(sent, i + 1, Len(sent))
    BY DEF Gone
<1>3. /\ sent' \in Seq(Underway) /\ Len(sent') = Len(sent) - 1
      /\ \A j \in 1..Len(sent') : Skip(i, j) \in 1..Len(sent) /\ sent'[j] = sent[Skip(i, j)]
      /\ \A j, k \in 1..Len(sent') : Skip(i, j) = Skip(i, k) => j = k
    <2> DEFINE r == SubSeq(sent, 1, i - 1) \o SubSeq(sent, i + 1, Len(sent))
    <2>1. /\ r \in Seq(Underway) /\ Len(r) = Len(sent) - 1
          /\ \A j \in 1..Len(r) : Skip(i, j) \in 1..Len(sent) /\ r[j] = sent[Skip(i, j)]
          /\ \A j, k \in 1..Len(r) : Skip(i, j) = Skip(i, k) => j = k
        BY <1>1, Without
    <2>2. sent' = r
        BY <1>2
    <2> HIDE DEF r
    <2> QED BY <2>1, <2>2
<1>4. DOMAIN sent' = 1..Len(sent') /\ DOMAIN sent = 1..Len(sent)
    BY <1>1, <1>3
<1> QED BY <1>3, <1>4

-----------------------------------------------------------------------------
(* Each step keeps the invariant.                                          *)

\* The page is read, or has to be.
LEMMA ReadSteps ==
    ASSUME IInv, Reread \/ Revisit
    PROVE  IInv'
<1>1. TypeOK /\ Offered
    BY DEF IInv
<1>2. /\ UNCHANGED <<offer, role, filled, rec, form, sent, said, effects, others>>
      /\ view' \in Statuses /\ due' \in BOOLEAN
    BY <1>1 DEF Reread, Revisit, TypeOK
<1>3. TypeOK'
    BY <1>1, <1>2, Frame DEF TypeOK, Underway
<1>4. Offered' /\ Reasons' /\ OneMine'
    BY <1>2, Frame DEF IInv, Offered, Reasons, OneMine
<1>5. Effective'
    BY <1>2, Frame DEF IInv, Effective, Spent
<1> QED BY <1>3, <1>4, <1>5 DEF IInv

\* A dialog is opened where its offer is shown, and starts a new intention.
LEMMA OpenStep ==
    ASSUME IInv, OpenDialog
    PROVE  IInv'
<1>1. TypeOK /\ Offered
    BY DEF IInv
<1>2. view \in Statuses /\ MaxEffects \in Nat
    BY <1>1, ActionAssumption DEF TypeOK
<1>3. TypeOK'
    BY <1>1, <1>2, Frame DEF OpenDialog, TypeOK
<1>4. Offered'
    BY <1>1 DEF OpenDialog, Offered, Shown
<1>5. Reasons' /\ OneMine'
    BY Frame DEF OpenDialog, IInv, Reasons, OneMine
<1>6. Effective'
    BY DEF OpenDialog, Effective
<1> QED BY <1>3, <1>4, <1>5, <1>6 DEF IInv

\* A dialog that is closed disowns its requests.
LEMMA CancelStep ==
    ASSUME IInv, Cancel
    PROVE  IInv'
<1>1. TypeOK /\ Offered
    BY DEF IInv
<1>2. /\ Closed \in [open : BOOLEAN, seen : Statuses] /\ Closed.open = FALSE
      /\ sent \in Seq(Underway) /\ Len(sent) \in Nat /\ DOMAIN sent = 1..Len(sent)
      /\ \A i \in DOMAIN sent : sent[i] \in Underway
    BY <1>1, Rules, Sent
<1>3. /\ form' = Closed /\ sent' = [i \in 1..Len(sent) |-> [sent[i] EXCEPT !.mine = FALSE]]
      /\ UNCHANGED <<offer, role, filled, rec, view, due, said, effects, others>>
    BY <1>2 DEF Cancel
<1>4. \A i \in 1..Len(sent) :
         LET r == [sent[i] EXCEPT !.mine = FALSE] IN
         /\ r \in Underway /\ r.mine = FALSE /\ r.seen = sent[i].seen
         /\ r.why = sent[i].why /\ r.at = sent[i].at
    BY <1>2 DEF Underway
<1>5. /\ sent' \in Seq(Underway) /\ Len(sent') = Len(sent) /\ DOMAIN sent' = DOMAIN sent
      /\ \A i \in DOMAIN sent : /\ sent'[i].mine = FALSE /\ sent'[i].seen = sent[i].seen
                                /\ sent'[i].why = sent[i].why /\ sent'[i].at = sent[i].at
    <2>1. sent' \in [1..Len(sent) -> Underway]
        BY <1>3, <1>4
    <2>2. sent' \in Seq(Underway) /\ Len(sent') = Len(sent)
        BY <1>2, <2>1
    <2> QED BY <1>2, <1>3, <1>4, <2>1, <2>2
<1>6. TypeOK'
    BY <1>1, <1>2, <1>3, <1>5, Frame DEF TypeOK, Underway
<1>7. Offered' /\ Reasons' /\ OneMine'
    BY <1>2, <1>3, <1>5, Frame DEF IInv, Offered, Reasons, OneMine
<1>8. Effective'
    BY <1>3, <1>5, Frame DEF IInv, Effective, Spent
<1> QED BY <1>6, <1>7, <1>8 DEF IInv

\* A request is sent for what the page, or the dialog, showed; where the button is guarded
\* none of this intention is under way.
LEMMA SubmitStep ==
    ASSUME IInv, Submit
    PROVE  IInv'
<1> DEFINE seen == IF offer.dialog THEN form.seen ELSE view
           r == [at |-> "way", why |-> "none", mine |-> TRUE, seen |-> seen]
           n == Len(sent)
<1>1. TypeOK /\ Offered /\ Reasons /\ OneMine /\ Effective
    BY DEF IInv
<1>2. /\ IF offer.dialog THEN form.open ELSE Shown
      /\ ~Busy /\ n < MaxSent /\ sent' = Append(sent, r)
      /\ effects' = 0 \/ effects' = effects
      /\ UNCHANGED <<offer, role, filled, rec, view, due, form, said, others>>
    BY DEF Submit
<1>3. /\ sent \in Seq(Underway) /\ n \in Nat /\ MaxSent \in Nat /\ DOMAIN sent = 1..n
      /\ offer.dialog \in BOOLEAN
    BY <1>1, Rules, Sent
<1>4. seen \in Statuses /\ seen \in offer.shown
    BY <1>1, <1>2, <1>3 DEF TypeOK, Offered, Shown
<1>5. /\ r \in Underway /\ r.seen = seen /\ r.why = "none" /\ r.at = "way" /\ r.mine = TRUE
    BY <1>1, <1>4 DEF Underway, TypeOK
<1> HIDE DEF seen, r
<1>6. /\ sent' \in Seq(Underway) /\ Len(sent') = n + 1
      /\ \A j \in 1..n + 1 : sent'[j] = IF j <= n THEN sent[j] ELSE r
    BY <1>2, <1>3, <1>5, AppendProperties
<1>7. /\ DOMAIN sent' = 1..n + 1
      /\ \A j \in DOMAIN sent' : \/ j \in DOMAIN sent /\ sent'[j] = sent[j]
                                 \/ j = n + 1 /\ sent'[j] = r
    <2>1. DOMAIN sent' = 1..n + 1
        BY <1>6
    <2>2. ASSUME NEW j \in 1..n + 1
          PROVE  (j \in 1..n /\ sent'[j] = sent[j]) \/ (j = n + 1 /\ sent'[j] = r)
        BY <1>3, <1>6
    <2> QED BY <1>3, <2>1, <2>2
<1>8. TypeOK'
    <2>1. Len(sent') <= MaxSent /\ effects' \in 0..MaxEffects
        BY <1>1, <1>2, <1>3, <1>6, ActionAssumption DEF TypeOK
    <2> QED BY <1>1, <1>2, <1>6, <2>1, Frame DEF TypeOK, Underway
<1>9. Offered'
    BY <1>1, <1>2, <1>4, <1>5, <1>7 DEF Offered
<1>10. Reasons'
    BY <1>1, <1>2, <1>5, <1>7, Frame DEF Reasons
<1>11. OneMine'
    <2> SUFFICES ASSUME offer.guard, NEW i \in DOMAIN sent', NEW j \in DOMAIN sent',
                        sent'[i].mine, sent'[j].mine
                 PROVE  i = j
        BY <1>2 DEF OneMine
    <2>1. \A k \in DOMAIN sent : ~sent[k].mine
        BY <1>2 DEF Busy
    <2> QED BY <1>7, <2>1
<1>12. Effective'
    <2> SUFFICES ASSUME effects' = effects PROVE Effective'
        BY <1>2 DEF Effective
    <2>1. \A j \in DOMAIN sent' : sent'[j].at = "checked"
                                   => j \in DOMAIN sent /\ sent'[j] = sent[j]
        BY <1>5, <1>7
    <2> QED BY <1>1, <1>2, <2>1, Frame DEF Effective, Spent
<1> QED BY <1>8, <1>9, <1>10, <1>11, <1>12 DEF IInv

\* The reason of a refusal is what is wrong; there is none for a status to start from.
LEMMA Refusing ==
    ASSUME NEW i
    PROVE  /\ Refusal(i) \in {"none", "forbidden", "incomplete", "conflict"}
           /\ Refusal(i) = "forbidden" => role \notin Call.roles
           /\ Refusal(i) = "incomplete" => Incomplete
           /\ Refusal(i) = "none" => rec \in Call.from /\ Admitted
BY DEF Refusal, Incomplete, Admitted

\* A request is checked: where the check tells, none of a spent intention passes.
LEMMA CheckStep ==
    ASSUME IInv, NEW i \in DOMAIN sent, Check(i)
    PROVE  IInv'
<1>1. TypeOK /\ Offered /\ Reasons /\ OneMine /\ Effective
    BY DEF IInv
<1>2. /\ UNCHANGED <<offer, role, filled, rec, view, due, form, said, effects, others>>
      /\ sent[i].at = "way" /\ sent[i] \in Underway
    BY <1>1, Sent DEF Check
<1> DEFINE x == IF Refusal(i) = "none" THEN "checked" ELSE "refused"
           y == IF Refusal(i) = "none" THEN sent[i].why ELSE Refusal(i)
<1>3. /\ x \in {"way", "checked", "done", "refused"}
      /\ y \in {"none", "forbidden", "incomplete", "conflict"}
    BY <1>2, Refusing DEF Underway
<1>4. \/ sent' = [sent EXCEPT ![i].at = x] /\ y = sent[i].why
      \/ sent' = [sent EXCEPT ![i].at = x, ![i].why = y]
    BY DEF Check, Refused
<1>5. /\ x = "checked" => rec \in Call.from /\ Admitted
      /\ x \in {"checked", "refused"}
      /\ x = "refused" => y # "none"
      /\ y = "forbidden" => role \notin Call.roles
      /\ y = "incomplete" => Incomplete
    BY <1>1, Refusing DEF Reasons
<1> HIDE DEF x, y
<1>6. /\ sent' \in Seq(Underway) /\ Len(sent') = Len(sent) /\ DOMAIN sent' = DOMAIN sent
      /\ \A j \in DOMAIN sent : /\ sent'[j].mine = sent[j].mine
                                /\ sent'[j].seen = sent[j].seen
                                /\ j # i => sent'[j] = sent[j]
      /\ sent'[i].at = x /\ sent'[i].why = y
    <2>1. TypeOK /\ i \in DOMAIN sent
        BY <1>1
    <2>2. CASE sent' = [sent EXCEPT ![i].at = x] /\ y = sent[i].why
        BY <1>3, <2>1, <2>2, Moved
    <2>3. CASE sent' = [sent EXCEPT ![i].at = x, ![i].why = y]
        BY <1>3, <2>1, <2>3, Moved
    <2> QED BY <1>4, <2>2, <2>3
<1>7. TypeOK'
    BY <1>1, <1>2, <1>6, Frame DEF TypeOK, Underway
<1>8. Offered' /\ OneMine'
    BY <1>1, <1>2, <1>6 DEF Offered, OneMine
<1>9. Reasons'
    BY <1>1, <1>2, <1>5, <1>6, Frame DEF Reasons
<1>10. Effective'
    <2>1. ASSUME effects >= 1, CheckTells(offer), NEW j \in DOMAIN sent,
                 sent'[j].at = "checked"
          PROVE  ~sent'[j].mine
        <3>1. rec \in Call.to /\ Call.to \cap Call.from = {}
            BY <1>1, <2>1 DEF Effective, Spent, CheckTells, Call
        <3>2. j # i
            BY <1>5, <1>6, <2>1, <3>1
        <3> QED BY <1>1, <1>6, <2>1, <3>2 DEF Effective, Spent
    <2> QED BY <1>1, <1>2, <1>6, <2>1, Frame DEF Effective, Spent
<1> QED BY <1>7, <1>8, <1>9, <1>10 DEF IInv

\* The write: what it counts as an effect, the next request finds spent.
LEMMA WriteStep ==
    ASSUME IInv, NEW i \in DOMAIN sent, sent[i].at = "checked", rec \in Call.writes,
           Write(i), UNCHANGED <<offer, role, filled, view, due, form, said, others>>
    PROVE  IInv'
<1>1. TypeOK /\ Offered /\ Reasons /\ OneMine /\ Effective
    BY DEF IInv
<1>2. PICK s \in Results :
         /\ rec' = s
         /\ effects' = IF Counts(i, s) /\ effects < MaxEffects THEN effects + 1 ELSE effects
         /\ sent' = [sent EXCEPT ![i].at = "done"]
    BY DEF Write
<1>3. /\ sent[i] \in Underway /\ MaxEffects \in Nat /\ effects \in Nat
      /\ Call.to \subseteq Statuses /\ Call.adds \in BOOLEAN
    BY <1>1, Rules, Sent
<1>4. /\ sent' \in Seq(Underway) /\ Len(sent') = Len(sent) /\ DOMAIN sent' = DOMAIN sent
      /\ \A j \in DOMAIN sent : /\ sent'[j].mine = sent[j].mine
                                /\ sent'[j].seen = sent[j].seen
                                /\ j # i => sent'[j] = sent[j]
      /\ sent'[i].at = "done" /\ sent'[i].why = sent[i].why
    <2>1. sent[i].why \in {"none", "forbidden", "incomplete", "conflict"}
        BY <1>3 DEF Underway
    <2> QED BY <1>1, <1>2, <2>1, Moved
<1>5. /\ s \in Statuses /\ (Call.to = {} => s = rec) /\ (Call.to # {} => s \in Call.to)
      /\ rec' = s /\ rec' \in Statuses
    BY <1>1, <1>2, <1>3 DEF Results, TypeOK
<1>6. effects' \in 0..MaxEffects
    BY <1>1, <1>2, <1>3 DEF TypeOK
<1>7. TypeOK'
    BY <1>1, <1>4, <1>5, <1>6, Frame DEF TypeOK, Underway
<1>8. Offered' /\ OneMine'
    BY <1>1, <1>4 DEF Offered, OneMine
<1>9. Reasons'
    BY <1>1, <1>4, Frame DEF Reasons
<1>10. ASSUME WriteTells(offer), effects' >= 1
       PROVE  s \in Call.to /\ (s \in Call.writes => Call.to = {s}) /\ effects' = 1
    <2>1. ~Call.adds /\ \A t \in Call.to \cap Call.writes : Call.to = {t} \/ Call.writes = {t}
        BY <1>10 DEF WriteTells, Call
    <2>2. CASE effects >= 1
        <3>1. rec \in Call.to /\ Call.to = {rec} /\ effects = 1
            BY <1>1, <1>10, <2>2 DEF Effective, Spent
        <3>2. s = rec /\ ~Counts(i, s)
            BY <1>5, <2>1, <3>1 DEF Counts
        <3> QED BY <1>2, <3>1, <3>2
    <2>3. CASE ~(effects >= 1)
        <3>1. effects = 0
            BY <1>3, <2>3
        <3>2. effects' = 1 /\ Counts(i, s)
            BY <1>2, <1>10, <3>1
        <3>3. s # rec
            BY <2>1, <3>2 DEF Counts
        <3> QED BY <1>5, <2>1, <3>2, <3>3
    <2> QED BY <2>2, <2>3
<1>11. ASSUME CheckTells(offer), effects' >= 1
       PROVE  /\ s \in Call.to /\ effects' = 1
              /\ \A j \in DOMAIN sent' : sent'[j].at = "checked" => ~sent'[j].mine
    <2>1. offer.guard /\ s \in Call.to
        BY <1>5, <1>11 DEF CheckTells, Call
    <2>2. CASE effects >= 1
        <3>1. effects = 1 /\ \A j \in DOMAIN sent : sent[j].at = "checked" => ~sent[j].mine
            BY <1>1, <1>11, <2>2 DEF Effective, Spent
        <3>2. ~Counts(i, s)
            BY <3>1 DEF Counts
        <3>3. effects' = 1
            BY <1>2, <3>1, <3>2
        <3>4. \A j \in DOMAIN sent' : sent'[j].at = "checked" => ~sent'[j].mine
            BY <1>4, <3>1
        <3> QED BY <2>1, <3>3, <3>4
    <2>3. CASE ~(effects >= 1)
        <3>1. effects = 0
            BY <1>3, <2>3
        <3>2. effects' = 1 /\ sent[i].mine
            BY <1>2, <1>11, <3>1 DEF Counts
        <3>3. \A j \in DOMAIN sent' : sent'[j].at = "checked" => ~sent'[j].mine
            BY <1>1, <1>4, <2>1, <3>2 DEF OneMine
        <3> QED BY <2>1, <3>2, <3>3
    <2> QED BY <2>2, <2>3
<1>12. Effective'
    BY <1>5, <1>10, <1>11, Frame DEF Effective, Spent
<1> QED BY <1>7, <1>8, <1>9, <1>12 DEF IInv

\* The write goes through, or meets a status it does not ask for.
LEMMA CommitStep ==
    ASSUME IInv, NEW i \in DOMAIN sent, Commit(i)
    PROVE  IInv'
<1>1. TypeOK /\ Offered /\ Reasons /\ OneMine /\ Effective
    BY DEF IInv
<1>2. /\ sent[i].at = "checked"
      /\ UNCHANGED <<offer, role, filled, view, due, form, said, others>>
    BY DEF Commit
<1>3. CASE rec \in Call.writes /\ Write(i)
    BY <1>2, <1>3, WriteStep
<1>4. CASE Refused(i, "conflict") /\ UNCHANGED <<rec, effects>>
    <2>1. sent' = [sent EXCEPT ![i].at = "refused", ![i].why = "conflict"]
        BY <1>4 DEF Refused
    <2>2. /\ sent' \in Seq(Underway) /\ Len(sent') = Len(sent) /\ DOMAIN sent' = DOMAIN sent
          /\ \A j \in DOMAIN sent : /\ sent'[j].mine = sent[j].mine
                                    /\ sent'[j].seen = sent[j].seen
                                    /\ j # i => sent'[j] = sent[j]
          /\ sent'[i].at = "refused" /\ sent'[i].why = "conflict"
        BY <1>1, <2>1, Moved
    <2>3. TypeOK'
        BY <1>1, <1>2, <1>4, <2>2, Frame DEF TypeOK, Underway
    <2>4. Offered' /\ OneMine'
        BY <1>1, <1>2, <2>2 DEF Offered, OneMine
    <2>5. Reasons'
        BY <1>1, <1>2, <2>2, Frame DEF Reasons
    <2>6. Effective'
        BY <1>1, <1>2, <1>4, <2>2, Frame DEF Effective, Spent
    <2> QED BY <2>3, <2>4, <2>5, <2>6 DEF IInv
<1> QED BY <1>3, <1>4 DEF Commit

\* A request is answered, or given up: one less under way.
LEMMA AnswerSteps ==
    ASSUME IInv, NEW i \in DOMAIN sent, Succeed(i) \/ Fail(i)
    PROVE  IInv'
<1>1. TypeOK /\ Offered /\ Reasons /\ OneMine /\ Effective
    BY DEF IInv
<1>2. /\ Closed \in [open : BOOLEAN, seen : Statuses] /\ Closed.open = FALSE
      /\ sent[i] \in Underway /\ Len(sent) \in Nat
    BY <1>1, Rules, Sent
<1>3. /\ Gone(i) /\ UNCHANGED <<offer, role, filled, rec, view, effects, others>>
      /\ form' = form \/ form' = Closed
      /\ said' \in {"ok", "lost", sent[i].why}
    BY DEF Succeed, Fail
<1>4. due' \in BOOLEAN
    BY <1>1 DEF Succeed, Fail, TypeOK
<1>5. said' \in {"nothing", "ok", "lost", "forbidden", "incomplete", "conflict"}
    <2>1. CASE Succeed(i)
        BY <2>1 DEF Succeed
    <2>2. CASE sent[i].at \in {"way", "done"} /\ said' = "lost"
        BY <2>2
    <2>3. CASE sent[i].at = "refused" /\ said' = sent[i].why
        BY <1>1, <1>2, <2>3 DEF Underway, Reasons
    <2> QED BY <2>1, <2>2, <2>3 DEF Fail
<1>6. /\ sent' \in Seq(Underway) /\ Len(sent') = Len(sent) - 1
      /\ \A j \in DOMAIN sent' : Skip(i, j) \in DOMAIN sent /\ sent'[j] = sent[Skip(i, j)]
      /\ \A j, k \in DOMAIN sent' : Skip(i, j) = Skip(i, k) => j = k
    BY <1>1, <1>3, Left
<1>7. TypeOK'
    <2>1. Len(sent') <= MaxSent
        BY <1>1, <1>2, <1>6, ActionAssumption DEF TypeOK
    <2> QED BY <1>1, <1>2, <1>3, <1>4, <1>5, <1>6, <2>1, Frame DEF TypeOK, Underway
<1>8. Offered' /\ OneMine'
    BY <1>1, <1>2, <1>3, <1>6 DEF Offered, OneMine
<1>9. Reasons'
    <2>1. said' = "ok" => sent[i].at = "done"
        BY <1>2 DEF Succeed, Fail, Underway
    <2> QED BY <1>1, <1>3, <1>6, <2>1, Frame DEF Reasons
<1>10. Effective'
    BY <1>1, <1>3, <1>6, Frame DEF Effective, Spent
<1> QED BY <1>7, <1>8, <1>9, <1>10 DEF IInv

\* Another user writes: what was done may have to be done again.
LEMMA OtherStep ==
    ASSUME IInv, OtherWrite
    PROVE  IInv'
<1>1. TypeOK
    BY DEF IInv
<1>2. /\ others' \in 0..MaxOthers /\ effects' = 0 /\ effects' \in 0..MaxEffects
      /\ UNCHANGED <<offer, role, filled, view, due, form, sent>>
      /\ said' \in {said, "nothing"}
    BY <1>1, ActionAssumption DEF OtherWrite, TypeOK
<1>3. rec' \in Statuses
    BY <1>1 DEF OtherWrite, TypeOK
<1>4. TypeOK'
    BY <1>1, <1>2, <1>3, Frame DEF TypeOK, Underway
<1>5. Offered' /\ OneMine'
    BY <1>2 DEF IInv, Offered, OneMine
<1>6. Reasons'
    BY <1>2, Frame DEF IInv, Reasons
<1>7. Effective'
    BY <1>2 DEF Effective
<1> QED BY <1>4, <1>5, <1>6, <1>7 DEF IInv

-----------------------------------------------------------------------------
(* The theorems.                                                           *)

\* The page has just read the record; nothing is open or under way.
LEMMA InitInv == Init => IInv
<1> SUFFICES ASSUME Init PROVE IInv
    OBVIOUS
<1>1. offer \in Offers /\ filled \in Fillings /\ rec \in Statuses
    BY DEF Init
<1>2. role \in offer.roles
    <2>1. PICK R \in {offer.roles \cap Call.roles, offer.roles \ Call.roles} \ {{}} :
             role = CHOOSE r \in R : TRUE
        BY DEF Init, Roles
    <2>2. R # {} /\ R \subseteq offer.roles
        BY <2>1
    <2> QED BY <2>1, <2>2
<1>3. Closed \in [open : BOOLEAN, seen : Statuses] /\ Closed.open = FALSE
    <2>1. (CHOOSE s \in Statuses : TRUE) \in Statuses
        BY <1>1 DEF Statuses
    <2> QED BY <2>1 DEF Closed
<1>4. << >> \in Seq(Underway) /\ Len(<< >>) = 0 /\ (\A i \in DOMAIN << >> : FALSE)
    OBVIOUS
<1>5. /\ sent = << >> /\ view = rec /\ due = FALSE /\ form = Closed /\ said = "nothing"
      /\ effects = 0 /\ others = 0
    BY DEF Init
<1>6. TypeOK
    <2>1. sent \in Seq(Underway) /\ Len(sent) <= MaxSent
        BY <1>4, <1>5, ActionAssumption
    <2>2. effects \in 0..MaxEffects /\ others \in 0..MaxOthers
        BY <1>5, ActionAssumption
    <2>3. view \in Statuses /\ due \in BOOLEAN
        BY <1>1, <1>5
    <2> QED BY <1>1, <1>2, <1>3, <1>5, <2>1, <2>2, <2>3 DEF TypeOK, Underway
<1>7. Offered /\ Reasons /\ OneMine /\ Effective
    BY <1>3, <1>4, <1>5 DEF Offered, Reasons, OneMine, Effective
<1> QED BY <1>6, <1>7 DEF IInv

\* Every step keeps the invariant.
LEMMA StepInv == IInv /\ [Next]_vars => IInv'
<1> SUFFICES ASSUME IInv, [Next]_vars PROVE IInv'
    OBVIOUS
<1>1. CASE Reread \/ Revisit
    BY <1>1, ReadSteps
<1>2. CASE OpenDialog
    BY <1>2, OpenStep
<1>3. CASE Cancel
    BY <1>3, CancelStep
<1>4. CASE Submit
    BY <1>4, SubmitStep
<1>5. CASE OtherWrite
    BY <1>5, OtherStep
<1>6. ASSUME NEW i \in DOMAIN sent, Check(i) \/ Commit(i) \/ Succeed(i) \/ Fail(i) PROVE IInv'
    BY <1>6, CheckStep, CommitStep, AnswerSteps
<1>7. CASE UNCHANGED vars
    <2>1. UNCHANGED <<offer, role, filled, rec, view, due, form, sent, said, effects, others>>
        BY <1>7 DEF vars
    <2>2. TypeOK' /\ Offered' /\ OneMine'
        BY <2>1, Frame DEF IInv, TypeOK, Offered, OneMine
    <2>3. Reasons' /\ Effective'
        BY <2>1, Frame DEF IInv, Reasons, Effective, Spent
    <2> QED BY <2>2, <2>3 DEF IInv
<1> QED BY <1>1, <1>2, <1>3, <1>4, <1>5, <1>6, <1>7 DEF Next

\* The inductive invariant, at every state.
THEOREM InductiveInvariant == Spec => []IInv
BY InitInv, StepInv, PTL DEF Spec

\* The record, the page's copy of it, the dialog and the requests keep their types; no
\* more requests are under way than the bound.
THEOREM TypeCorrect == Spec => []TypeOK
<1>1. IInv => TypeOK
    BY DEF IInv
<1> QED BY <1>1, InductiveInvariant, PTL

\* One confirmation takes effect at most once, however often it is sent again with a new
\* key (mutator.ts:27): the operation's own guard, or the guarded button and the check
\* together, tell a second request from the first.
THEOREM ConfirmedOnce == Spec => []OneEffectPerIntention
<1>1. IInv => OneEffectPerIntention
    <2> SUFFICES ASSUME IInv, offer.name \notin Repeats PROVE effects <= 1
        BY DEF OneEffectPerIntention
    <2>1. TypeOK /\ Effective
        BY DEF IInv
    <2>2. WriteTells(offer) \/ CheckTells(offer)
        BY <2>1, Rules
    <2>3. effects \in Nat
        BY <2>1, Sent
    <2> QED BY <2>1, <2>2, <2>3 DEF Effective
<1> QED BY <1>1, InductiveInvariant, PTL

\* The server refuses for the record's status only a user who was overtaken: what was
\* sent is what the page offered, and the page offers an operation where it starts.
THEOREM RefusedWhenOvertaken == Spec => []RefusedOnlyIfOvertaken
<1>1. IInv => RefusedOnlyIfOvertaken
    BY Rules DEF IInv, Offered, RefusedOnlyIfOvertaken
<1> QED BY <1>1, InductiveInvariant, PTL

\* A button that only admitted roles are shown is never refused for the role.
THEOREM ShownToServed ==
    ASSUME \A o \in Offers : o.name \notin NotServed => o.roles \subseteq o.op.roles
    PROVE  Spec => []OfferedToServed
<1>1. IInv => OfferedToServed
    BY DEF IInv, TypeOK, Reasons, OfferedToServed, Call
<1> QED BY <1>1, InductiveInvariant, PTL

\* A form that insists on, and sends by itself, what the operation needs is never refused
\* as incomplete, however sparsely it is filled in, if no field is taken only with another.
THEOREM FormsComplete ==
    ASSUME \A o \in Offers :
              /\ o.asks \subseteq o.fields
              /\ o.name \notin Unasked => AsksEnough(o)
    PROVE  Spec => []AskedIsEnough
<1>1. ASSUME IInv, offer.name \notin Unasked PROVE ~Incomplete
    <2>1. offer \in Offers /\ filled \in Fillings
        BY <1>1 DEF IInv, TypeOK
    <2>2. AsksEnough(offer) /\ offer.asks \subseteq filled
        BY <1>1, <2>1 DEF Fillings
    <2> QED BY <2>2 DEF AsksEnough, Incomplete, Went, Call
<1>2. IInv => AskedIsEnough
    BY <1>1 DEF IInv, Reasons, AskedIsEnough
<1> QED BY <1>2, InductiveInvariant, PTL

\* Success is told only to a role the server admits and of a request that carried every
\* field the operation needs, and of two taken together both or neither: no answer is taken
\* for the success of another request.
THEOREM SuccessWasAdmitted ==
    Spec => [](said = "ok" =>
                   /\ role \in Call.roles
                   /\ Call.needs \subseteq Went
                   /\ \A p \in Call.pairs : p[1] \in Went => p[2] \in Went)
<1>1. IInv /\ said = "ok" => /\ role \in Call.roles /\ Call.needs \subseteq Went
                            /\ \A p \in Call.pairs : p[1] \in Went => p[2] \in Went
    BY DEF IInv, Reasons, Admitted, Incomplete
<1> QED BY <1>1, InductiveInvariant, PTL

\* A form that sends every field it has, or is refused for one it never sends, is told of
\* success only when everything that was entered went with the request and is stored.
THEOREM EntriesKept ==
    ASSUME \A o \in Offers :
              /\ o.asks \subseteq o.fields
              /\ o.name \notin Dropped => SendsAll(o) \/ ~(o.op.needs \subseteq o.sends)
    PROVE  Spec => []KeepsWhatWasTyped
<1>1. ASSUME IInv, said = "ok", offer.name \notin Dropped
      PROVE  filled \subseteq Went \ Call.ignores
    <2>1. offer \in Offers /\ filled \in Fillings /\ ~Incomplete
        BY <1>1 DEF IInv, TypeOK, Reasons, Admitted
    <2>2. filled \subseteq offer.fields
        BY <2>1 DEF Fillings
    <2>3. offer.op.needs \subseteq offer.sends
        BY <2>1 DEF Incomplete, Went, Call
    <2>4. SendsAll(offer)
        BY <1>1, <2>1, <2>3
    <2> QED BY <2>2, <2>4 DEF SendsAll, Went, Call
<1>2. IInv => KeepsWhatWasTyped
    BY <1>1 DEF KeepsWhatWasTyped
<1> QED BY <1>2, InductiveInvariant, PTL

\* Where the write asks for the status again, or could only write what is there, a status
\* changes only from one the operation allows and the page offers it at, whatever happened
\* since the check.
THEOREM ChangedFromAllowed ==
    ASSUME \A o \in Offers : o.name \notin CheckedEarly =>
              \A s \in o.op.writes \ (o.op.from \cap o.shown) : o.op.to \subseteq {s}
    PROVE  Spec => WrittenFromAllowed
<1>1. ASSUME IInv, NEW i \in DOMAIN sent, Commit(i), offer.name \notin CheckedEarly
      PROVE  rec' = rec \/ rec \in Call.from \cap offer.shown
    <2>1. CASE rec' = rec
        BY <2>1
    <2>2. CASE rec \in Call.writes /\ Write(i)
        <3>1. PICK s \in Results : rec' = s
            BY <2>2 DEF Write
        <3>2. \/ rec \in Call.from \cap offer.shown
              \/ Call.to \subseteq {rec}
            BY <1>1, <2>2 DEF IInv, TypeOK, Call
        <3> QED BY <3>1, <3>2 DEF Results
    <2> QED BY <1>1, <2>1, <2>2 DEF Commit
<1>2. IInv /\ [Next]_vars
      => [(\E i \in DOMAIN sent : Commit(i)) /\ offer.name \notin CheckedEarly
            => rec' = rec \/ rec \in Call.from \cap offer.shown]_vars
    BY <1>1
<1> QED BY <1>2, InductiveInvariant, PTL DEF Spec, WrittenFromAllowed
=============================================================================
