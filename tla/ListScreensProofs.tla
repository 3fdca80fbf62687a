--------------------------- MODULE ListScreensProofs ---------------------------
(***************************************************************************)
(* ListScreens for any screens that reset what ScreensReset says they do,  *)
(* any filters, any number of pages and any length of the history: every   *)
(* variable keeps its type, a page is asked for with a cursor of the       *)
(* filters it is asked with, Prev leads back page by page, a selection is  *)
(* of the rows listed, and Next shows the next page.                       *)
(***************************************************************************)
EXTENDS ListScreens, TLAPS, SequenceTheorems

-----------------------------------------------------------------------------
(* The inductive invariant.                                                *)

\* A search: the filters and the cursor in force.
Searches == [f : Filters, cur : Cursors]

\* More rows are announced only before the last page.
MoreAhead == answer = "more" => at.cur.page < LastPage

\* A search whose cursor was handed out for its filters.
Honest(a) == IsCursorOf(a.cur, a.f)

\* Where no stack can have kept the cursors of other filters.
InStep == screen.prev = "home" \/ (screen.name \notin KeepStack /\ detached # "back")

\* The cursor in force, and those kept to go back, are of the filters in force; a pager
\* that only goes home keeps none, and one that never leaves the first page has no other.
CursorsMeant ==
    /\ InStep => Honest(at) /\ \A i \in 1..Len(stack) : IsCursorOf(stack[i], at.f)
    /\ screen.prev = "home" => stack = << >> /\ \A i \in 1..Len(past) : Honest(past[i])
    /\ screen.next = "drop" => /\ at.cur = Home
                               /\ \A i \in 1..Len(stack) : stack[i] = Home
                               /\ \A i \in 1..Len(past) : past[i].cur = Home

\* Only a screen with a selection has rows selected, and drops them with a new filter.
TicksMeant ==
    (ticked.on /\ screen.name \notin KeepTicks)
        => screen.ticks /\ (ticked.f = at.f \/ detached = "back")

IInv == TypeOK /\ MoreAhead /\ CursorsMeant /\ StackLeadsBack /\ TicksMeant

-----------------------------------------------------------------------------
(* The operators.                                                          *)

\* What the type invariant says of single values.
LEMMA Values ==
    ASSUME TypeOK
    PROVE  /\ Unfiltered \in Filters /\ Home \in Cursors /\ Home.page = 0
           /\ None \in [on : BOOLEAN, f : Filters] /\ None.on = FALSE
           /\ at.f \in Filters /\ at.cur \in Cursors /\ typed \in Filters
           /\ \A c \in Cursors : c.page \in 0..LastPage
           /\ LastPage \in Nat /\ MaxPast \in Nat
           /\ Len(stack) \in Nat /\ Len(past) \in Nat
<1>1. Unfiltered \in Filters
    BY DEF Unfiltered, Filters
<1>2. Home \in Cursors /\ Home.page = 0
    BY DEF Home, Cursors
<1>3. None \in [on : BOOLEAN, f : Filters] /\ None.on = FALSE
    BY <1>1 DEF None
<1>4. \A c \in Cursors : c.page \in 0..LastPage
    BY ListAssumption DEF Cursors, Home
<1> QED BY <1>1, <1>2, <1>3, <1>4, ListAssumption DEF TypeOK

\* The last member of a sequence, and what is before it.
LEMMA Ends ==
    ASSUME NEW S, NEW s \in Seq(S), s # << >>
    PROVE  /\ Last(s) \in S /\ Last(s) = s[Len(s)] /\ Len(s) >= 1
           /\ Front(s) \in Seq(S) /\ Len(Front(s)) = Len(s) - 1
           /\ \A i \in 1..Len(s) - 1 : Front(s)[i] = s[i]
<1>1. Len(s) \in Nat \ {0} /\ s \in [1..Len(s) -> S]
    BY EmptySeq, LenProperties
<1>2. 1 \in 1..Len(s) + 1 /\ Len(s) - 1 \in 1 - 1..Len(s)
    BY <1>1
<1>3. /\ SubSeq(s, 1, Len(s) - 1) \in Seq(S)
      /\ Len(SubSeq(s, 1, Len(s) - 1)) = Len(s) - 1
      /\ \A i \in 1..Len(s) - 1 : SubSeq(s, 1, Len(s) - 1)[i] = s[i]
    BY <1>1, <1>2, SubSeqProperties
<1> QED BY <1>1, <1>3 DEF Last, Front

\* A new filter sets one of the filters.
LEMMA SetTyped ==
    ASSUME NEW f \in Filters, NEW k \in focus, NEW v \in {0, 1}
    PROVE  Set(f, k, v) \in Filters
BY DEF Filters, Set

\* The text a box is mounted with, and the one that is typed in it, are filters' values.
LEMMA BoxTyped ==
    ASSUME TypeOK
    PROVE  /\ \A f \in Filters : Seeded(f) \in Filters
           /\ \A k \in focus, v \in {0, 1} : Entered(k, v) => typed' \in Filters
<1>1. \A f \in Filters : Seeded(f) \in Filters
    BY DEF Seeded, Filters
<1>2. ASSUME NEW k \in focus, NEW v \in {0, 1}, Entered(k, v) PROVE typed' \in Filters
    <2>1. typed \in [focus -> {0, 1}] /\ [typed EXCEPT ![k] = v] \in [focus -> {0, 1}]
        BY Values DEF Filters
    <2> QED BY <1>2, <2>1 DEF Entered, Filters
<1> QED BY <1>1, <1>2

\* What a search shows is typed, and announces more only before the last page.
LEMMA ShowsTyped ==
    ASSUME TypeOK, MoreAhead, NEW a \in Searches, Shows(a)
    PROVE  /\ at' = a /\ (at' = at => answer' = answer) /\ (at' # at => answer' = "loading")
           /\ answer' \in {"loading", "empty", "last", "more", "failed"}
           /\ MoreAhead'
BY DEF Shows, TypeOK, MoreAhead

\* Remembering a search adds it to a history that has room.
LEMMA Remembered ==
    ASSUME TypeOK, Room, Remember
    PROVE  /\ past' \in Seq(Searches) /\ Len(past') <= MaxPast
           /\ \A i \in 1..Len(past') : \/ past'[i] = at
                                       \/ i \in 1..Len(past) /\ past'[i] = past[i]
<1>1. past \in Seq(Searches) /\ Len(past) \in Nat /\ MaxPast \in Nat /\ at \in Searches
    BY Values DEF TypeOK, Searches
<1>2. CASE screen.store = "url"
    BY <1>1, <1>2 DEF TypeOK, Room, Remember
<1>3. CASE screen.store # "url"
    BY <1>1, <1>3 DEF TypeOK, Room, Remember
<1> QED BY <1>2, <1>3

\* Screens that reset what they should, at one filter and at the reset of all.
LEMMA ResetRules ==
    ASSUME TypeOK
    PROVE  /\ screen.prev \in {"home", "pop"} /\ screen.next \in {"push", "drop", "leave"}
           /\ screen.ticks \in BOOLEAN /\ (screen.opens = "home" => screen.prev = "home")
           /\ screen.name \notin OneWayPager => screen.next = "push"
           /\ \A c \in Resets(screen) :
                /\ screen.next # "drop" => "cursor" \in c
                /\ (screen.next # "drop" /\ screen.prev = "pop" /\ screen.name \notin KeepStack)
                      => "stack" \in c
                /\ screen.ticks /\ screen.name \notin KeepTicks => "ticks" \in c
           /\ screen.clears \in Resets(screen)
           /\ \A k \in DOMAIN screen.special : screen.special[k] \in Resets(screen)
BY ScreensReset DEF TypeOK, Resets

-----------------------------------------------------------------------------
(* Each kind of step keeps the invariant.                                  *)

\* On the same screen with the same filters exercised, the searches are the same.
LEMMA Frame ==
    ASSUME UNCHANGED <<screen, focus>>
    PROVE  /\ Filters' = Filters /\ Unfiltered' = Unfiltered /\ Home' = Home
           /\ Cursors' = Cursors /\ None' = None /\ Searches' = Searches
           /\ Keys(screen)' = Keys(screen)
BY DEF Filters, Unfiltered, Home, Cursors, None, Searches, Keys

\* The history that remembers the search in force remembers an honest one.
LEMMA PastMeant ==
    ASSUME IInv, Room, Remember, UNCHANGED <<screen, focus>>
    PROVE  /\ screen.prev = "home" => \A i \in 1..Len(past') : Honest(past'[i])
           /\ screen.next = "drop" => \A i \in 1..Len(past') : past'[i].cur = Home
           /\ past' \in Seq(Searches) /\ Len(past') <= MaxPast
<1>1. TypeOK /\ CursorsMeant
    BY DEF IInv
<1>2. /\ past' \in Seq(Searches) /\ Len(past') <= MaxPast
      /\ \A i \in 1..Len(past') : past'[i] = at \/ (i \in 1..Len(past) /\ past'[i] = past[i])
    BY <1>1, Remembered
<1>3. screen.prev = "home" => Honest(at)
    BY <1>1 DEF CursorsMeant, InStep
<1>4. ASSUME screen.prev = "home", NEW i \in 1..Len(past') PROVE Honest(past'[i])
    <2>1. CASE past'[i] = at
        BY <1>3, <1>4, <2>1
    <2>2. CASE i \in 1..Len(past) /\ past'[i] = past[i]
        BY <1>1, <1>4, <2>2 DEF CursorsMeant
    <2> QED BY <1>2, <1>4, <2>1, <2>2
<1>5. ASSUME screen.next = "drop", NEW i \in 1..Len(past') PROVE past'[i].cur = Home
    BY <1>1, <1>2, <1>5 DEF CursorsMeant
<1> QED BY <1>2, <1>4, <1>5

\* Steps that leave the search, the stack and the history alone.
LEMMA Still ==
    ASSUME IInv, UNCHANGED <<screen, focus, at, stack, past, detached>>,
           answer' \in {"loading", "empty", "last", "more", "failed"}, MoreAhead',
           typed' \in Filters,
           timer' \in [on : BOOLEAN, f : Filters], ticked' \in [on : BOOLEAN, f : Filters],
           ticked' = ticked \/ (screen.ticks /\ ticked'.f = at.f) \/ ticked'.on = FALSE,
           away' \in BOOLEAN
    PROVE  IInv'
<1>1. TypeOK'
    BY Frame DEF IInv, TypeOK
<1>2. CursorsMeant'
    BY Frame DEF IInv, CursorsMeant, InStep, Honest, IsCursorOf
<1>3. StackLeadsBack'
    BY Frame DEF IInv, StackLeadsBack, IsCursorOf
<1>4. TicksMeant'
    BY DEF IInv, TicksMeant
<1> QED BY <1>1, <1>2, <1>3, <1>4 DEF IInv

\* Steps that change the filters: the first page of the new ones, nothing to go back to
\* where pages were turned, and nothing selected.
LEMMA Refiltered ==
    ASSUME IInv, Room, Remember, UNCHANGED <<screen, focus, detached>>,
           NEW g \in Filters, Shows([f |-> g, cur |-> Home]),
           stack' = << >> \/ (stack' = stack /\ (\/ screen.next = "drop" \/ screen.prev = "home"
                                                 \/ screen.name \in KeepStack)),
           ticked' = None \/ (ticked' = ticked /\ (\/ screen.ticks = FALSE
                                                  \/ screen.name \in KeepTicks)),
           timer' \in [on : BOOLEAN, f : Filters], away' \in BOOLEAN, typed' \in Filters
    PROVE  IInv'
<1> DEFINE a == [f |-> g, cur |-> Home]
<1>1. TypeOK /\ MoreAhead /\ CursorsMeant /\ TicksMeant
    BY DEF IInv
<1>2. a \in Searches /\ a.f = g /\ a.cur = Home /\ Honest(a)
    BY <1>1, Values DEF Searches, Honest, IsCursorOf
<1>3. Shows(a)
    OBVIOUS
<1> HIDE DEF a
<1>4. /\ at' = a /\ MoreAhead'
      /\ answer' \in {"loading", "empty", "last", "more", "failed"}
    BY <1>1, <1>2, <1>3, ShowsTyped
<1>5. stack' \in Seq(Cursors) /\ Len(stack') <= LastPage + 1
    <2>1. << >> \in Seq(Cursors) /\ Len(<< >>) = 0 /\ 0 <= LastPage + 1
        BY ListAssumption
    <2>2. stack \in Seq(Cursors) /\ Len(stack) <= LastPage + 1
        BY <1>1 DEF TypeOK
    <2> QED BY <2>1, <2>2
<1>6. ticked' \in [on : BOOLEAN, f : Filters]
    BY <1>1, Values DEF TypeOK
<1>7. TypeOK'
    BY <1>1, <1>2, <1>4, <1>5, <1>6, Frame, PastMeant DEF TypeOK, Searches
<1>8. CursorsMeant'
    <2>1. InStep' => Honest(at)' /\ \A i \in 1..Len(stack') : IsCursorOf(stack[i], at.f)'
        <3>1. Honest(at)'
            BY <1>2, <1>4, Frame DEF Honest, IsCursorOf
        <3>2. ASSUME InStep', NEW i \in 1..Len(stack') PROVE IsCursorOf(stack[i], at.f)'
            <4>1. CASE stack' = << >>
                BY <4>1, <3>2
            <4>2. CASE stack' = stack /\ screen.next = "drop"
                BY <4>2, <3>2, <1>1, Frame DEF CursorsMeant, IsCursorOf
            <4>3. CASE stack' = stack /\ screen.prev = "home"
                BY <4>3, <3>2, <1>1 DEF CursorsMeant
            <4>4. CASE stack' = stack /\ screen.name \in KeepStack /\ screen.prev # "home"
                BY <4>4, <3>2 DEF InStep
            <4> QED BY <4>1, <4>2, <4>3, <4>4
        <3> QED BY <3>1, <3>2
    <2>2. screen'.prev = "home" => stack' = << >> /\ \A i \in 1..Len(past') : Honest(past[i])'
        BY <1>1, Frame, PastMeant DEF CursorsMeant, Honest, IsCursorOf
    <2>3. screen'.next = "drop" => /\ at'.cur = Home'
                                   /\ \A i \in 1..Len(stack') : stack'[i] = Home'
                                   /\ \A i \in 1..Len(past') : past'[i].cur = Home'
        BY <1>1, <1>2, <1>4, Frame, PastMeant DEF CursorsMeant
    <2> QED BY <2>1, <2>2, <2>3 DEF CursorsMeant
<1>9. StackLeadsBack'
    <2>1. SUFFICES ASSUME screen.prev = "pop", screen.next = "push",
                          screen.name \notin KeepStack
                   PROVE  stack' = << >> /\ at'.cur.page = 0
        BY DEF StackLeadsBack
    <2> QED BY <2>1, <1>1, <1>2, <1>4, Values
<1>10. TicksMeant'
    BY <1>1, Values DEF TicksMeant
<1> QED BY <1>4, <1>7, <1>8, <1>9, <1>10 DEF IInv

\* Steps that turn a page under the same filters: the stack and the cursor stay in step.
LEMMA Turned ==
    ASSUME IInv, Room, Remember, UNCHANGED <<screen, focus, typed, timer, ticked, detached>>,
           NEW c \in Cursors, Shows([f |-> at.f, cur |-> c]), away' \in BOOLEAN,
           stack' \in Seq(Cursors), Len(stack') <= LastPage + 1,
           InStep => /\ IsCursorOf(c, at.f)
                     /\ \A i \in 1..Len(stack') : IsCursorOf(stack'[i], at.f),
           screen.prev = "home" => stack' = << >>,
           screen.next = "drop" => c = Home /\ \A i \in 1..Len(stack') : stack'[i] = Home,
           (/\ screen.prev = "pop" /\ screen.next = "push" /\ detached = "no"
            /\ screen.name \notin KeepStack)
              => Len(stack') = c.page /\ \A i \in 1..Len(stack') : stack'[i].page = i - 1
    PROVE  IInv'
<1> DEFINE a == [f |-> at.f, cur |-> c]
<1>1. TypeOK /\ MoreAhead /\ CursorsMeant /\ TicksMeant
    BY DEF IInv
<1>2. a \in Searches /\ a.f = at.f /\ a.cur = c
    BY <1>1, Values DEF Searches
<1>3. Shows(a)
    OBVIOUS
<1> HIDE DEF a
<1>4. /\ at' = a /\ MoreAhead'
      /\ answer' \in {"loading", "empty", "last", "more", "failed"}
    BY <1>1, <1>2, <1>3, ShowsTyped
<1>5. TypeOK'
    BY <1>1, <1>2, <1>4, Frame, PastMeant DEF TypeOK, Searches
<1>6. CursorsMeant'
    <2>1. InStep' => Honest(at)' /\ \A i \in 1..Len(stack') : IsCursorOf(stack[i], at.f)'
        BY <1>2, <1>4, Frame DEF InStep, Honest, IsCursorOf
    <2>2. screen'.prev = "home" => stack' = << >> /\ \A i \in 1..Len(past') : Honest(past[i])'
        BY Frame, PastMeant DEF Honest, IsCursorOf
    <2>3. screen'.next = "drop" => /\ at'.cur = Home'
                                   /\ \A i \in 1..Len(stack') : stack'[i] = Home'
                                   /\ \A i \in 1..Len(past') : past'[i].cur = Home'
        BY <1>2, <1>4, Frame, PastMeant
    <2> QED BY <2>1, <2>2, <2>3 DEF CursorsMeant
<1>7. StackLeadsBack'
    BY <1>2, <1>4, Frame DEF StackLeadsBack, InStep, IsCursorOf
<1>8. TicksMeant'
    BY <1>1, <1>2, <1>4 DEF TicksMeant
<1> QED BY <1>4, <1>5, <1>6, <1>7, <1>8 DEF IInv

\* A step with nothing to do with the search: the answer, the timer, the selection.
LEMMA StillSteps ==
    ASSUME IInv,
           \/ Load \/ Retry \/ Reread \/ Tick \/ Bulk
           \/ \E k \in focus, v \in {0, 1} : Type(k, v)
    PROVE  IInv'
<1>1. TypeOK /\ MoreAhead /\ screen.ticks \in BOOLEAN
    BY ResetRules DEF IInv
<1>2. CASE Load
    BY <1>1, <1>2, Still DEF Load, MoreAhead, TypeOK
<1>3. CASE Retry
    <2>1. typed' \in Filters
        BY <1>1, <1>3, BoxTyped DEF Retry, TypeOK
    <2> QED BY <1>1, <1>3, <2>1, Still DEF Retry, MoreAhead, TypeOK
<1>4. CASE Reread
    BY <1>1, <1>4, Still DEF Reread, MoreAhead, TypeOK
<1>5. CASE Tick
    <2>1. ticked' \in [on : BOOLEAN, f : Filters] /\ ticked'.f = at.f
        BY <1>1, <1>5, Values DEF Tick
    <2> QED BY <1>1, <1>5, <2>1, Still DEF Tick, MoreAhead, TypeOK
<1>6. CASE Bulk
    BY <1>1, <1>6, Values, Still DEF Bulk, MoreAhead, TypeOK
<1>7. ASSUME NEW k \in focus, NEW v \in {0, 1}, Type(k, v) PROVE IInv'
    <2>1. at.f \in Filters /\ Set(at.f, k, v) \in Filters
        BY <1>1, Values, SetTyped
    <2>2. timer' \in [on : BOOLEAN, f : Filters] /\ typed' \in Filters
        BY <1>1, <1>7, <2>1, BoxTyped DEF Type
    <2> QED BY <1>1, <1>7, <2>2, Still DEF Type, MoreAhead, TypeOK
<1> QED BY <1>2, <1>3, <1>4, <1>5, <1>6, <1>7

\* The record is opened from the list, which stays as it is, or goes to its first page.
LEMMA OpenStep ==
    ASSUME IInv, OpenRow
    PROVE  IInv'
<1>1. TypeOK /\ MoreAhead /\ CursorsMeant
    BY DEF IInv
<1>2. CASE screen.opens \in {"record", "above"} /\ away' = TRUE /\ UNCHANGED <<at, answer, past>>
    BY <1>1, <1>2, Still DEF OpenRow, MoreAhead, TypeOK
<1>3. CASE /\ screen.opens = "home" /\ Room /\ away' = (at.cur = Home)
           /\ Shows([at EXCEPT !.cur = Home]) /\ Remember
    <2>1. screen.prev = "home" /\ stack = << >> /\ stack' = stack
        BY <1>1, <1>3, ResetRules DEF CursorsMeant, OpenRow
    <2>2. Home \in Cursors /\ IsCursorOf(Home, at.f) /\ LastPage \in Nat
        BY <1>1, Values DEF IsCursorOf
    <2>3. [at EXCEPT !.cur = Home] = [f |-> at.f, cur |-> Home]
        BY <1>1 DEF TypeOK
    <2>4. stack' \in Seq(Cursors) /\ Len(stack') <= LastPage + 1 /\ \A i \in 1..Len(stack') : FALSE
        BY <1>1, <2>1 DEF TypeOK
    <2>5. UNCHANGED <<screen, focus, typed, timer, ticked, detached>> /\ away' \in BOOLEAN
        BY <1>3 DEF OpenRow
    <2> QED BY <1>3, <2>1, <2>2, <2>3, <2>4, <2>5, Turned
<1> QED BY <1>2, <1>3 DEF OpenRow

\* A new value of one filter.
LEMMA ChooseStep ==
    ASSUME IInv, NEW k \in focus, NEW v \in {0, 1}, Choose(k, v)
    PROVE  IInv'
<1> DEFINE clears == IF k \in DOMAIN screen.special THEN screen.special[k] ELSE screen.clears
           g == Set(at.f, k, v)
<1>1. TypeOK /\ CursorsMeant
    BY DEF IInv
<1>2. g \in Filters
    BY <1>1, Values, SetTyped
<1>3. clears \in Resets(screen)
    BY <1>1, ResetRules
<1>4. /\ screen.next # "drop" => "cursor" \in clears
      /\ (screen.next # "drop" /\ screen.prev = "pop" /\ screen.name \notin KeepStack)
            => "stack" \in clears
      /\ screen.ticks /\ screen.name \notin KeepTicks => "ticks" \in clears
      /\ screen.prev \in {"home", "pop"} /\ screen.ticks \in BOOLEAN
    BY <1>1, <1>3, ResetRules
<1>5. /\ Room /\ Remember /\ UNCHANGED <<screen, focus, timer, detached, away>>
      /\ Shows([f |-> g, cur |-> IF "cursor" \in clears THEN Home ELSE at.cur])
      /\ stack' = IF "stack" \in clears THEN << >> ELSE stack
      /\ ticked' = IF "ticks" \in clears THEN None ELSE ticked
      /\ Entered(k, v)
    BY DEF Choose, SetSearch
<1> HIDE DEF clears, g
<1>6. (IF "cursor" \in clears THEN Home ELSE at.cur) = Home
    BY <1>1, <1>4 DEF CursorsMeant
<1>7. Shows([f |-> g, cur |-> Home])
    BY <1>5, <1>6
<1>8. timer' \in [on : BOOLEAN, f : Filters] /\ away' \in BOOLEAN /\ typed' \in Filters
    BY <1>1, <1>5, BoxTyped DEF TypeOK
<1> QED BY <1>2, <1>4, <1>5, <1>7, <1>8, Refiltered

\* The search that waited for the typing to pause.
LEMMA FireStep ==
    ASSUME IInv, Fire
    PROVE  IInv'
<1>1. timer.f \in Filters /\ None \in [on : BOOLEAN, f : Filters]
    BY Values DEF IInv, TypeOK
<1>2. typed' \in Filters
    BY <1>1, Values, BoxTyped DEF Fire, IInv
<1> QED BY <1>1, <1>2, Refiltered DEF Fire

\* All the counted filters off.
LEMMA ResetStep ==
    ASSUME IInv, ResetFilters
    PROVE  IInv'
<1> DEFINE g == [k \in focus |-> IF k \in screen.counted THEN 0 ELSE at.f[k]]
<1>1. TypeOK
    BY DEF IInv
<1>2. g \in Filters
    BY <1>1, Values DEF Filters
<1>3. /\ Room /\ Remember /\ UNCHANGED <<screen, focus, typed, timer, detached, away>>
      /\ Shows([f |-> g, cur |-> Home])
      /\ stack' = IF "stack" \in screen.clears THEN << >> ELSE stack
      /\ ticked' = IF "ticks" \in screen.clears THEN None ELSE ticked
    BY DEF ResetFilters
<1> HIDE DEF g
<1>4. timer' \in [on : BOOLEAN, f : Filters] /\ away' \in BOOLEAN /\ typed' \in Filters
    BY <1>1, <1>3 DEF TypeOK
<1> QED BY <1>1, <1>2, <1>3, <1>4, Refiltered, ResetRules

\* The next page, on a screen that has one: its cursor is of the filters in force.
LEMMA NextCursorTyped ==
    ASSUME IInv, HasNext
    PROVE  NextCursor \in Cursors /\ NextCursor.of = at.f /\ NextCursor.page = at.cur.page + 1
<1>1. at.f \in Filters /\ at.cur.page \in 0..LastPage /\ LastPage \in Nat
    BY Values DEF IInv
<1>2. at.cur.page < LastPage
    BY DEF IInv, MoreAhead, HasNext
<1> QED BY <1>1, <1>2 DEF NextCursor, Cursors

\* Next keeps the invariant: the page it asks for is the one the answer promised.
LEMMA NextStep ==
    ASSUME IInv, Next
    PROVE  IInv'
<1>1. TypeOK /\ CursorsMeant /\ StackLeadsBack
    BY DEF IInv
<1>2. /\ HasNext /\ Room /\ Remember /\ Len(stack) <= LastPage
      /\ UNCHANGED <<screen, focus, typed, timer, ticked, detached>>
      /\ stack' = IF screen.prev = "home" THEN stack ELSE Append(stack, at.cur)
    BY DEF Next
<1>3. at.f \in Filters /\ at.cur \in Cursors /\ stack \in Seq(Cursors) /\ Len(stack) \in Nat
    BY <1>1, Values DEF TypeOK
<1>4. /\ stack' \in Seq(Cursors) /\ Len(stack') <= LastPage + 1
      /\ screen.prev = "home" => stack' = << >>
      /\ screen.prev # "home" => Len(stack') = Len(stack) + 1
      /\ \A i \in 1..Len(stack') : \/ i \in 1..Len(stack) /\ stack'[i] = stack[i]
                                   \/ i = Len(stack) + 1 /\ stack'[i] = at.cur
    <2>1. CASE screen.prev = "home"
        BY <1>1, <1>2, <1>3, <2>1 DEF CursorsMeant, TypeOK
    <2>2. CASE screen.prev # "home"
        <3>1. stack' = Append(stack, at.cur)
            BY <1>2, <2>2
        <3>2. /\ Append(stack, at.cur) \in Seq(Cursors)
              /\ Len(Append(stack, at.cur)) = Len(stack) + 1
              /\ \A i \in 1..Len(stack) + 1 :
                     Append(stack, at.cur)[i] = IF i <= Len(stack) THEN stack[i] ELSE at.cur
            BY <1>3, AppendProperties
        <3>3. stack' \in Seq(Cursors) /\ Len(stack') = Len(stack) + 1
            BY <3>1, <3>2
        <3>4. \A i \in 1..Len(stack') : \/ i \in 1..Len(stack) /\ stack'[i] = stack[i]
                                        \/ i = Len(stack) + 1 /\ stack'[i] = at.cur
            <4> SUFFICES ASSUME NEW i \in 1..Len(stack')
                         PROVE  \/ i \in 1..Len(stack) /\ stack'[i] = stack[i]
                                \/ i = Len(stack) + 1 /\ stack'[i] = at.cur
                OBVIOUS
            <4>1. i \in 1..Len(stack) + 1 /\ (i <= Len(stack) \/ i = Len(stack) + 1)
                BY <1>3, <3>3
            <4>2. stack'[i] = IF i <= Len(stack) THEN stack[i] ELSE at.cur
                BY <3>1, <3>2, <4>1
            <4> QED BY <1>3, <4>1, <4>2
        <3>5. Len(stack') <= LastPage + 1
            BY <1>2, <1>3, <3>3, ListAssumption
        <3> QED BY <2>2, <3>3, <3>4, <3>5
    <2> QED BY <2>1, <2>2
<1>5. InStep => \A i \in 1..Len(stack') : IsCursorOf(stack'[i], at.f)
    <2>1. ASSUME InStep, NEW i \in 1..Len(stack') PROVE IsCursorOf(stack'[i], at.f)
        BY <1>1, <1>4, <2>1 DEF CursorsMeant, Honest, IsCursorOf
    <2> QED BY <2>1
<1>6. screen.next = "drop" => \A i \in 1..Len(stack') : stack'[i] = Home
    BY <1>1, <1>4 DEF CursorsMeant
<1>7. CASE screen.next = "push" /\ Shows([at EXCEPT !.cur = NextCursor]) /\ away' = FALSE
    <2>1. /\ NextCursor \in Cursors /\ NextCursor.of = at.f
          /\ NextCursor.page = at.cur.page + 1
        BY <1>2, NextCursorTyped
    <2>2. [at EXCEPT !.cur = NextCursor] = [f |-> at.f, cur |-> NextCursor]
        BY <1>1 DEF TypeOK
    <2>3. (/\ screen.prev = "pop" /\ screen.next = "push" /\ detached = "no"
           /\ screen.name \notin KeepStack)
              => /\ Len(stack') = NextCursor.page
                 /\ \A i \in 1..Len(stack') : stack'[i].page = i - 1
        <3>1. SUFFICES ASSUME screen.prev = "pop", screen.next = "push", detached = "no",
                              screen.name \notin KeepStack
                       PROVE  /\ Len(stack') = NextCursor.page
                              /\ \A i \in 1..Len(stack') : stack'[i].page = i - 1
            OBVIOUS
        <3>2. Len(stack) = at.cur.page /\ \A i \in 1..Len(stack) : stack[i].page = i - 1
            BY <1>1, <3>1 DEF StackLeadsBack
        <3> QED BY <1>3, <1>4, <2>1, <3>1, <3>2
    <2>4. IsCursorOf(NextCursor, at.f)
        BY <2>1 DEF IsCursorOf
    <2>5. screen.next # "drop" /\ away' \in BOOLEAN /\ Shows([f |-> at.f, cur |-> NextCursor])
        BY <1>7, <2>2
    <2> QED BY <1>2, <1>4, <1>5, <2>1, <2>3, <2>4, <2>5, Turned
<1>8. CASE screen.next = "drop" /\ Shows([at EXCEPT !.cur = Home]) /\ away' = FALSE
    <2>1. [at EXCEPT !.cur = Home] = [f |-> at.f, cur |-> Home]
        BY <1>1 DEF TypeOK
    <2>2. Home \in Cursors /\ IsCursorOf(Home, at.f)
        BY <1>1, Values DEF IsCursorOf
    <2>3. screen.next # "push" /\ away' \in BOOLEAN /\ Shows([f |-> at.f, cur |-> Home])
        BY <1>8, <2>1
    <2> QED BY <1>2, <1>4, <1>5, <1>6, <2>2, <2>3, Turned
<1>9. CASE screen.next = "leave" /\ away' = TRUE /\ UNCHANGED <<at, answer>>
    <2>1. [f |-> at.f, cur |-> at.cur] = at
        BY <1>1 DEF TypeOK
    <2>2. Shows([f |-> at.f, cur |-> at.cur])
        BY <1>9, <2>1 DEF Shows
    <2>3. InStep => IsCursorOf(at.cur, at.f)
        BY <1>1 DEF CursorsMeant, Honest
    <2>4. screen.next # "push" /\ screen.next # "drop" /\ away' \in BOOLEAN
        BY <1>9
    <2> QED BY <1>2, <1>3, <1>4, <1>5, <2>2, <2>3, <2>4, Turned
<1> QED BY <1>7, <1>8, <1>9 DEF Next

\* The page before, or the first one.
LEMMA PrevStep ==
    ASSUME IInv, Prev
    PROVE  IInv'
<1>1. TypeOK /\ CursorsMeant /\ StackLeadsBack
    BY DEF IInv
<1>2. /\ HasPrev /\ Room /\ Remember /\ away' \in BOOLEAN
      /\ UNCHANGED <<screen, focus, typed, timer, ticked, detached>>
    BY <1>1 DEF Prev, TypeOK
<1>3. /\ Home \in Cursors /\ IsCursorOf(Home, at.f) /\ LastPage \in Nat
      /\ stack \in Seq(Cursors) /\ Len(stack) \in Nat /\ Len(stack) <= LastPage + 1
    BY <1>1, Values DEF TypeOK, IsCursorOf
<1>4. \A c : [at EXCEPT !.cur = c] = [f |-> at.f, cur |-> c]
    BY <1>1 DEF TypeOK
<1>5. CASE screen.prev = "home" /\ Shows([at EXCEPT !.cur = Home]) /\ UNCHANGED stack
    <2>1. stack' = << >> /\ (\A i \in 1..Len(stack') : FALSE)
        BY <1>1, <1>5 DEF CursorsMeant
    <2>2. Shows([f |-> at.f, cur |-> Home]) /\ screen.prev # "pop"
        BY <1>4, <1>5
    <2>3. stack' \in Seq(Cursors) /\ Len(stack') <= LastPage + 1
        BY <1>3, <1>5
    <2> QED BY <1>2, <1>3, <2>1, <2>2, <2>3, Turned
<1>6. CASE /\ screen.prev = "pop"
           /\ Shows([at EXCEPT !.cur = IF screen.next = "drop" THEN Home ELSE Last(stack)])
           /\ stack' = Front(stack)
    <2> DEFINE c == IF screen.next = "drop" THEN Home ELSE Last(stack)
    <2>1. stack # << >>
        BY <1>2, <1>6 DEF HasPrev
    <2>2. /\ Last(stack) \in Cursors /\ Last(stack) = stack[Len(stack)] /\ Len(stack) >= 1
          /\ Front(stack) \in Seq(Cursors) /\ Len(Front(stack)) = Len(stack) - 1
          /\ \A i \in 1..Len(stack) - 1 : Front(stack)[i] = stack[i]
        BY <1>3, <2>1, Ends
    <2>3. /\ stack' \in Seq(Cursors) /\ Len(stack') = Len(stack) - 1
          /\ \A i \in 1..Len(stack') : stack'[i] = stack[i] /\ i \in 1..Len(stack)
          /\ Len(stack) \in 1..Len(stack)
        BY <1>3, <1>6, <2>2
    <2>4. Shows([f |-> at.f, cur |-> c])
        BY <1>4, <1>6
    <2>5. c \in Cursors /\ (screen.next = "drop" => c = Home)
        BY <1>3, <2>2
    <2>6. InStep => /\ IsCursorOf(c, at.f)
                    /\ \A i \in 1..Len(stack') : IsCursorOf(stack'[i], at.f)
        <3>1. ASSUME InStep PROVE IsCursorOf(c, at.f)
            BY <1>1, <1>3, <2>2, <2>3, <3>1 DEF CursorsMeant, IsCursorOf
        <3>2. ASSUME InStep, NEW i \in 1..Len(stack') PROVE IsCursorOf(stack'[i], at.f)
            BY <1>1, <2>3, <3>2 DEF CursorsMeant, IsCursorOf
        <3> QED BY <3>1, <3>2
    <2>7. screen.next = "drop" => \A i \in 1..Len(stack') : stack'[i] = Home
        BY <1>1, <2>3 DEF CursorsMeant
    <2>8. (/\ screen.prev = "pop" /\ screen.next = "push" /\ detached = "no"
           /\ screen.name \notin KeepStack)
              => Len(stack') = c.page /\ \A i \in 1..Len(stack') : stack'[i].page = i - 1
        BY <1>1, <1>3, <2>2, <2>3 DEF StackLeadsBack
    <2>9. Len(stack') <= LastPage + 1 /\ screen.prev # "home"
        BY <1>3, <1>6, <2>3
    <2> HIDE DEF c
    <2> QED BY <1>2, <2>3, <2>4, <2>5, <2>6, <2>7, <2>8, <2>9, Turned
<1> QED BY <1>5, <1>6 DEF Prev

\* The list is mounted again: the search is the URL's, everything else starts afresh.
LEMMA RemountStep ==
    ASSUME IInv, Remounted(at), UNCHANGED <<screen, focus, past>>,
           timer' = timer \/ timer' = None, away' \in BOOLEAN
    PROVE  IInv'
<1>1. TypeOK /\ CursorsMeant
    BY DEF IInv
<1>2. /\ at' = IF InUrl THEN at ELSE [f |-> Unfiltered, cur |-> Home]
      /\ typed' = Seeded(at'.f)
      /\ stack' = << >> /\ ticked' = None /\ answer' = "loading"
      /\ detached' = IF ~InUrl \/ at.cur = Home THEN "no"
                     ELSE IF detached = "back" THEN "back" ELSE "remount"
    BY DEF Remounted
<1>3. /\ Unfiltered \in Filters /\ Home \in Cursors /\ Home.page = 0 /\ LastPage \in Nat
      /\ None \in [on : BOOLEAN, f : Filters] /\ None.on = FALSE
    BY <1>1, Values
<1>4. << >> \in Seq(Cursors) /\ Len(<< >>) = 0
    OBVIOUS
<1>5. TypeOK'
    <2>1. at' \in Searches
        BY <1>1, <1>2, <1>3 DEF TypeOK, Searches
    <2>2. detached' \in {"no", "remount", "back"}
        BY <1>2
    <2>3. stack' \in Seq(Cursors) /\ Len(stack') <= LastPage + 1
        BY <1>2, <1>3, <1>4
    <2>4. timer' \in [on : BOOLEAN, f : Filters] /\ ticked' \in [on : BOOLEAN, f : Filters]
        BY <1>1, <1>2, <1>3 DEF TypeOK
    <2>5. answer' \in {"loading", "empty", "last", "more", "failed"}
        BY <1>2
    <2>6. typed' \in Filters
        BY <1>1, <1>2, <2>1, BoxTyped DEF Searches
    <2> QED BY <1>1, <2>1, <2>2, <2>3, <2>4, <2>5, <2>6, Frame DEF TypeOK, Searches
<1>6. CursorsMeant'
    <2>1. ASSUME InStep' PROVE Honest(at)'
        <3>1. CASE ~InUrl \/ at.cur = Home
            BY <1>2, <3>1, Frame DEF Honest, IsCursorOf
        <3>2. CASE InUrl /\ at.cur # Home
            <4>1. InStep
                BY <1>2, <2>1, <3>2 DEF InStep
            <4> QED BY <1>1, <1>2, <3>2, <4>1, Frame DEF CursorsMeant, Honest, IsCursorOf
        <3> QED BY <3>1, <3>2
    <2>2. \A i \in 1..Len(stack') : FALSE
        BY <1>2, <1>4
    <2>3. screen'.prev = "home" => stack' = << >> /\ \A i \in 1..Len(past') : Honest(past[i])'
        BY <1>1, <1>2, Frame DEF CursorsMeant, Honest, IsCursorOf
    <2>4. screen'.next = "drop" => /\ at'.cur = Home'
                                   /\ \A i \in 1..Len(past') : past'[i].cur = Home'
        BY <1>1, <1>2, Frame DEF CursorsMeant
    <2> QED BY <2>1, <2>2, <2>3, <2>4 DEF CursorsMeant
<1>7. StackLeadsBack'
    <2>1. ASSUME detached' = "no" PROVE at'.cur.page = 0
        BY <1>2, <1>3, <2>1
    <2> QED BY <1>2, <1>4, <2>1 DEF StackLeadsBack
<1>8. MoreAhead' /\ TicksMeant'
    BY <1>2, <1>3 DEF MoreAhead, TicksMeant
<1> QED BY <1>5, <1>6, <1>7, <1>8 DEF IInv

\* The search of the entry before, with the local state of this one.
LEMMA BackStep ==
    ASSUME IInv, Back
    PROVE  IInv'
<1>1. TypeOK /\ MoreAhead /\ CursorsMeant /\ TicksMeant
    BY DEF IInv
<1>2. /\ Shows(Last(past)) /\ past' = Front(past) /\ detached' = "back"
      /\ typed' = IF Bar THEN typed ELSE Seeded(at'.f)
      /\ UNCHANGED <<screen, focus, stack, timer, ticked, away>>
    BY DEF Back
<1>3. past \in Seq(Searches) /\ past # << >> /\ Len(past) \in Nat
    BY <1>1, Values DEF TypeOK, Searches, Back
<1>4. /\ Last(past) \in Searches /\ Last(past) = past[Len(past)] /\ Len(past) \in 1..Len(past)
      /\ past' \in Seq(Searches) /\ Len(past') = Len(past) - 1
      /\ \A i \in 1..Len(past') : past'[i] = past[i] /\ i \in 1..Len(past)
    BY <1>2, <1>3, Ends
<1>5. /\ at' = Last(past) /\ MoreAhead'
      /\ answer' \in {"loading", "empty", "last", "more", "failed"}
    BY <1>1, <1>2, <1>4, ShowsTyped
<1>6. TypeOK'
    <2>1. typed' \in Filters
        BY <1>1, <1>2, <1>4, <1>5, Values, BoxTyped DEF Searches
    <2> QED BY <1>1, <1>2, <1>4, <1>5, <2>1, ListAssumption, Frame DEF TypeOK, Searches
<1>7. CursorsMeant'
    <2>1. screen.prev = "home" => Honest(at')
        BY <1>1, <1>4, <1>5 DEF CursorsMeant
    <2>2. InStep' => screen.prev = "home"
        BY <1>2 DEF InStep
    <2>3. screen.prev = "home" => stack' = << >> /\ \A i \in 1..Len(stack') : FALSE
        BY <1>1, <1>2 DEF CursorsMeant
    <2>4. screen.prev = "home" => \A i \in 1..Len(past') : Honest(past'[i])
        BY <1>1, <1>4 DEF CursorsMeant
    <2>5. screen.next = "drop" => /\ at'.cur = Home
                                  /\ \A i \in 1..Len(stack') : stack'[i] = Home
                                  /\ \A i \in 1..Len(past') : past'[i].cur = Home
        BY <1>1, <1>2, <1>4, <1>5 DEF CursorsMeant
    <2> QED BY <1>2, <2>1, <2>2, <2>3, <2>4, <2>5, Frame DEF CursorsMeant, Honest, IsCursorOf
<1>8. StackLeadsBack' /\ TicksMeant'
    BY <1>1, <1>2 DEF StackLeadsBack, TicksMeant
<1> QED BY <1>5, <1>6, <1>7, <1>8 DEF IInv

-----------------------------------------------------------------------------
(* The theorems.                                                           *)

\* A screen opens unfiltered, on its first page, with nothing kept.
LEMMA InitInv == Init => IInv
<1> SUFFICES ASSUME Init PROVE IInv
    OBVIOUS
<1>1. Unfiltered \in Filters /\ Home \in Cursors /\ Home.page = 0
    BY DEF Unfiltered, Filters, Home, Cursors
<1>2. None \in [on : BOOLEAN, f : Filters] /\ None.on = FALSE
    BY <1>1 DEF None
<1>3. TypeOK
    <2>1. /\ << >> \in Seq(Cursors) /\ << >> \in Seq([f : Filters, cur : Cursors])
          /\ Len(<< >>) = 0
        OBVIOUS
    <2>2. screen \in Screens /\ focus \subseteq Keys(screen) /\ away \in BOOLEAN
        BY DEF Init
    <2>3. at \in [f : Filters, cur : Cursors] /\ typed \in Filters
        BY <1>1 DEF Init
    <2>4. stack = << >> /\ past = << >> /\ 0 <= LastPage + 1 /\ 0 <= MaxPast
        BY ListAssumption DEF Init
    <2>5. /\ answer = "loading" /\ timer = None /\ ticked = None /\ detached = "no"
        BY DEF Init
    <2> QED BY <1>2, <2>1, <2>2, <2>3, <2>4, <2>5 DEF TypeOK
<1>4. CursorsMeant /\ StackLeadsBack /\ MoreAhead /\ TicksMeant
    BY <1>1, <1>2
       DEF Init, CursorsMeant, StackLeadsBack, MoreAhead, TicksMeant, Honest, IsCursorOf
<1> QED BY <1>3, <1>4 DEF IInv

\* Every step keeps the invariant.
LEMMA StepInv == IInv /\ [Step]_vars => IInv'
<1> SUFFICES ASSUME IInv, [Step]_vars PROVE IInv'
    OBVIOUS
<1>1. CASE Fire
    BY <1>1, FireStep
<1>2. CASE ResetFilters
    BY <1>2, ResetStep
<1>3. CASE Next
    BY <1>3, NextStep
<1>4. CASE Prev
    BY <1>4, PrevStep
<1>5. CASE Return
    <2>1. CASE screen.opens # "above" /\ Remounted(at)
        BY <1>5, <2>1, RemountStep DEF Return
    <2>2. CASE screen.opens = "above" /\ UNCHANGED <<at, typed, stack, answer, ticked, detached>>
        BY <1>5, <2>2, Still DEF Return, IInv, TypeOK, MoreAhead
    <2> QED BY <1>5, <2>1, <2>2 DEF Return
<1>6. CASE Reload
    BY <1>6, RemountStep DEF Reload, IInv, TypeOK
<1>7. CASE Back
    BY <1>7, BackStep
<1>8. CASE \/ Load \/ Retry \/ Reread \/ Tick \/ Bulk
           \/ \E k \in focus, v \in {0, 1} : Type(k, v)
    BY <1>8, StillSteps
<1>9. CASE OpenRow
    BY <1>9, OpenStep
<1>10. ASSUME NEW k \in focus, NEW v \in {0, 1}, Choose(k, v) PROVE IInv'
    BY <1>10, ChooseStep
<1>11. CASE UNCHANGED vars
    <2>1. answer' = answer /\ TypeOK
        BY <1>11 DEF vars, IInv
    <2> QED BY <1>11, <2>1, Still DEF vars, IInv, TypeOK, MoreAhead
<1> QED BY <1>1, <1>2, <1>3, <1>4, <1>5, <1>6, <1>7, <1>8, <1>9, <1>10, <1>11 DEF Step

\* The inductive invariant, at every state.
THEOREM InductiveInvariant == Spec => []IInv
BY InitInv, StepInv, PTL DEF Spec

\* Every variable of a list screen keeps its type; the stack is never longer than the
\* pages (setSearch, handleNext and handlePrev of every screen).
THEOREM TypeCorrect == Spec => []TypeOK
<1>1. IInv => TypeOK
    BY DEF IInv
<1> QED BY <1>1, InductiveInvariant, PTL

\* A page is asked for with a cursor of the filters it is asked with, for every screen
\* whose handlers drop the cursor, and its stack, with the filters it was made for.
THEOREM CursorsOfTheirFilters == Spec => []CursorOfFilter
<1>1. IInv => CursorOfFilter
    <2> SUFFICES ASSUME IInv PROVE CursorOfFilter
        OBVIOUS
    <2>1. screen.prev \in {"home", "pop"} /\ CursorsMeant
        BY ResetRules DEF IInv
    <2> QED BY <2>1 DEF CursorOfFilter, CursorsMeant, InStep, Honest
<1> QED BY <1>1, InductiveInvariant, PTL

\* The stack beside the URL holds the cursors of the pages before this one, in order
\* (handleNext pushes, handlePrev pops), until the history moves the URL under it.
THEOREM StacksLeadBack == Spec => []StackLeadsBack
<1>1. IInv => StackLeadsBack
    BY DEF IInv
<1> QED BY <1>1, InductiveInvariant, PTL

-----------------------------------------------------------------------------
(* What the controls show.                                                 *)

\* A screen whose boxes never part from the search they were typed in: no pause between the
\* two, no reset beside a box, no box among the filters that go with another.
Following(s) == /\ s.paused = {}
                /\ s.reset => s.own \cap s.counted = {}
                /\ \A p \in s.drops : p[2] \notin s.own

\* The boxes of such a screen show the search, until the history moves it.
BoxesFollow == Following(screen) =>
    /\ timer.on = FALSE
    /\ detached # "back" => \A k \in focus : k \in screen.own => typed[k] = at.f[k]

\* A screen opens with empty boxes and no search.
LEMMA BoxesInit == Init => BoxesFollow
BY DEF Init, BoxesFollow, None, Unfiltered

\* Every step moves a box and its search together, or mounts the box anew.
LEMMA BoxesStep == IInv /\ BoxesFollow /\ [Step]_vars => BoxesFollow'
<1> SUFFICES ASSUME IInv, BoxesFollow, [Step]_vars, Following(screen) PROVE BoxesFollow'
    BY DEF BoxesFollow, Following, Step, vars, Load, Retry, Reread, Fire, ResetFilters, Next, Prev,
           Tick, Bulk, OpenRow, Return, Reload, Back, Type, Choose
<1>1. /\ TypeOK /\ at.f \in [focus -> {0, 1}] /\ typed \in [focus -> {0, 1}]
      /\ screen.paused = {} /\ timer.on = FALSE /\ None.on = FALSE
    BY DEF IInv, TypeOK, Filters, BoxesFollow, Following, None
<1>2. \A c : [at EXCEPT !.cur = c] = [f |-> at.f, cur |-> c]
    BY <1>1 DEF TypeOK
<1>3. CASE UNCHANGED <<screen, focus, typed, timer, detached>> /\ at'.f = at.f
    BY <1>3 DEF BoxesFollow
<1>4. CASE Load \/ Reread \/ Tick \/ Bulk \/ UNCHANGED vars
    BY <1>3, <1>4 DEF Load, Reread, Tick, Bulk, vars
<1>5. CASE Next \/ Prev \/ OpenRow
    <2>1. at'.f = at.f
        BY <1>2, <1>5 DEF Next, Prev, OpenRow, Shows
    <2> QED BY <1>3, <1>5, <2>1 DEF Next, Prev, OpenRow
<1>6. CASE Retry
    BY <1>1, <1>6 DEF Retry, BoxesFollow, Seeded
<1>7. ASSUME NEW k \in focus, NEW v \in {0, 1}, Choose(k, v) PROVE BoxesFollow'
    <2>1. /\ UNCHANGED <<screen, focus, timer, detached>> /\ at'.f = Set(at.f, k, v)
          /\ typed' = IF k \in screen.own THEN [typed EXCEPT ![k] = v] ELSE typed
        BY <1>7 DEF Choose, SetSearch, Shows, Entered
    <2>2. ASSUME NEW m \in focus, m \in screen.own, detached # "back" PROVE typed'[m] = at'.f[m]
        <3>1. typed[m] = at.f[m] /\ <<k, m>> \notin screen.drops
            BY <2>2 DEF BoxesFollow, Following
        <3>2. at'.f[m] = IF m = k THEN v ELSE at.f[m]
            BY <2>1, <3>1 DEF Set
        <3>3. typed'[m] = IF m = k THEN v ELSE typed[m]
            BY <1>1, <2>1, <2>2
        <3> QED BY <3>1, <3>2, <3>3
    <2> QED BY <1>1, <2>1, <2>2 DEF BoxesFollow
<1>8. CASE ResetFilters
    <2>1. /\ screen.reset /\ UNCHANGED <<screen, focus, typed, timer, detached>>
          /\ at'.f = [k \in focus |-> IF k \in screen.counted THEN 0 ELSE at.f[k]]
        BY <1>8 DEF ResetFilters, Shows
    <2>2. \A k \in focus : k \in screen.own => at'.f[k] = at.f[k]
        BY <2>1 DEF Following
    <2> QED BY <2>1, <2>2 DEF BoxesFollow
<1>9. ASSUME UNCHANGED <<screen, focus>>, Remounted(at), timer' = timer \/ timer' = None
      PROVE  BoxesFollow'
    BY <1>1, <1>9 DEF BoxesFollow, Remounted, Seeded
<1>10. CASE Return \/ Reload
    <2>1. CASE screen.opens = "above" /\ Return
        BY <1>3, <1>9, <2>1 DEF Return
    <2> QED BY <1>9, <1>10, <2>1 DEF Return, Reload
<1>11. CASE Back
    BY <1>1, <1>11 DEF Back, BoxesFollow
<1>12. ~Fire /\ \A k \in focus, v \in {0, 1} : ~Type(k, v)
    BY <1>1 DEF Fire, Type
<1> QED BY <1>4, <1>5, <1>6, <1>7, <1>8, <1>10, <1>11, <1>12 DEF Step

\* What the controls show is what narrows the list (setSearch and the search fields), on
\* every screen that sends all keys, locks those it overrules, and whose boxes follow.
THEOREM ControlsShowTheSearch ==
    ASSUME \A s \in Screens : s.name \notin SilentKeys =>
              /\ Following(s)
              /\ \A k \in Keys(s) : /\ k \notin s.unsent
                                    /\ \A m \in Keys(s) : <<m, k>> \in s.masks => <<m, k>> \in s.locks
    PROVE  Spec => []FilterShown
<1>1. ASSUME IInv, BoxesFollow, screen.name \notin SilentKeys, NEW k \in focus,
             k \notin screen.own \/ detached # "back"
      PROVE  (Displayed(k) = 1 <=> k \in Sent(at.f)) \/ Locked(at.f, k)
    <2>1. screen \in Screens /\ focus \subseteq Keys(screen) /\ at.f \in [focus -> {0, 1}]
        BY <1>1 DEF IInv, TypeOK, Filters
    <2>2. k \notin screen.unsent /\ Following(screen)
        BY <1>1, <2>1
    <2>3. Displayed(k) = at.f[k]
        BY <1>1, <2>2 DEF Displayed, BoxesFollow
    <2>4. CASE \E m \in focus : <<m, k>> \in screen.masks /\ at.f[m] # 0
        <3>1. PICK m \in focus : <<m, k>> \in screen.masks /\ at.f[m] # 0
            BY <2>4
        <3>2. <<m, k>> \in screen.locks /\ at.f[m] = 1
            BY <1>1, <2>1, <3>1
        <3> QED BY <3>2 DEF Locked
    <2>5. CASE \A m \in focus : <<m, k>> \in screen.masks => at.f[m] = 0
        BY <1>1, <2>2, <2>3, <2>5 DEF Sent
    <2> QED BY <2>4, <2>5
<1>2. IInv /\ BoxesFollow => FilterShown
    BY <1>1 DEF FilterShown
<1> QED BY <1>2, InductiveInvariant, BoxesInit, BoxesStep, PTL DEF Spec

\* "Nothing here yet" is said of an unfiltered list only, on every screen that counts the
\* filters it sends.
THEOREM EmptyListsAreHonest ==
    ASSUME \A s \in Screens : s.name \notin TabNotCounted =>
              s.always \/ Keys(s) \subseteq s.counted \cup s.unsent \cup s.widens
    PROVE  Spec => []EmptyIsHonest
<1>1. ASSUME IInv, Empty = "fresh", screen.name \notin TabNotCounted, NEW k \in Sent(at.f)
      PROVE  k \in screen.widens
    <2>1. screen \in Screens /\ focus \subseteq Keys(screen) /\ ~HasFilters(at.f)
        BY <1>1 DEF IInv, TypeOK, Empty
    <2>2. k \in focus /\ at.f[k] = 1 /\ k \notin screen.unsent
        BY <1>1 DEF Sent
    <2>3. ~screen.always /\ k \notin screen.counted
        BY <2>1, <2>2 DEF HasFilters
    <2> QED BY <1>1, <2>1, <2>2, <2>3
<1>2. IInv => EmptyIsHonest
    BY <1>1 DEF EmptyIsHonest
<1> QED BY <1>2, InductiveInvariant, PTL

\* The rows a bulk action would reach were listed under the filters in force.
THEOREM SelectionsAreListed == Spec => []TicksOfFilter
<1>1. IInv => TicksOfFilter
    BY DEF IInv, TicksMeant, TicksOfFilter
<1> QED BY <1>1, InductiveInvariant, PTL

\* Next shows the next page of the same listing, on the same screen, wherever the pager's
\* handler pushes the cursor the server handed out.
THEOREM NextTurns == Spec => NextTurnsThePage
<1>1. ASSUME IInv, Next, screen.name \notin OneWayPager PROVE TurnsThePage
    <2>1. screen.next = "push" /\ at \in Searches
        BY <1>1, ResetRules DEF IInv, TypeOK, Searches
    <2>2. Shows([at EXCEPT !.cur = NextCursor]) /\ away' = FALSE
        BY <1>1, <2>1 DEF Next
    <2>3. at' = [at EXCEPT !.cur = NextCursor]
        BY <2>2 DEF Shows
    <2>4. at'.f = at.f /\ at'.cur = NextCursor
        BY <2>1, <2>3 DEF Searches
    <2> QED BY <2>2, <2>4 DEF TurnsThePage, NextCursor
<1>2. IInv /\ [Step]_vars => [(Next /\ screen.name \notin OneWayPager) => TurnsThePage]_vars
    BY <1>1
<1> QED BY <1>2, InductiveInvariant, PTL DEF Spec, NextTurnsThePage
=============================================================================
