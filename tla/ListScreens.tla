----------------------------- MODULE ListScreens -----------------------------
(***************************************************************************)
(* The list screens: filters, cursor pagination, selection and the browser *)
(* history.  One machine runs any screen of ListCatalog, whose records say *)
(* what that screen keeps, sends, resets and shows.                        *)
(*                                                                         *)
(* A filter is on (1) or off (0); a behaviour exercises at most two of the *)
(* screen's filters.  A cursor is what the server hands out with a page:   *)
(* it names the filters it was made for and the page it leads to.  A       *)
(* search box that keeps its own text shows that text, not the filter.     *)
(***************************************************************************)
EXTENDS Integers, Sequences, FiniteSets, SequencesExt

CONSTANTS Screens,    \* the screens considered, records of ListCatalog
          LastPage,   \* bound: pages are numbered 0..LastPage
          MaxPast     \* bound: entries of the browser history that are kept

ASSUME ListAssumption == LastPage \in Nat /\ MaxPast \in Nat

\* The screens that break a rule below; each is named in the README.
KeepStack   == {"attendance dashboard", "attendance verification"}
KeepTicks   == {"phone verification"}
OneWayPager == {"client companies", "company roster", "completeness"}
SilentKeys  == {"corrections", "overtime approvals", "overtime records", "approval inbox",
                "placements", "phone correction picker", "attendance dashboard",
                "leave approvals", "payslip archive", "employees"}
TabNotCounted == {"employees", "agreements", "attendance dashboard", "placements", "completeness",
                  "phone correction tracker", "phone verification"}

\* What a new filter of a screen may leave alone: setSearch of every screen drops the
\* cursor, and the stack and the selection that go with it; a pager that never leaves the
\* first page has nothing to drop.
Resets(s) == {s.clears} \cup {s.special[k] : k \in DOMAIN s.special}
ASSUME ScreensReset ==
    \A s \in Screens :
        /\ s.prev \in {"home", "pop"} /\ s.next \in {"push", "drop", "leave"}
        /\ s.ticks \in BOOLEAN
        /\ s.opens = "home" => s.prev = "home"
        /\ s.name \notin OneWayPager => s.next = "push"
        /\ s.next # "drop" => \A c \in Resets(s) : "cursor" \in c
        /\ s.next # "drop" /\ s.prev = "pop" /\ s.name \notin KeepStack
              => \A c \in Resets(s) : "stack" \in c
        /\ s.ticks /\ s.name \notin KeepTicks => \A c \in Resets(s) : "ticks" \in c

VARIABLES screen,    \* the screen
          focus,     \* the filters that are exercised
          at,        \* the filters and the cursor in force
          typed,     \* the text of the search boxes that keep their own
          stack,     \* the cursors of the pages before this one
          answer,    \* what the server said of the page
          timer,     \* the search that waits for the typing to pause
          ticked,    \* whether rows are selected, and the filters they were listed by
          past,      \* the browser history behind this entry
          detached,  \* why local state may not match the URL: "remount", it starts
                     \* afresh on a later page, or "back", the history moved the URL
          away       \* another screen is open
vars == <<screen, focus, at, typed, stack, answer, timer, ticked, past, detached, away>>

Filters == [focus -> {0, 1}]
Unfiltered == [k \in focus |-> 0]
\* No cursor: the first page of whatever the filters are.
Home == [of |-> Unfiltered, page |-> 0]
Cursors == {Home} \cup [of : Filters, page : 1..LastPage]

None == [on |-> FALSE, f |-> Unfiltered]

Keys(s) == s.once \cup s.paused

\* The text a box that keeps its own is mounted with: the filter in force.
Seeded(f) == [k \in focus |-> IF k \in screen.own THEN f[k] ELSE 0]

\* The filters that reach the server with a page request.
Sent(f) == {k \in focus : /\ f[k] = 1 /\ k \notin screen.unsent
                          /\ \A m \in focus : <<m, k>> \in screen.masks => f[m] = 0}
\* A control that a mode disables or takes off the screen.
Locked(f, k) == \E m \in focus : <<m, k>> \in screen.locks /\ f[m] = 1

Init == /\ screen \in Screens
        /\ focus \in SUBSET Keys(screen)
        /\ Cardinality(focus) = 2 \/ focus = Keys(screen)
        /\ at = [f |-> Unfiltered, cur |-> Home] /\ typed = Unfiltered
        /\ stack = << >> /\ answer = "loading" /\ timer = None
        /\ ticked = None /\ past = << >> /\ detached = "no" /\ away = FALSE

-----------------------------------------------------------------------------
(* What is on the screen *)

HasFilters(f) == screen.always \/ \E k \in focus : k \in screen.counted /\ f[k] = 1
\* What the control of filter k shows: its own text, or the filter in force.
Displayed(k) == IF k \in screen.own THEN typed[k] ELSE at.f[k]

Rows == answer \in {"last", "more"}
Empty == IF answer # "empty" THEN "none" ELSE IF HasFilters(at.f) THEN "filtered" ELSE "fresh"

HasPrev == IF screen.prev = "home" THEN at.cur # Home ELSE stack # << >>
HasNext == answer = "more"
Pager == CASE screen.pager = "rows"   -> Rows
           [] screen.pager = "cursor" -> answer # "failed" /\ (HasPrev \/ HasNext)
           [] screen.pager = "none"   -> FALSE

-----------------------------------------------------------------------------
(* Requests and answers *)

Here == ~away
\* A page that failed takes the filters off every screen whose box keeps its own text.
Bar == Here /\ (answer = "failed" => screen.own = {})
RememberAlways == past' = Append(past, at)
Remember == past' = IF screen.store = "url" THEN Append(past, at) ELSE past
Room == screen.store = "url" => Len(past) < MaxPast

\* The page is asked for again whenever what is asked for changed; nothing of the page
\* before is shown meanwhile.
Shows(a) == at' = a /\ answer' = IF a = at THEN answer ELSE "loading"

\* A page that was promised may be empty by the time it is read.
Load == /\ Here /\ answer = "loading"
        /\ answer' \in {"empty", "last", "failed"} \cup (IF at.cur.page < LastPage THEN {"more"} ELSE {})
        /\ UNCHANGED <<screen, focus, at, typed, stack, timer, ticked, past, detached, away>>

\* The retry of the error state; the boxes are mounted anew.
Retry == /\ Here /\ answer = "failed" /\ answer' = "loading" /\ typed' = Seeded(at.f)
         /\ UNCHANGED <<screen, focus, at, stack, timer, ticked, past, detached, away>>

\* Any later reading of the same page (a write elsewhere invalidates every query).
Reread == /\ Here /\ Rows
          /\ answer' = "empty"
          /\ UNCHANGED <<screen, focus, at, typed, stack, timer, ticked, past, detached, away>>

-----------------------------------------------------------------------------
(* Filters *)

\* A new value of k, and no value of the filters that hang on it.
Set(f, k, v) ==
    [m \in focus |-> IF m = k THEN v ELSE IF <<k, m>> \in screen.drops THEN 0 ELSE f[m]]

\* What the user put in the control of k, which may show something else than is in force.
Entered(k, v) == typed' = IF k \in screen.own THEN [typed EXCEPT ![k] = v] ELSE typed

SetSearchKeeping(f0, k, v) ==
    /\ Shows([f |-> Set(f0, k, v), cur |-> at.cur])
    /\ UNCHANGED <<stack, ticked>>

SetSearchTicked(f0, k, v) ==
    /\ Shows([f |-> Set(f0, k, v), cur |-> Home])
    /\ stack' = << >> /\ UNCHANGED ticked

\* setSearch / setFilter / patchFilters with a new value of key k; f0 is the search the
\* handler has captured.
SetSearch(f0, k, v) ==
    LET clears == IF k \in DOMAIN screen.special THEN screen.special[k] ELSE screen.clears IN
    /\ Shows([f |-> Set(f0, k, v), cur |-> IF "cursor" \in clears THEN Home ELSE at.cur])
    /\ stack' = IF "stack" \in clears THEN << >> ELSE stack
    /\ ticked' = IF "ticks" \in clears THEN None ELSE ticked

Choose(k, v) ==
    /\ Bar /\ Room /\ k \in screen.once /\ ~Locked(at.f, k)
    /\ at.f[k] # v \/ Displayed(k) # v
    /\ SetSearch(at.f, k, v) /\ Entered(k, v) /\ Remember
    /\ UNCHANGED <<screen, focus, timer, detached, away>>

\* A key typed in a field that waits: the handler that will run is this render's.
Type(k, v) ==
    /\ Bar /\ k \in screen.paused /\ ~Locked(at.f, k) /\ (at.f[k] # v \/ Displayed(k) # v)
    /\ timer' = [on |-> TRUE, f |-> Set(at.f, k, v)] /\ Entered(k, v)
    /\ UNCHANGED <<screen, focus, at, stack, answer, ticked, past, detached, away>>

\* The pause is over.  Nothing stops the timer when the screen is left.
Fire ==
    /\ timer.on /\ Room
    /\ Shows([f |-> timer.f, cur |-> Home]) /\ stack' = << >> /\ timer' = None
    /\ ticked' = None /\ away' = FALSE /\ Remember
    /\ typed' = IF Bar THEN typed ELSE Seeded(timer.f)
    /\ UNCHANGED <<screen, focus, detached>>

\* The button that clears the filters; shown while one of them is counted.  It does not
\* reach the text of a box that keeps its own.
ResetFilters ==
    /\ Bar /\ Room /\ screen.reset /\ HasFilters(at.f)
    /\ Shows([f |-> [k \in focus |-> IF k \in screen.counted THEN 0 ELSE at.f[k]], cur |-> Home])
    /\ stack' = (IF "stack" \in screen.clears THEN << >> ELSE stack)
    /\ ticked' = (IF "ticks" \in screen.clears THEN None ELSE ticked) /\ Remember
    /\ UNCHANGED <<screen, focus, typed, timer, detached, away>>

-----------------------------------------------------------------------------
(* Pages *)

NextCursorInForce == at.cur
NextCursor == [of |-> at.f, page |-> at.cur.page + 1]

Next ==
    /\ Here /\ Room /\ Pager /\ HasNext /\ Len(stack) <= LastPage
    /\ stack' = (IF screen.prev = "home" THEN stack ELSE Append(stack, at.cur))
    /\ \/ screen.next = "push" /\ Shows([at EXCEPT !.cur = NextCursor]) /\ away' = FALSE
       \/ screen.next = "drop" /\ Shows([at EXCEPT !.cur = Home]) /\ away' = FALSE
       \/ screen.next = "leave" /\ away' = TRUE /\ UNCHANGED <<at, answer>>
    /\ Remember
    /\ UNCHANGED <<screen, focus, typed, timer, ticked, detached>>

PrevKeeping ==
    /\ Here /\ Room /\ Pager /\ HasPrev
    /\ Shows([at EXCEPT !.cur = IF screen.prev = "home" \/ screen.next = "drop" THEN Home
                               ELSE Last(stack)])
    /\ Remember
    /\ UNCHANGED <<screen, focus, typed, stack, timer, ticked, detached, away>>

Prev ==
    /\ Here /\ Room /\ Pager /\ HasPrev
    /\ \/ /\ screen.prev = "home" /\ Shows([at EXCEPT !.cur = Home]) /\ UNCHANGED stack
       \/ /\ screen.prev = "pop"
          /\ Shows([at EXCEPT !.cur = IF screen.next = "drop" THEN Home ELSE Last(stack)])
          /\ stack' = Front(stack)
    /\ Remember
    /\ UNCHANGED <<screen, focus, typed, timer, ticked, detached, away>>

-----------------------------------------------------------------------------
(* Selection *)

Tick == /\ Here /\ screen.ticks /\ Rows
        /\ ticked' = [on |-> TRUE, f |-> at.f]
        /\ UNCHANGED <<screen, focus, at, typed, stack, answer, timer, past, detached, away>>

\* The bulk action ends: the selection is dropped and the list is read again.
Bulk == /\ Here /\ ticked.on
        /\ ticked' = None /\ answer' = "loading"
        /\ UNCHANGED <<screen, focus, at, typed, stack, timer, past, detached, away>>

-----------------------------------------------------------------------------
(* Navigation *)

\* A row opens its record: in place of the list, above it (the list stays mounted), or, on
\* a list whose record is looked up among the rows of the first page, only from there.
OpenRow ==
    /\ Here /\ Rows
    /\ \/ screen.opens \in {"record", "above"} /\ away' = TRUE /\ UNCHANGED <<at, answer, past>>
       \/ /\ screen.opens = "home" /\ Room /\ away' = (at.cur = Home)
          /\ Shows([at EXCEPT !.cur = Home]) /\ Remember
    /\ UNCHANGED <<screen, focus, typed, stack, timer, ticked, detached>>

\* Back to the list: the URL still has its search, local state starts afresh.
InUrl == screen.store \in {"url", "replaced"}
Remounted(a) == /\ at' = IF InUrl THEN a ELSE [f |-> Unfiltered, cur |-> Home]
                /\ typed' = Seeded(at'.f)
                /\ stack' = << >> /\ ticked' = None /\ answer' = "loading"
                /\ detached' = IF ~InUrl \/ at.cur = Home THEN "no"
                               ELSE IF detached = "back" THEN "back" ELSE "remount"
Return == /\ away /\ away' = FALSE
          /\ \/ screen.opens = "above" /\ UNCHANGED <<at, typed, stack, answer, ticked, detached>>
             \/ screen.opens # "above" /\ Remounted(at)
          /\ UNCHANGED <<screen, focus, timer, past>>

Reload == /\ Here /\ Remounted(at) /\ timer' = None
          /\ UNCHANGED <<screen, focus, past, away>>

\* The browser's back button: the search of the entry before, on the same component.
Back == /\ Here /\ past # << >>
        /\ Shows(Last(past)) /\ past' = Front(past) /\ detached' = "back"
        /\ typed' = IF Bar THEN typed ELSE Seeded(at'.f)
        /\ UNCHANGED <<screen, focus, stack, timer, ticked, away>>

Step == \/ Load \/ Retry \/ Reread \/ Fire \/ ResetFilters \/ Next \/ Prev
        \/ Tick \/ Bulk \/ OpenRow \/ Return \/ Reload \/ Back
        \/ \E k \in focus, v \in {0, 1} : Type(k, v) \/ Choose(k, v)
Spec == Init /\ [][Step]_vars

-----------------------------------------------------------------------------
(* Properties *)

TypeOK ==
    /\ screen \in Screens /\ focus \subseteq Keys(screen)
    /\ at \in [f : Filters, cur : Cursors] /\ typed \in Filters
    /\ stack \in Seq(Cursors) /\ Len(stack) <= LastPage + 1
    /\ answer \in {"loading", "empty", "last", "more", "failed"}
    /\ timer \in [on : BOOLEAN, f : Filters] /\ ticked \in [on : BOOLEAN, f : Filters]
    /\ past \in Seq([f : Filters, cur : Cursors]) /\ Len(past) <= MaxPast
    /\ detached \in {"no", "remount", "back"} /\ away \in BOOLEAN

IsCursorOf(c, f) == c = Home \/ c.of = f

\* A page is asked for with a cursor the server handed out for the very filters that are
\* sent with it: setSearch of every screen drops the cursor with the filters it was made
\* for, and Prev returns only cursors met since.  Only after the browser's back button can
\* a Prev ask with a cursor of other filters: the stack is not part of the history.
CursorOfFilter == \/ screen.name \in KeepStack
                  \/ screen.prev = "pop" /\ detached = "back"
                  \/ IsCursorOf(at.cur, at.f)

\* Prev leads back, one page at a time, to the first page of the listing on the screen:
\* the stack kept beside the URL holds the cursors of the pages before this one, in
\* order, unless the history moved the URL under it.
StackLeadsBack ==
    (screen.prev = "pop" /\ screen.next = "push" /\ detached = "no" /\ screen.name \notin KeepStack) =>
        /\ Len(stack) = at.cur.page
        /\ \A i \in 1..Len(stack) : stack[i].page = i - 1 /\ IsCursorOf(stack[i], at.f)

\* What the controls show is what narrows the list: a control shows a filter as set exactly
\* when the filter is sent, unless the mode that overrules the filter locks the control.
\* Only the browser's back button can part a box that keeps its own text from the search
\* it moves.
FilterShown ==
    screen.name \notin SilentKeys =>
        \A k \in focus : \/ Displayed(k) = 1 <=> k \in Sent(at.f)
                         \/ Locked(at.f, k)
                         \/ k \in screen.own /\ detached = "back"

\* "Nothing here yet" is said only of a list that no filter narrows: a list emptied by a
\* filter that is sent is announced as filtered.
EmptyIsHonest ==
    (Empty = "fresh" /\ screen.name \notin TabNotCounted) => Sent(at.f) \ screen.widens = {}

\* A bulk action reaches only rows that were listed under the filters in force.
TicksOfFilter ==
    (ticked.on /\ screen.name \notin KeepTicks) => (ticked.f = at.f \/ detached = "back")

\* The pager's Next shows the next page of the listing, on the same screen.
TurnsThePage == ~away' /\ at'.f = at.f /\ at'.cur.page = at.cur.page + 1
NextTurnsThePage == [][(Next /\ screen.name \notin OneWayPager) => TurnsThePage]_vars
=============================================================================
