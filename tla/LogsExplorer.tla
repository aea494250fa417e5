---------------------------- MODULE LogsExplorer ----------------------------
(***************************************************************************)
(* The logs explorer of the console (web: controllers/logs.ts with         *)
(* time-range.tsx and the logs page): the query bar, the global time       *)
(* range, the URL that represents both, and the live tail, which asks for  *)
(* the newest events every two seconds, buffers them while the reader has  *)
(* scrolled away and puts them back when the reader resumes.               *)
(*                                                                         *)
(* Abstracted: an event is its place in the log, a query the set of its    *)
(* pills (free text is one) and pill f finds every f-th event; a range is  *)
(* a preset or a zoom window; the depth shown on the zoom chip is left     *)
(* out, and so are the panel of a range that is not live (Console) and the *)
(* page's scrolling, but for where it pauses and resumes.                  *)
(***************************************************************************)
EXTENDS Integers, Sequences, FiniteSets, SequencesExt

CONSTANTS
    Pills,     \* the pills of a query
    Presets,   \* PRESET_MS
    Zooms,     \* windows a drag can select
    NoRange,   \* no range in a URL, no window
    PageSize,  \* limit of a poll
    TailMax,   \* TAIL_MAX
    MaxLog,    \* bound on the events
    MaxPolls,  \* bound on the polls the timer has under way
    MaxMoves   \* bound on what the reader does

ASSUME LogsExplorerAssumption ==
    /\ Pills \subseteq Nat \ {0} /\ "1h" \in Presets
    /\ Presets \cap Zooms = {} /\ {NoRange, "custom"} \cap (Presets \union Zooms) = {}
    /\ {PageSize, TailMax} \subseteq Nat \ {0} /\ {MaxLog, MaxPolls, MaxMoves} \subseteq Nat

VARIABLES
    log,       \* events stored so far
    urls, at,  \* the browser's history and where it stands
    time,      \* the time range: preset, window zoomed to, live
    carried,   \* history: the range was on screen before the entry the browser stands at
    bar,       \* the query bar
    active,    \* the query submitted last
    session,   \* the run of the live tail's effect
    polls,     \* polls under way, oldest first
    seen,      \* ids the tail has seen
    tail, buffered, paused,
    rendered,  \* the buffered events as last rendered, which the chip's click puts back
    moves,     \* what the reader did so far
    fresh,     \* history: the tail shows events of its present run only, each put back once
    gone       \* history: events beyond a poll's limit, cut off, or dropped by the opening
               \*          answer or a late click

page == <<urls, at, time, carried, bar, active>>
live == <<session, polls, seen, tail, buffered, paused, rendered>>
history == <<fresh, gone>>
logsVars == <<log, page, live, moves, history>>

Events == 1 .. MaxLog
Queries == SUBSET Pills
Url == [range : Presets \union Zooms \union {NoRange}, live : BOOLEAN, q : Queries]
Time == [preset : Presets \union {"custom"}, zoom : Zooms \union {NoRange}, live : BOOLEAN]
Poll == [session : Nat, first : BOOLEAN, q : Queries, since : 0 .. MaxLog]

LogsTypeOK ==
    /\ log \in 0 .. MaxLog
    /\ urls \in Seq(Url) /\ at \in DOMAIN urls /\ time \in Time /\ carried \in BOOLEAN
    /\ bar \in Queries /\ active \in Queries
    /\ session \in Nat /\ polls \in Seq(Poll) /\ seen \subseteq Events
    /\ tail \in Seq(Events) /\ Len(tail) <= TailMax
    /\ buffered \in Seq(Events) /\ rendered \in Seq(Events) /\ paused \in BOOLEAN
    /\ moves \in 0 .. MaxMoves /\ fresh \in BOOLEAN /\ gone \subseteq Events

----------------------------------------------------------------------------
(* The URL. *)

\* parseUrl: without a range it knows, one hour.
parseUrl(url) ==
    [preset |-> IF url.range \in Presets THEN url.range
                ELSE IF url.range \in Zooms THEN "custom" ELSE "1h",
     zoom |-> IF url.range \in Zooms THEN url.range ELSE NoRange,
     live |-> url.live]

\* writeUrl: a custom range that is not zoomed writes none; q stays.
UrlOf(t) ==
    [urls[at] EXCEPT !.range = IF t.zoom # NoRange THEN t.zoom
                               ELSE IF t.preset # "custom" THEN t.preset ELSE NoRange,
                     !.live = t.live]

ReplaceUrl(url) == urls' = [urls EXCEPT ![at] = url] /\ UNCHANGED at
PushUrl(url) == urls' = Append(SubSeq(urls, 1, at), url) /\ at' = at + 1

----------------------------------------------------------------------------
(* The live tail's effect. *)

Matches(q, e) == \A f \in q : e % f = 0

Opening(s, q) == [session |-> s, first |-> TRUE, q |-> q, since |-> log]

\* A link to the page inside the dashboard carries neither range nor query.
BareUrl == [range |-> NoRange, live |-> FALSE, q |-> {}]

\* The reader arrives by a link from outside or a reload, which mounts the provider of the
\* time range, or from another page of the dashboard, whose range the provider keeps.
LogsInit ==
    /\ log = 0
    /\ urls \in {<<u>> : u \in Url} /\ at = 1
    /\ \/ time = parseUrl(urls[1]) /\ carried = FALSE
       \/ urls[1] = BareUrl /\ time \in Time /\ carried = TRUE
    /\ bar = urls[1].q /\ active = urls[1].q
    /\ session = 0
    /\ polls = IF time.live THEN <<Opening(0, active)>> ELSE <<>>
    /\ seen = {} /\ tail = <<>> /\ buffered = <<>> /\ rendered = <<>> /\ paused = FALSE
    /\ moves = 0 /\ fresh = TRUE /\ gone = {}

\* The effect of [live, activeQuery], after what a handler set: it stops the run before and,
\* when live, opens the next with an empty set of seen ids.
Effect(isLive, q, seenBefore) ==
    IF <<isLive, q>> = <<time.live, active>>
    THEN UNCHANGED <<session, polls>> /\ seen' = seenBefore
    ELSE /\ session' = session + 1
         /\ polls' = IF isLive THEN Append(polls, Opening(session + 1, q)) ELSE polls
         /\ seen' = IF isLive THEN {} ELSE seenBefore

\* A handler that changes whether the tail is live leaves what it shows.
Switch(isLive) ==
    /\ Effect(isLive, active, seen)
    /\ fresh' = IF isLive /\ ~time.live THEN tail = <<>> /\ buffered = <<>> ELSE fresh
    /\ gone' = IF isLive /\ ~time.live THEN {} ELSE gone
    /\ UNCHANGED <<tail, buffered, paused, rendered>>

Move == moves < MaxMoves /\ moves' = moves + 1

----------------------------------------------------------------------------
(* The time range. *)

setPreset(p) ==
    /\ Move
    /\ time' = [time EXCEPT !.preset = p, !.zoom = NoRange]
    /\ PushUrl(UrlOf(time')) /\ carried' = FALSE
    /\ UNCHANGED <<log, bar, active, live, history>>

setLive(l) ==
    /\ Move /\ l # time.live
    /\ time' = [time EXCEPT !.live = l]
    /\ ReplaceUrl(UrlOf(time')) /\ carried' = FALSE
    /\ Switch(l)
    /\ UNCHANGED <<log, bar, active>>

zoomBy(w) ==
    /\ Move /\ w # time.zoom
    /\ time' = [time EXCEPT !.zoom = w]
    /\ PushUrl(UrlOf(time')) /\ carried' = FALSE
    /\ UNCHANGED <<log, bar, active, live, history>>

resetZoom ==
    /\ Move /\ time.zoom # NoRange
    /\ time' = [time EXCEPT !.zoom = NoRange]
    /\ PushUrl(UrlOf(time')) /\ carried' = FALSE
    /\ UNCHANGED <<log, bar, active, live, history>>

\* Mutant: back and forward restore the range and leave the tail as it is.
RestoredRange(url) == [parseUrl(url) EXCEPT !.live = time.live]

Restored(url) == parseUrl(url)

\* Back and forward (onPop): the time state is restored; nothing restores the query.
onPop(to) ==
    /\ Move /\ to \in DOMAIN urls \ {at}
    /\ at' = to /\ time' = Restored(urls[to]) /\ carried' = FALSE
    /\ Switch(time'.live)
    /\ UNCHANGED <<log, urls, bar, active>>

\* The rail's link, the palette and "g l" lead from the page to the page: the URL is bare,
\* range and query stay as they are.
navigate ==
    /\ Move
    /\ PushUrl(BareUrl) /\ carried' = TRUE
    /\ UNCHANGED <<log, time, bar, active, live, history>>

----------------------------------------------------------------------------
(* The query bar. *)

\* submitQuery: writes q into the URL and empties the tail.
submitQuery(q) ==
    /\ Move
    /\ ReplaceUrl([urls[at] EXCEPT !.q = q])
    /\ active' = q
    /\ tail' = <<>> /\ buffered' = <<>> /\ rendered' = <<>>
    /\ Effect(time.live, q, {})
    /\ fresh' = TRUE /\ gone' = {}
    /\ UNCHANGED <<log, time, carried, paused>>

\* Typing changes the bar only.
setText(f) ==
    /\ Move
    /\ bar' = bar \union {f}
    /\ UNCHANGED <<log, urls, at, time, carried, active, live, history>>

submit == submitQuery(bar) /\ UNCHANGED bar
pivot(f) == bar' = bar \union {f} /\ submitQuery(bar')
toggleFacet(f) == bar' = (IF f \in bar THEN bar \ {f} ELSE bar \union {f}) /\ submitQuery(bar')
removePill(f) == f \in bar /\ bar' = bar \ {f} /\ submitQuery(bar')
applyView(q) == bar' = q /\ submitQuery(bar')

----------------------------------------------------------------------------
(* The live tail. *)

\* The timer.
PollAgain ==
    /\ time.live /\ Len(polls) < MaxPolls
    /\ polls' = Append(polls, [session |-> session, first |-> FALSE, q |-> active,
                                since |-> log])
    /\ UNCHANGED <<log, page, session, seen, tail, buffered, paused, rendered, moves, history>>

FirstOf(n, events) == SubSeq(events, 1, IF Len(events) < n THEN Len(events) ELSE n)

\* The events of a query among the first n, and the newest of them, which a poll returns.
Found(q, n) == {e \in 1 .. n : Matches(q, e)}

Newest(q, n) == {e \in Found(q, n) : Cardinality({f \in Found(q, n) : f > e}) < PageSize}

Unreached(q, n) == Found(q, n) \ Newest(q, n)

\* The sequence of some events, newest first; there is one.
NewestFirst(events) ==
    {s \in [1 .. Cardinality(events) -> events] : \A i, j \in DOMAIN s : i < j => s[i] > s[j]}

Cut(events) == FirstOf(TailMax, events)
CutOff(events) == ToSet(events) \ ToSet(Cut(events))

\* Mutant: a poll is never told that its run has stopped.
NeverStopped(poll) == FALSE

Stopped(poll) == poll.session # session

\* A poll is answered, with the log as it was at some moment since it was sent.
PollAnswers(i) ==
    LET poll == polls[i]
    IN /\ i \in DOMAIN polls
       /\ polls' = RemoveAt(polls, i)
       /\ IF Stopped(poll)
          THEN UNCHANGED <<seen, tail, buffered, paused, history>>
          ELSE \E n \in poll.since .. log :
               \E new \in NewestFirst(Newest(poll.q, n) \ seen) :
               LET left == gone \union (Unreached(poll.q, n) \ seen)
               IN /\ seen' = seen \union ToSet(new)
                  /\ \/ /\ poll.first
                        /\ tail' = Cut(new) /\ buffered' = <<>> /\ paused' = FALSE
                        /\ fresh' = TRUE
                        /\ gone' = left \union CutOff(new) \union ToSet(tail \o buffered)
                     \/ /\ ~poll.first /\ paused
                        /\ buffered' = new \o buffered
                        /\ gone' = left
                        /\ UNCHANGED <<tail, paused, fresh>>
                     \/ /\ ~poll.first /\ ~paused
                        /\ tail' = Cut(new \o tail)
                        /\ gone' = left \union CutOff(new \o tail)
                        /\ UNCHANGED <<buffered, paused, fresh>>
       /\ UNCHANGED <<log, page, session, rendered, moves>>

\* It fails: the next one tries again.
PollFails(i) ==
    /\ i \in DOMAIN polls
    /\ polls' = RemoveAt(polls, i)
    /\ UNCHANGED <<log, page, session, seen, tail, buffered, paused, rendered, moves, history>>

\* The reader scrolls away from the end (onScroll).
pause ==
    /\ Move /\ time.live /\ ~paused
    /\ paused' = TRUE
    /\ UNCHANGED <<log, page, session, polls, seen, tail, buffered, rendered, history>>

\* Mutant: the buffer is emptied and not put back.
resumeEmpties ==
    /\ Move /\ time.live /\ rendered # <<>>
    /\ buffered' = <<>> /\ rendered' = <<>> /\ paused' = FALSE
    /\ gone' = gone \union (ToSet(buffered) \ ToSet(rendered))
    /\ UNCHANGED <<log, page, session, polls, seen, tail, fresh>>

\* The chip, which shows when something is buffered, puts back what was buffered when it was
\* rendered and empties the buffer as it is now.
resume ==
    /\ Move /\ time.live /\ rendered # <<>>
    /\ tail' = Cut(rendered \o tail)
    /\ buffered' = <<>> /\ rendered' = <<>> /\ paused' = FALSE
    /\ fresh' = (fresh /\ IsSuffix(rendered, buffered))
    /\ gone' = gone \union CutOff(rendered \o tail) \union (ToSet(buffered) \ ToSet(rendered))
    /\ UNCHANGED <<log, page, session, polls, seen>>

\* React renders what an answer set.
Render ==
    /\ rendered # buffered
    /\ rendered' = buffered
    /\ UNCHANGED <<log, page, session, polls, seen, tail, buffered, paused, moves, history>>

\* An event is logged.
Log ==
    /\ log < MaxLog
    /\ log' = log + 1
    /\ UNCHANGED <<page, live, moves, history>>

LogsNext ==
    \/ \E p \in Presets : setPreset(p)
    \/ \E l \in BOOLEAN : setLive(l)
    \/ \E w \in Zooms : zoomBy(w)
    \/ resetZoom \/ navigate
    \/ \E to \in {at - 1, at + 1} : onPop(to)
    \/ submit
    \/ \E f \in Pills : setText(f) \/ pivot(f) \/ toggleFacet(f) \/ removePill(f)
    \/ \E q \in Queries : applyView(q)
    \/ pause \/ resume \/ Render
    \/ PollAgain \/ \E i \in DOMAIN polls : PollAnswers(i) \/ PollFails(i)
    \/ Log

LogsSpec == LogsInit /\ [][LogsNext]_logsVars

----------------------------------------------------------------------------
(* Properties. *)

Shown == tail \o buffered

\* Once the reader has changed the range on the page, or gone back or forward, the URL the
\* browser stands at is the range on screen: a link to it and a reload show the same
\* window and the same tail (time-range.tsx:9), whatever is submitted in between.
\* A custom range that is not zoomed is the hour a URL without a range stands for.
\* A range carried over by a link inside the dashboard is in no URL (RangeIsInUrl).
UrlIsTheRange ==
    LET url == parseUrl(urls[at])
        span(t) == IF t.preset = "custom" THEN "1h" ELSE t.preset
    IN ~carried =>
          /\ url.live = time.live /\ url.zoom = time.zoom
          /\ time.zoom = NoRange => span(url) = span(time)

\* However polls overlap, fail and outlive the query they were sent for, the tail
\* shows no event twice and none of another query (logs.ts:78-80).  A tail that is
\* opened again over what it showed before may, until the opening answer.
TailIsOneStream ==
    time.live =>
        /\ \A e \in ToSet(Shown) : Matches(active, e)
        /\ fresh => IsInjective(Shown)

\* Every event of the query as old as the newest one a poll returned is on screen or
\* buffered, but for those a full page did not reach (logs.ts:76), those cut off, those the
\* opening answer replaced and those that came after the chip was rendered that the
\* reader clicks (logs.ts:83 and 111).
NoOtherEventIsLost ==
    time.live =>
        \A newest \in seen : \A e \in 1 .. newest :
            Matches(active, e) => e \in ToSet(Shown) \union gone

\* "Back/forward-safe" (docs/query-grammar.md, section 5): the URL holds the query on screen.
\* Does not hold: a submitted query replaces q in one entry of the history, and
\* going to another entry restores its range only.
QueryIsInUrl == urls[at].q = active

\* "Every state has a URL representation" (time-range.tsx:8).  Does not hold: the provider
\* is the dashboard's and keeps a range, a zoom and live across a link to the bare page,
\* and going back to that entry resets it to the hour.
RangeIsInUrl == parseUrl(urls[at]).live = time.live /\ parseUrl(urls[at]).zoom = time.zoom
=============================================================================
