----------------------------- MODULE CdpRequests -----------------------------
(***************************************************************************)
(* One JS context of a Chromium engine and the session that drives it over *)
(* DevTools (crates/cli cdp_requests.rs, cdp_attach.rs, cdp/session.rs):   *)
(* requests are written down and sent, the page takes them in the order of *)
(* its session whenever its scripts let it, and an answer is acted on      *)
(* whenever it comes.  A deadline bounds a wait, never what is learned, so *)
(* the waits are not here: the session's next step may come at any time.   *)
(*                                                                         *)
(* Contexts share nothing but the clock and the session's phase, so one at *)
(* a time is modelled; a target that comes back is a new session of it.    *)
(* A clock is the number of the move that gave it.  The call counts are    *)
(* left out of the counts' answers, as are the frame tree and the zone.    *)
(***************************************************************************)
EXTENDS Integers, FiniteSets, SequencesExt

CONSTANTS
    RateMoves,    \* the moves that are scheduled rate changes; the others set the whole clock
    MaxMoves,     \* bound: moves of the session clock
    MaxLoads,     \* bound: documents the page loads after its first
    MaxSessions,  \* bound: times the target is attached
    MayBreak      \* whether the connection may close under the session

ASSUME CdpRequestsAssumption ==
    /\ MaxMoves \in Nat /\ MaxLoads \in Nat /\ MaxSessions \in Nat
    /\ RateMoves \subseteq 1..MaxMoves /\ MayBreak \in BOOLEAN

\* What a document runs on besides a session clock: nothing yet, the real clock with no
\* shim in it, the real clock with a shim let go of.
NoDocument == -3
Bare       == -2
Released   == -1
Clocks     == 0..MaxMoves
NoHook     == -1

VARIABLES
    newest,    \* the session clock: the move that set it last
    phase,     \* "running", "letgo" (the release is out), "ending" (the last counts are), "over"
    linked,    \* whether the connection is open
    ctx,       \* CdpContext, and whether it is on the list
    missed,    \* Requests.missed, by session
    engine,    \* the target: alive, its new-document scripts in order, its document, loads
    toPage,    \* requests the page has not taken
    fromPage,  \* answers and events the session has not handled, as the socket orders them
    freed      \* what the release told: "untold", "all" confirmed or "some" not

cdpVars == <<newest, phase, linked, ctx, missed, engine, toPage, fromPage, freed>>

On(clock) == [at |-> clock, apart |-> FALSE]

Nobody(session) ==
    [on |-> FALSE, session |-> session, page |-> FALSE, current |-> NoHook, unremoved |-> <<>>,
     counting |-> FALSE, released |-> FALSE, answer |-> FALSE, awaiting |-> FALSE]

CdpInit ==
    /\ newest = 0 /\ phase = "running" /\ linked = TRUE
    /\ ctx = Nobody(0) /\ missed = {}
    /\ engine = [alive |-> FALSE, hooks |-> <<>>, doc |-> On(NoDocument), loads |-> 0]
    /\ toPage = <<>> /\ fromPage = <<>>
    /\ freed = "untold"

Ask(kind, clock) == [for |-> kind, clock |-> clock]
Counts  == Ask("counts", NoHook)
Release == Ask("release", NoHook)

\* `Requests.asked`: what was sent to the context on the list and is not answered.
InFlight(kinds) ==
    {i \in DOMAIN toPage : toPage[i].for \in kinds} # {} \/
    {i \in DOMAIN fromPage : fromPage[i].for \in kinds} # {}

-----------------------------------------------------------------------------
(* The engine.                                                             *)

\* The connection lives as long as the session, unless it breaks.
Open == linked /\ phase # "over"

EngineSteps == UNCHANGED <<newest, phase, linked, ctx, missed, freed>>

\* Every script runs in the order it was added, and the last one's whole clock stands.
Loaded == On(IF engine.hooks = <<>> THEN Bare ELSE Last(engine.hooks))

LoadsDocument ==
    /\ engine.alive /\ Open /\ ctx.page /\ engine.loads < MaxLoads
    /\ engine' = [engine EXCEPT !.doc = Loaded, !.loads = @ + 1]
    /\ EngineSteps /\ UNCHANGED <<toPage, fromPage>>

\* A document with a shim takes the move.  A rate change goes on from the document's own
\* clock, so it is right only on the clock before it, and taken after its instant it leaves
\* the document apart from the panel.
Moved(doc, clock, late) ==
    IF clock \notin RateMoves THEN On(clock)
    ELSE [at |-> clock, apart |-> late \/ doc.apart \/ doc.at < clock - 1]

\* The page takes the request first in line.  A command of the page's own can fail, one for
\* a document fails where there is none, or where a navigation takes the document away.
Takes ==
    LET r == Head(toPage)
        Says(word, e) == /\ engine' = e
                         /\ fromPage' = Append(fromPage, [for |-> r.for, clock |-> r.clock, says |-> word])
        noDocument == engine.doc.at = NoDocument
        shimmed == engine.doc.at >= Released
    IN  /\ engine.alive /\ Open /\ toPage # <<>>
        /\ toPage' = Tail(toPage) /\ EngineSteps
        /\ \/ /\ r.for = "hook"
              /\ \/ Says("ok", [engine EXCEPT !.hooks = Append(@, r.clock)])
                 \/ Says("error", engine)
           \/ /\ r.for = "unhook"
              /\ \/ \E i \in DOMAIN engine.hooks :
                       engine.hooks[i] = r.clock /\ Says("ok", [engine EXCEPT !.hooks = RemoveAt(@, i)])
                 \/ Says("error", engine)
           \/ /\ r.for \in {"move", "release", "counts"} /\ noDocument
              /\ Says("error", engine)
           \/ /\ r.for \in {"move", "release", "counts"} /\ ~noDocument
              /\ IF ctx.page THEN /\ engine.loads < MaxLoads
                                  /\ Says("error", [engine EXCEPT !.doc = Loaded, !.loads = @ + 1])
                             ELSE Says("error", engine)
           \/ /\ r.for = "counts" /\ ~noDocument
              /\ Says(IF shimmed THEN "ok" ELSE "null", engine)
           \/ /\ r.for \in {"move", "release"} /\ ~noDocument /\ ~shimmed
              /\ Says("ok", engine)
           \/ /\ r.for = "release" /\ shimmed
              /\ Says("ok", [engine EXCEPT !.doc = On(Released)])
           \/ /\ r.for = "move" /\ shimmed
              /\ \E late \in IF r.clock \in RateMoves THEN BOOLEAN ELSE {FALSE} :
                    Says(IF late THEN "late" ELSE "ok", [engine EXCEPT !.doc = Moved(@, r.clock, late)])

\* A closed window, a recycled worker: what it has not taken is never answered.
GoesAway ==
    /\ engine.alive /\ Open
    /\ engine' = [engine EXCEPT !.alive = FALSE]
    /\ toPage' = <<>>
    /\ fromPage' = Append(fromPage, [for |-> "gone", clock |-> NoHook, says |-> "ok"])
    /\ EngineSteps

\* The connection closes, and the new-document scripts die with it: of a document loaded
\* after that the session says nothing.
Breaks ==
    /\ MayBreak /\ Open /\ linked' = FALSE
    /\ engine' = [engine EXCEPT !.hooks = <<>>]
    /\ UNCHANGED <<newest, phase, ctx, missed, toPage, fromPage, freed>>

-----------------------------------------------------------------------------
(* The session.  `sent` is what goes to the page, in order; a request that *)
(* could not be sent is not written down.                                  *)

Sends(sent) == toPage' = IF linked THEN toPage \o sent ELSE toPage

Unhooks(scripts) == [i \in 1..Len(scripts) |-> Ask("unhook", scripts[i])]

\* `unhook_all`: one that could not even be asked stays on the list for the next try.
Unhooked(c) == IF linked THEN [c EXCEPT !.unremoved = <<>>] ELSE c

\* Mutant: a context answering the last request is asked again.
CountsAskedAlways == IF ctx.on THEN <<Counts>> ELSE <<>>

CountsAsked == IF ctx.on /\ ~ctx.counting THEN <<Counts>> ELSE <<>>
Counting == IF ctx.on /\ linked THEN [ctx EXCEPT !.counting = TRUE] ELSE ctx

\* The target is reached: the hook and the shim of the clock of now, taken together before
\* the page's own scripts.  A page may have no document yet, and then waits for its audit.
Attaches(page, awaits) ==
    /\ phase = "running" /\ linked /\ ~engine.alive /\ ~ctx.on /\ fromPage = <<>>
    /\ ctx.session < MaxSessions /\ (awaits => page)
    /\ ctx' = [Nobody(ctx.session + 1) EXCEPT !.on = TRUE, !.page = page, !.awaiting = awaits,
                                              !.current = IF page THEN newest ELSE NoHook]
    /\ engine' = [alive |-> TRUE, hooks |-> IF page THEN <<newest>> ELSE <<>>,
                  doc |-> On(IF awaits THEN NoDocument ELSE newest), loads |-> 0]
    /\ UNCHANGED <<newest, phase, linked, missed, toPage, fromPage, freed>>

\* `start_move`: a page gets its new hook first, and the move once that is back.
MovesClock ==
    /\ phase = "running" /\ newest < MaxMoves
    /\ newest' = newest + 1
    /\ LET reached == ctx.on /\ ~ctx.released
       IN  /\ Sends(IF ~reached THEN <<>>
                    ELSE <<Ask(IF ctx.current = NoHook THEN "move" ELSE "hook", newest + 1)>>)
           /\ missed' = IF reached /\ ~linked THEN missed \cup {ctx.session} ELSE missed
    /\ UNCHANGED <<phase, linked, ctx, engine, fromPage, freed>>

AsksCounts ==
    /\ phase = "running" /\ linked /\ CountsAsked # <<>>
    /\ Sends(CountsAsked) /\ ctx' = Counting
    /\ UNCHANGED <<newest, phase, linked, missed, engine, fromPage, freed>>

\* Mutant: the release leaves the hooks to die with the connection.
ReleaseAskedAlone(c) == <<Release>>

\* The hooks a page may have, and its clock.
ReleaseAsked(c) == Unhooks(c.unremoved) \o <<Release>>

\* Mutant: a worker is taken to have a hook as well.
HooksLeftAll == Append(ctx.unremoved, ctx.current)

HooksLeft == IF ctx.current = NoHook THEN ctx.unremoved ELSE Append(ctx.unremoved, ctx.current)

\* `Attacher::release`: the last counts, then every context is let go of.
LetsGo ==
    /\ phase = "running" /\ phase' = "letgo"
    /\ LET c == [Counting EXCEPT !.released = TRUE, !.current = NoHook, !.unremoved = HooksLeft]
       IN  IF ctx.on THEN /\ Sends(CountsAsked \o ReleaseAsked(c))
                          /\ ctx' = Unhooked(c)
                     ELSE UNCHANGED <<ctx, toPage>>
    /\ UNCHANGED <<newest, linked, missed, engine, fromPage, freed>>

\* Mutant: a hook still on its way back is not looked for.
UnconfirmedHookless == ctx.on /\ (~ctx.answer \/ ctx.unremoved # <<>>)

\* `unreleased`: the context did not confirm it was let go of, or may still have a hook.
Unconfirmed ==
    ctx.on /\ (~ctx.answer \/ ctx.unremoved # <<>> \/ ctx.current # NoHook \/ InFlight({"hook", "unhook"}))

\* The release is told, and the session goes on to its end.
TellsRelease ==
    /\ phase = "letgo" /\ phase' = "ending"
    /\ freed' = IF Unconfirmed THEN "some" ELSE "all"
    /\ Sends(CountsAsked) /\ ctx' = Counting
    /\ UNCHANGED <<newest, linked, missed, engine, fromPage>>

\* `Attacher::settle`, where no application outlives the session.
Settles ==
    /\ phase = "running" /\ phase' = "ending"
    /\ Sends(CountsAsked) /\ ctx' = Counting
    /\ UNCHANGED <<newest, linked, missed, engine, fromPage, freed>>

\* Mutant: a move that has no answer at the end counts as taken.
SettledMissedNone == missed

\* `settle_moves`: a move that has no answer by the end was missed.
SettledMissed == IF ctx.on /\ InFlight({"hook", "move"}) THEN missed \cup {ctx.session} ELSE missed

\* The outcome is handed over, and the connection closes with the attacher.
Hands ==
    /\ phase = "ending" /\ phase' = "over"
    /\ missed' = SettledMissed
    /\ toPage' = <<>> /\ fromPage' = <<>>
    /\ UNCHANGED <<newest, linked, ctx, engine, freed>>

\* Mutant: a page let go of is still given the move its hook was asked for.
MoveAfterAlways(clock) == <<Ask("move", clock)>>

\* What goes to the page when its hook is back: the live document's move, to a page still driven.
MoveAfter(clock) == IF ctx.released THEN <<>> ELSE <<Ask("move", clock)>>

\* `on_reply`, and the event of a target that went (`forget`), whose requests go with it.
Handles ==
    LET a == Head(fromPage)
        ok == a.says = "ok"
        Keeps(c) == ctx' = c /\ UNCHANGED toPage
        Misses(it) == missed' = IF it THEN missed \cup {ctx.session} ELSE missed
    IN  /\ Open /\ fromPage # <<>>
        /\ fromPage' = Tail(fromPage)
        /\ UNCHANGED <<newest, phase, linked, engine, freed>>
        /\ \/ a.for = "gone" /\ ctx' = Nobody(ctx.session) /\ toPage' = <<>> /\ Misses(FALSE)
           \/ /\ a.for = "counts" /\ Misses(FALSE)
              /\ Keeps([ctx EXCEPT !.counting = FALSE, !.awaiting = @ /\ ~ok])
           \/ /\ a.for = "hook" /\ Misses(~ok)
              /\ LET old == IF ctx.released THEN a.clock ELSE ctx.current
                     c == IF ok THEN [ctx EXCEPT !.unremoved = Append(@, old),
                                                 !.current = IF ctx.released THEN @ ELSE a.clock]
                                ELSE ctx
                 IN  /\ Sends((IF ok THEN Unhooks(c.unremoved) ELSE <<>>)
                              \o MoveAfter(a.clock))
                     /\ ctx' = IF ok THEN Unhooked(c) ELSE c
           \/ /\ a.for = "unhook" /\ Misses(FALSE)
              /\ Keeps(IF ok THEN ctx ELSE [ctx EXCEPT !.unremoved = Append(@, a.clock)])
           \/ a.for = "move" /\ Misses(~ok /\ ~ctx.awaiting) /\ Keeps(ctx)
           \/ /\ a.for = "release" /\ Misses(FALSE)
              /\ Keeps([ctx EXCEPT !.answer = ok \/ ctx.awaiting])

EngineNext == LoadsDocument \/ Takes \/ GoesAway \/ Breaks

CdpNext ==
    \/ EngineNext
    \/ \E page, awaits \in BOOLEAN : Attaches(page, awaits)
    \/ MovesClock \/ AsksCounts \/ LetsGo \/ TellsRelease \/ Settles \/ Hands \/ Handles

CdpSpec == CdpInit /\ [][CdpNext]_cdpVars /\ WF_cdpVars(Takes) /\ WF_cdpVars(Handles)

-----------------------------------------------------------------------------
CdpTypeOK ==
    /\ newest \in Clocks /\ phase \in {"running", "letgo", "ending", "over"} /\ linked \in BOOLEAN
    /\ ctx.session \in 0..MaxSessions /\ ctx.current \in Clocks \cup {NoHook}
    /\ ctx.unremoved \in Seq(Clocks) /\ missed \subseteq 1..MaxSessions
    /\ engine.doc.at \in NoDocument..MaxMoves /\ engine.loads \in 0..MaxLoads
    /\ \A i \in DOMAIN engine.hooks : engine.hooks[i] \in Clocks
    /\ freed \in {"untold", "all", "some"}

Driven == ctx.on /\ engine.alive /\ ~ctx.released
Said   == ctx.session \in missed

\* Nothing the session asked for the last move is still on its way.
Caught == ~InFlight({"hook", "move"})

\* A context that has answered every move, and is not said to have missed one, stands on the
\* clock the session gave last; and so will the next document of its page, though the hooks
\* are renewed one at a time, out of step with the documents it loads (R4-W5).
OnTheClockOrSaid ==
    Driven /\ Caught /\ ~Said =>
        /\ engine.doc.at \in {NoDocument, newest}
        /\ ctx.page /\ linked => Last(engine.hooks) = newest

\* What the doc of `missed` says of every page: one that answered a move with anything but
\* `ok` or `no-shim`, `late` with it, is in the set, so a page that is not runs at the panel's
\* moment.
LateIsSaid == Driven /\ Caught /\ ~Said => ~engine.doc.apart

\* A release told as confirmed by the page leaves no new-document script in it: no document
\* it loads afterwards goes on a session clock, a hook that came back late included.
NoHookLeft == freed = "all" /\ ctx.on /\ engine.alive => engine.hooks = <<>>

\* A document off the session clock when its release was told stays off it: no move, hook or
\* answer still on its way puts it back.
PutsNothingBack ==
    freed = "all" /\ engine.alive /\ engine.doc.at \notin Clocks => engine'.doc.at \notin Clocks
NeverPutBack == [][PutsNothingBack]_cdpVars

\* What the docs of the release promise: the contexts that may still be on the session clock
\* are counted, so where none is, the document the page shows is off it.
ReleasedIsOff == freed = "all" /\ ctx.on /\ engine.alive => engine.doc.at \notin Clocks

\* A busy context does not pile up requests: at most one count is on its way to it (R4-S10).
OneCountAtATime ==
    Cardinality({i \in DOMAIN toPage : toPage[i].for = "counts"})
        + Cardinality({i \in DOMAIN fromPage : fromPage[i].for = "counts"}) <= 1

\* A page that takes its requests comes to stand on the session clock, or is said to have
\* missed a move; no answer that comes late leaves it behind for good.
Behind == Driven /\ linked /\ phase = "running" /\ ~Said /\ engine.doc.at \notin {NoDocument, newest}
CatchesUp == Behind ~> ~Behind

\* One context over late answers and navigations: on the clock given last, or said to have missed
\* it, with one reading of its counts on the way; and a release told as complete left no script for
\* the next document.
ContextIsSound == CdpTypeOK /\ OnTheClockOrSaid /\ OneCountAtATime /\ NoHookLeft
=============================================================================
