---------------------------- MODULE SessionRelease ----------------------------
(***************************************************************************)
(* How a session lets its processes go, and how the next session takes the *)
(* block over (ADR-14).                                                    *)
(*                                                                         *)
(* The core of a session ends it in order (`close_session`, `Session::end`) *)
(* or is killed; its processes live on.  In each of them a watcher sees    *)
(* the core go, reads the clock, publishes the instant of the release,     *)
(* keeps the anchor, and raises DETACHED (`watcher_proc`,                  *)
(* `release_duration_axes`), while the detours go on answering             *)
(* (`tick64_or`, `h_quit`).  The lock of the session is free as soon as    *)
(* the core let it go or died, and the next core then zeroes the block and *)
(* writes its own anchor into it (`prepare`).                              *)
(*                                                                         *)
(* One duration axis; the wall has no released line and falls back to the  *)
(* real clock.  The seqlock's own interleavings are AnchorSeqlock's, so a  *)
(* rate change, and an anchor taken as a whole, are one step each here.    *)
(***************************************************************************)
EXTENDS ClockMath

CONSTANTS
    Procs,          \* the processes of the first core's session
    Threads,        \* their threads
    ProcOf,         \* [Threads -> Procs]
    Rates,          \* the multipliers of the session
    Margin,         \* RELEASE_MARGIN_QUIT
    Killed,         \* the core may be killed; it may always end in order
    ReclaimOvertakes,   \* the next core may take the block while a process is being let go
    StartTries,     \* WATCHER_START_TRIES
    MaxFailures,    \* bound: how often CreateThread fails in one process
    MaxNow,         \* bound: the last real instant
    MaxSeq          \* bound: no rate change once seq has reached it

ASSUME SessionReleaseAssumption ==
    /\ ProcOf \in [Threads -> Procs]
    /\ Rates \subseteq Nat /\ Rates # {}
    /\ Margin \in Nat \ {0}
    /\ Killed \in BOOLEAN /\ ReclaimOvertakes \in BOOLEAN
    /\ StartTries \in Nat \ {0} /\ MaxFailures \in Nat
    /\ MaxNow \in 1..I64_MAX /\ MaxSeq \in Nat

VARIABLES
    now,       \* the real clock
    core,      \* the first session's core
    next,      \* the next session's core
    block,     \* the control block both of them name
    rel,       \* each process's watcher, or the thread that does its work
    releaseAt, \* RELEASE_AT_QUIT of each process, 0 while the session holds it
    released,  \* RELEASED of each process
    detached,  \* DETACHED of each process
    thread,    \* each thread's call
    served,    \* history: the greatest value a process was answered
    inOrder    \* history: the core slowed the session to rate 1 before it ended

vars == <<now, core, next, block, rel, releaseAt, released, detached, thread, served, inOrder>>
process == <<rel, releaseAt, released, detached>>

First == "A"    \* the first core's pid; "B" the next one's, "0" none
Anchor(c0, q0, m, of) == [c0 |-> c0, q0 |-> q0, m |-> m, of |-> of]
Zeroes == Anchor(0, 0, 0, "0")
NotReleased == [at |-> 0, a |-> Zeroes]

Idle == [pc |-> "idle", look |-> 0, a |-> Zeroes, t |-> 0, at |-> 0, floor |-> 0,
         v |-> 0, of |-> "0"]

Init ==
    /\ now = 1
    /\ core = "running"
    /\ next = [pc |-> "waiting", left |-> {}]
    /\ \E m \in Rates : block = [pid |-> First, seq |-> 2, ended |-> FALSE,
                                 anchor |-> Anchor(1, 1, m, First)]
    /\ rel = [p \in Procs |-> [pc |-> "none", at |-> 0, a |-> Zeroes, failures |-> 0]]
    /\ releaseAt = [p \in Procs |-> 0]
    /\ released = [p \in Procs |-> NotReleased]
    /\ detached = [p \in Procs |-> FALSE]
    /\ thread = [t \in Threads |-> Idle]
    /\ served = [p \in Procs |-> 0]
    /\ inOrder = FALSE

\* Real time.  A watcher is not kept off the processor for longer than the margin between
\* reading the clock and publishing the instant: two instructions, and 100 ms.
Advance ==
    /\ now < MaxNow
    /\ \A p \in Procs : rel[p].pc = "publish" => now < rel[p].at
    /\ now' = now + 1
    /\ UNCHANGED <<core, next, block, process, thread, served, inOrder>>

-----------------------------------------------------------------------------
(* The first core.                                                         *)

Rebased(m) == Anchor(dur_quit_at(block.anchor.c0, block.anchor.q0, block.anchor.m, now), now, m, First)

ChangeRate(m) ==
    /\ core = "running" /\ block.seq < MaxSeq
    /\ block' = [block EXCEPT !.anchor = Rebased(m), !.seq = @ + 2]
    /\ UNCHANGED <<now, core, next, process, thread, served, inOrder>>

\* Mutant: the session ends at the rate it ran at.
SlowDownNot ==
    /\ core = "running"
    /\ core' = "slowed"
    /\ inOrder' = TRUE
    /\ UNCHANGED <<now, next, block, process, thread, served>>

\* `close_session`: rate 1 before the core leaves, when the application outlives it.
SlowDown ==
    /\ core = "running"
    /\ core' = "slowed"
    /\ inOrder' = TRUE
    /\ block' = [block EXCEPT !.anchor = Rebased(1), !.seq = @ + 2]
    /\ UNCHANGED <<now, next, process, thread, served>>

\* `Session::end`: the mark, and the lock is free.  The verdict and `ended` are still to be
\* written, so the process is still there.
End ==
    /\ core = "slowed"
    /\ core' = "ended"
    /\ block' = [block EXCEPT !.ended = TRUE]
    /\ UNCHANGED <<now, next, process, thread, served, inOrder>>

Exit ==
    /\ core = "ended"
    /\ core' = "gone"
    /\ UNCHANGED <<now, next, block, process, thread, served, inOrder>>

Kill ==
    /\ Killed /\ core # "gone"
    /\ core' = "gone"
    /\ UNCHANGED <<now, next, block, process, thread, served, inOrder>>

LockFree == core \in {"ended", "gone"}

-----------------------------------------------------------------------------
(* The next core takes the block over: `prepare`.                          *)

Fields == {"seq", "anchor", "pid", "ended"}

\* A process in which the session is still being let go of.
LettingGo(p) == rel[p].pc \in {"waiting", "publish", "read", "owner", "flag"}

MayReclaim == ReclaimOvertakes \/ \A p \in Procs : ~LettingGo(p)

Lock ==
    /\ next.pc = "waiting" /\ LockFree /\ MayReclaim
    /\ next' = [pc |-> "zero", left |-> Fields]
    /\ UNCHANGED <<now, core, block, process, thread, served, inOrder>>

\* The whole block is zeroed, one part at a time, in no order anyone promises.
Zero(field) ==
    /\ next.pc = "zero" /\ field \in next.left /\ MayReclaim
    /\ block' = [block EXCEPT ![field] = CASE field = "seq" -> 0
                                          [] field = "anchor" -> Zeroes
                                          [] field = "pid" -> "0"
                                          [] OTHER -> FALSE]
    /\ next' = [next EXCEPT !.left = @ \ {field},
                            !.pc = IF next.left = {field} THEN "open" ELSE "zero"]
    /\ UNCHANGED <<now, core, process, thread, served, inOrder>>

NextCore(pc, new) ==
    /\ next' = [next EXCEPT !.pc = new]
    /\ next.pc = pc
    /\ UNCHANGED <<now, core, process, thread, served, inOrder>>

\* `write_anchor_full`: the odd seq, the fields, the even seq, which is 2 again.
OpenAnchor  == NextCore("open", "store") /\ block' = [block EXCEPT !.seq = @ + 1]
StoreAnchor == NextCore("store", "close") /\ block' = [block EXCEPT !.anchor = Anchor(now, now, 1, "B")]
CloseAnchor == NextCore("close", "pid") /\ block' = [block EXCEPT !.seq = @ + 1]
\* The pid, last.
WritePid    == NextCore("pid", "running") /\ block' = [block EXCEPT !.pid = "B"]

-----------------------------------------------------------------------------
(* A process is let go: the watcher, or the thread that finds the session  *)
(* over at its first look.                                                 *)

\* Mutant: any session's block will do.
StillSomeones == block.pid # "0"

StillOurs == block.pid = First

RelAt(p, pc) == rel[p].pc = pc

\* The watcher's wait ends with the core's handle signalled: it reads the clock.
Wake(p) ==
    /\ RelAt(p, "waiting") /\ core = "gone"
    /\ rel' = [rel EXCEPT ![p].pc = "publish", ![p].at = now + Margin]
    /\ UNCHANGED <<now, core, next, block, releaseAt, released, detached, thread, served, inOrder>>

PublishInstant(p) ==
    /\ RelAt(p, "publish")
    /\ releaseAt' = [releaseAt EXCEPT ![p] = rel[p].at]
    /\ rel' = [rel EXCEPT ![p].pc = "read"]
    /\ UNCHANGED <<now, core, next, block, released, detached, thread, served, inOrder>>

ReadAnchor(p) ==
    /\ RelAt(p, "read") /\ block.seq % 2 = 0
    /\ rel' = [rel EXCEPT ![p].pc = "owner", ![p].a = block.anchor]
    /\ UNCHANGED <<now, core, next, block, releaseAt, released, detached, thread, served, inOrder>>

\* Mutant: a block that is not ours is left, and nothing else done.
CheckOwnerAndLeave(p) ==
    /\ RelAt(p, "owner")
    /\ released' = [released EXCEPT ![p] =
                        IF StillOurs THEN [at |-> rel[p].at, a |-> rel[p].a] ELSE @]
    /\ rel' = [rel EXCEPT ![p].pc = IF StillOurs THEN "flag" ELSE "done",
                          ![p].at = 0, ![p].a = Zeroes]
    /\ UNCHANGED <<now, core, next, block, releaseAt, detached, thread, served, inOrder>>

\* Mutant: a block that is not ours is read again until it is.
CheckOwnerAgain(p) ==
    /\ RelAt(p, "owner")
    /\ released' = [released EXCEPT ![p] =
                        IF StillOurs THEN [at |-> rel[p].at, a |-> rel[p].a] ELSE @]
    /\ rel' = [rel EXCEPT ![p].pc = IF StillOurs THEN "flag" ELSE "read"]
    /\ UNCHANGED <<now, core, next, block, releaseAt, detached, thread, served, inOrder>>

\* Ownership after the read; a block that is not ours releases nothing and detaches.
CheckOwner(p) ==
    /\ RelAt(p, "owner")
    /\ released' = [released EXCEPT ![p] =
                        IF StillOurs THEN [at |-> rel[p].at, a |-> rel[p].a] ELSE @]
    /\ detached' = [detached EXCEPT ![p] = @ \/ ~StillOurs]
    /\ rel' = [rel EXCEPT ![p].pc = "flag", ![p].at = 0, ![p].a = Zeroes]
    /\ UNCHANGED <<now, core, next, block, releaseAt, thread, served, inOrder>>

Detach(p) ==
    /\ RelAt(p, "flag")
    /\ detached' = [detached EXCEPT ![p] = TRUE]
    /\ rel' = [rel EXCEPT ![p].pc = "done"]
    /\ UNCHANGED <<now, core, next, block, releaseAt, released, thread, served, inOrder>>

-----------------------------------------------------------------------------
(* A call of a duration detour.                                            *)

At(t, pc) == thread[t].pc = pc

\* A call at a step; what it no longer needs is forgotten.
Begun(t, pc) == [Idle EXCEPT !.pc = pc, !.floor = served[ProcOf[t]]]
Answering(t, v, of) == [Idle EXCEPT !.pc = "answer", !.floor = thread[t].floor, !.v = v, !.of = of]

Branch(p) == IF detached[p] THEN "after" ELSE "look"

\* `detached` with a watcher started, or being started: a call begins with the flag.
Call(t) ==
    /\ At(t, "idle") /\ ~RelAt(ProcOf[t], "none")
    /\ thread' = [thread EXCEPT ![t] = Begun(t, Branch(ProcOf[t]))]
    /\ UNCHANGED <<now, core, next, block, process, served, inOrder>>

\* `over_at_first_look`: the end mark, the block's owner, then the core's handle.
SessionOver == block.ended \/ ~StillOurs \/ core = "gone"

\* The session is over at the first look: this thread does what the watcher would do, and
\* its call goes on when that is done.
FirstLookOver(t) ==
    LET p == ProcOf[t] IN
    /\ At(t, "idle") /\ RelAt(p, "none") /\ SessionOver
    /\ detached' = [detached EXCEPT ![p] = @ \/ (~block.ended /\ ~StillOurs)]
    /\ rel' = [rel EXCEPT ![p].pc = "publish", ![p].at = now + Margin]
    /\ thread' = [thread EXCEPT ![t] = Begun(t, "releasing")]
    /\ UNCHANGED <<now, core, next, block, releaseAt, released, served, inOrder>>

ReleasedHere(t) ==
    /\ At(t, "releasing") /\ RelAt(ProcOf[t], "done")
    /\ thread' = [thread EXCEPT ![t].pc = "flag"]
    /\ UNCHANGED <<now, core, next, block, process, served, inOrder>>

StartWatcher(t) ==
    /\ At(t, "idle") /\ RelAt(ProcOf[t], "none") /\ ~SessionOver
    /\ rel' = [rel EXCEPT ![ProcOf[t]].pc = "waiting"]
    /\ thread' = [thread EXCEPT ![t] = Begun(t, "flag")]
    /\ UNCHANGED <<now, core, next, block, releaseAt, released, detached, served, inOrder>>

\* CreateThread fails: a later call tries again, a bounded number of times.
StartFails(t) ==
    LET p == ProcOf[t]
        failures == rel[p].failures + 1
    IN
    /\ At(t, "idle") /\ RelAt(p, "none") /\ ~SessionOver
    /\ failures <= MaxFailures
    /\ rel' = [rel EXCEPT ![p].failures = failures,
                          ![p].pc = IF failures < StartTries THEN "none" ELSE "never"]
    /\ thread' = [thread EXCEPT ![t] = Begun(t, "flag")]
    /\ UNCHANGED <<now, core, next, block, releaseAt, released, detached, served, inOrder>>

SeesFlag(t) ==
    /\ At(t, "flag")
    /\ thread' = [thread EXCEPT ![t].pc = Branch(ProcOf[t])]
    /\ UNCHANGED <<now, core, next, block, process, served, inOrder>>

Look(t) ==
    /\ At(t, "look") /\ block.seq % 2 = 0
    /\ thread' = [thread EXCEPT ![t].pc = "fields", ![t].look = block.seq]
    /\ UNCHANGED <<now, core, next, block, process, served, inOrder>>

ReadFields(t) ==
    /\ At(t, "fields")
    /\ thread' = [thread EXCEPT ![t].pc = "clock", ![t].a = block.anchor]
    /\ UNCHANGED <<now, core, next, block, process, served, inOrder>>

ReadClock(t) ==
    /\ At(t, "clock")
    /\ thread' = [thread EXCEPT ![t].pc = "recheck", ![t].t = now]
    /\ UNCHANGED <<now, core, next, block, process, served, inOrder>>

Recheck(t) ==
    /\ At(t, "recheck")
    /\ thread' = [thread EXCEPT ![t] =
                     IF @.look = block.seq THEN [@ EXCEPT !.pc = "instant", !.look = 0]
                     ELSE [Idle EXCEPT !.pc = "look", !.floor = thread[t].floor]]
    /\ UNCHANGED <<now, core, next, block, process, served, inOrder>>

\* The published instant, after the clock.
LoadInstant(t) ==
    /\ At(t, "instant")
    /\ thread' = [thread EXCEPT ![t].pc = "owner", ![t].at = releaseAt[ProcOf[t]]]
    /\ UNCHANGED <<now, core, next, block, process, served, inOrder>>

\* Mutant: a call that holds the session's anchor answers on the session's line.
CheckBlockSessionLine(t) ==
    LET c == thread[t] IN
    /\ At(t, "owner")
    /\ thread' = [thread EXCEPT ![t] =
           IF StillOurs THEN Answering(t, dur_quit_at(c.a.c0, c.a.q0, c.a.m, c.t), c.a.of)
           ELSE [Idle EXCEPT !.pc = "after", !.floor = c.floor]]
    /\ detached' = [detached EXCEPT ![ProcOf[t]] = @ \/ ~StillOurs]
    /\ UNCHANGED <<now, core, next, block, rel, releaseAt, released, served, inOrder>>

\* The block's owner after the anchor: the session's answer, or what comes after it.
CheckBlock(t) ==
    LET c == thread[t] IN
    /\ At(t, "owner")
    /\ thread' = [thread EXCEPT ![t] =
           IF StillOurs THEN Answering(t, released_quit_at(c.a, c.at, c.t), c.a.of)
           ELSE [Idle EXCEPT !.pc = "after", !.floor = c.floor]]
    /\ detached' = [detached EXCEPT ![ProcOf[t]] = @ \/ ~StillOurs]
    /\ UNCHANGED <<now, core, next, block, rel, releaseAt, released, served, inOrder>>

\* `released_quit`, and the real clock when nothing could be released.
AnswerAfter(t) ==
    LET r == released[ProcOf[t]] IN
    /\ At(t, "after")
    /\ thread' = [thread EXCEPT ![t] =
           IF r = NotReleased THEN Answering(t, now, "real")
           ELSE Answering(t, released_quit_at(r.a, r.at, now), r.a.of)]
    /\ UNCHANGED <<now, core, next, block, process, served, inOrder>>

Return(t) ==
    /\ At(t, "answer")
    /\ served' = [served EXCEPT ![ProcOf[t]] = at_least(@, thread[t].v)]
    /\ thread' = [thread EXCEPT ![t] = Idle]
    /\ UNCHANGED <<now, core, next, block, process, inOrder>>

-----------------------------------------------------------------------------
FirstCore == \/ \E m \in Rates : ChangeRate(m)
             \/ SlowDown \/ End \/ Exit \/ Kill

NewCore == \/ Lock \/ \E field \in Fields : Zero(field)
           \/ OpenAnchor \/ StoreAnchor \/ CloseAnchor \/ WritePid

Release(p) == Wake(p) \/ PublishInstant(p) \/ ReadAnchor(p) \/ CheckOwner(p) \/ Detach(p)

Step(t) ==
    \/ ReleasedHere(t) \/ SeesFlag(t)
    \/ Look(t) \/ ReadFields(t) \/ ReadClock(t) \/ Recheck(t)
    \/ LoadInstant(t) \/ CheckBlock(t) \/ AnswerAfter(t) \/ Return(t)

Begin(t) == Call(t) \/ FirstLookOver(t) \/ StartWatcher(t) \/ StartFails(t)

Next ==
    \/ Advance \/ FirstCore \/ NewCore
    \/ \E p \in Procs : Release(p)
    \/ \E t \in Threads : Begin(t) \/ Step(t)

Spec == Init /\ [][Next]_vars

\* Threads run, the watcher runs, a core that began to end ends, and one that began to take
\* the block over finishes writing it.
Fairness ==
    /\ \A t \in Threads : WF_vars(Step(t))
    /\ \A p \in Procs : WF_vars(Release(p))
    /\ WF_vars(End \/ Exit)
    /\ WF_vars(NewCore /\ next.pc # "waiting")

FairSpec == Spec /\ Fairness

-----------------------------------------------------------------------------
Owners  == {"0", "A", "B"}
Anchors == [c0 : I64, q0 : 0..MaxNow, m : Nat, of : Owners]

\* The types of the variables.
TypeOK ==
    /\ now \in 1..MaxNow
    /\ core \in {"running", "slowed", "ended", "gone"}
    /\ next \in [pc : {"waiting", "zero", "open", "store", "close", "pid", "running"},
                 left : SUBSET Fields]
    /\ block \in [pid : Owners, seq : Nat, ended : BOOLEAN, anchor : Anchors]
    /\ rel \in [Procs -> [pc : {"none", "never", "waiting", "publish", "read", "owner", "flag", "done"},
                          at : Nat, a : Anchors, failures : Nat]]
    /\ releaseAt \in [Procs -> Nat]
    /\ released \in [Procs -> [at : Nat, a : Anchors]]
    /\ detached \in [Procs -> BOOLEAN]
    /\ thread \in [Threads ->
           [pc : {"idle", "releasing", "flag", "look", "fields", "clock", "recheck",
                  "instant", "owner", "after", "answer"},
            look : Nat, a : Anchors, t : 0..MaxNow, at : Nat, floor : I64, v : I64,
            of : Owners \cup {"real"}]]
    /\ served \in [Procs -> I64]
    /\ inOrder \in BOOLEAN

\* The duration axis of a process does not run back when the session ends under it: not
\* between a thread still on the session's line and one on the released line, whatever the
\* moment the watcher wakes, and not when the next session takes the block over after that.
\* A call that read the block in the middle of its zeroing is left to OnlyOwnTime.
NeverRunsBack ==
    \A t \in Threads : At(t, "answer") /\ thread[t].of # "0" => thread[t].v >= thread[t].floor

\* No process is answered with another session's time, though seq comes back to the very
\* value the first session left it at (untouchable rule 2).
NeverAnothersTime == \A t \in Threads : At(t, "answer") => thread[t].of # "B"

\* After a session that ended in order, every process of it runs on the same line, whenever
\* its watcher happened to wake, and whichever of its anchors it kept.
OneLineAfterTheEnd ==
    \A p, q \in Procs :
        inOrder /\ released[p].a.of = First /\ released[q].a.of = First =>
            \A t \in 1..MaxNow + Margin : released_quit_at(released[p].a, released[p].at, t)
                                        = released_quit_at(released[q].a, released[q].at, t)

\* The comment at `still_ours`: seeing our pid after reading the anchor means that no
\* reclaim happened in between.
OnlyOwnTime == \A t \in Threads : At(t, "answer") => thread[t].of # "0"

\* A process whose watcher runs is let go once its core is gone.
LetGo == \A p \in Procs : core = "gone" /\ RelAt(p, "waiting") ~> detached[p]

\* A call returns, through the end of the session and the next one's start.
EveryCallReturns == \A t \in Threads : ~At(t, "idle") ~> At(t, "idle")

\* A process that is let go keeps a duration clock inside the range that does not step back, though
\* the line it is on changes between any two of its threads' steps (rule 3).
DurationsGoOn == TypeOK /\ NeverRunsBack

\* The end of a session holds up nobody: a process whose watcher waits is let go once the core is
\* gone, and each call of a detour returns meanwhile.
NobodyIsHeld == LetGo /\ EveryCallReturns
=============================================================================
