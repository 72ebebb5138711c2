--------------------------- MODULE ChromiumProofs ---------------------------
(***************************************************************************)
(* Proofs about a core as the client of its browser: the browser's start   *)
(* and end (BrowserLaunch), the socket to it (DevToolsSocket), the calls   *)
(* over it (DevToolsCalls) and the clock of its pages (CdpClock), for any  *)
(* room in the queues and on the wire, any limits, and any rates, moves    *)
(* and shifts of the system clock.                                         *)
(*                                                                         *)
(* What carries most of them is the stream: what one side wrote and the    *)
(* other has not taken in, wherever it stands, in the order it was         *)
(* written.  Moving a message or an event from one place to the next       *)
(* leaves it as it is.  The clocks of the panel are such a stream: from    *)
(* the one the page has taken to the one the panel runs on now.            *)
(***************************************************************************)
EXTENDS MCChromium, SequenceTheorems, FiniteSetTheorems, WellFoundedInduction, TLAPS

-----------------------------------------------------------------------------
(* A Chromium browser's start and end.                                     *)

CoreAts == {"out", "sweeping", "starting", "waiting", "connecting", "running", "ending",
            "removing", "telling", "over", "killed"}

LaunchTicks == 0..(PORT_WAIT + ATTEMPTS)

CoreShape ==
    core \in [at : CoreAts, left : LaunchTicks, exit : BOOLEAN, seen : NotObserved..HANDOFF_MARGIN]
ChromiumShape ==
    chromium \in [first : {"none", "runs", "ended"}, port : BOOLEAN, job : BOOLEAN,
                  rest : {"none", "runs", "dying", "ended"}]
ProfileShape == profile \in {"none", "whole", "damaged"}
OtherShape ==
    other \in [lives : BOOLEAN, holds : BOOLEAN, pid : BOOLEAN,
               profile : {"none", "whole", "damaged"}, harmed : BOOLEAN]
ToldShape == reported \in [end : {"unsaid", "clean", "left"}, handed : BOOLEAN]

LaunchShape == CoreShape /\ ChromiumShape /\ ProfileShape /\ OtherShape /\ ToldShape

\* Before the browser is started there is nothing of it, and before the loop ends nothing is told.
StartInv ==
    /\ core.at \in {"out", "sweeping", "starting"} =>
         /\ profile = "none" /\ chromium.first = "none" /\ chromium.rest = "none" /\ ~chromium.job
         /\ core.seen = NotObserved
    /\ core.at \in {"out", "sweeping", "starting", "waiting", "connecting", "running"} => ~reported.handed
    /\ core.at = "removing" => core.left \in 1..ATTEMPTS

\* A pid that is in use is never swept, and a living core's is.
SweepInv ==
    /\ other.lives => other.pid
    /\ core.at = "sweeping" => ~other.lives

\* The end is told last, and a first process is seen to have ended once it has.
EndInv ==
    /\ reported.end # "unsaid" => core.at = "over"
    /\ core.seen # NotObserved => chromium.first = "ended"

LaunchInv ==
    /\ LaunchShape /\ StartInv /\ SweepInv /\ EndInv
    /\ LivingProfilesAreWhole /\ ResidueIsTrue /\ NothingRunsOn /\ HandoverIsTrue

\* The parts of the invariant that speak of the fields, once their shape is known.
LaunchParts ==
    /\ StartInv /\ SweepInv /\ EndInv
    /\ LivingProfilesAreWhole /\ ResidueIsTrue /\ NothingRunsOn /\ HandoverIsTrue

LEMMA LaunchNumbers ==
    /\ PORT_WAIT \in Nat /\ GRACE \in Nat /\ ATTEMPTS \in Nat /\ HANDOFF_MARGIN \in Nat
    /\ PORT_WAIT > 0 /\ GRACE > 0 /\ ATTEMPTS > 0 /\ HANDOFF_MARGIN > 0
  BY BrowserLaunchAssumption

LEMMA LaunchTicksFit == PORT_WAIT \in LaunchTicks /\ ATTEMPTS \in LaunchTicks
  BY LaunchNumbers DEF LaunchTicks

LEMMA LaunchStarts == LaunchInit => LaunchInv
  BY LaunchNumbers DEF LaunchInit, LaunchInv, LaunchShape, LaunchTicks, CoreShape, ChromiumShape,
      ProfileShape, OtherShape, ToldShape, CoreAts, StartInv, SweepInv, EndInv, NotObserved,
      LivingProfilesAreWhole, ResidueIsTrue, NothingRunsOn, HandoverIsTrue

\* One pass of the wait keeps the core's record what it is.
LEMMA PortWaitShapes == ASSUME CoreShape, LooksForPort PROVE CoreShape'
<1> USE LaunchNumbers DEF NotObserved
<1> DEFINE ended == chromium.first = "ended"
           left == IF ended /\ ~core.exit /\ GRACE < core.left THEN GRACE ELSE core.left
           after == left - 1
           exit == core.exit \/ ended
<1>1. left \in LaunchTicks BY DEF CoreShape, LaunchTicks
<1>2. exit \in BOOLEAN OBVIOUS
<1>3. left # 0 => after \in LaunchTicks BY <1>1 DEF LaunchTicks
<1> HIDE DEF left, exit, after
<1>4. \/ core' = [core EXCEPT !.at = "connecting"]
      \/ core' = [core EXCEPT !.at = "ending"]
      \/ left # 0 /\ core' = [core EXCEPT !.exit = exit, !.left = after]
  BY DEF LooksForPort, left, exit, after
<1>5. CASE core' = [core EXCEPT !.at = "connecting"] BY <1>5 DEF CoreShape, CoreAts
<1>6. CASE core' = [core EXCEPT !.at = "ending"] BY <1>6 DEF CoreShape, CoreAts
<1>7. CASE left # 0 /\ core' = [core EXCEPT !.exit = exit, !.left = after]
  BY <1>2, <1>3, <1>7 DEF CoreShape
<1>8. QED BY <1>4, <1>5, <1>6, <1>7

\* One attempt at the removal does as well.
LEMMA RemovalShapes == ASSUME CoreShape, RemovesProfile, core.left >= 1 PROVE CoreShape'
<1> USE LaunchNumbers DEF NotObserved
<1> DEFINE after == core.left - 1
<1>1. core' \in {[core EXCEPT !.left = after, !.at = "telling"], [core EXCEPT !.left = after]}
  BY DEF CoreShape, RemovesProfile
<1>2. after \in LaunchTicks BY DEF CoreShape, LaunchTicks
<1> HIDE DEF after
<1>3. QED BY <1>1, <1>2 DEF CoreShape, CoreAts

LEMMA LaunchSteps == LaunchInv /\ [LaunchNext]_launchVars => LaunchInv'
<1> SUFFICES ASSUME LaunchInv, [LaunchNext]_launchVars PROVE LaunchShape' /\ LaunchParts'
  BY DEF LaunchInv, LaunchParts
<1> USE DEF NotObserved
<1>0. LaunchShape /\ LaunchParts BY DEF LaunchInv, LaunchParts
<1>1. CASE RefusesSwitches
  <2>1. CoreShape'
    BY <1>0, <1>1, LaunchNumbers, LaunchTicksFit DEF RefusesSwitches, CoreGoes, LaunchShape, CoreShape, CoreAts
  <2>2. ChromiumShape' BY <1>0, <1>1 DEF RefusesSwitches, CoreGoes, LaunchShape, ChromiumShape
  <2>3. ProfileShape' /\ OtherShape'
    BY <1>0, <1>1 DEF RefusesSwitches, CoreGoes, LaunchShape, ProfileShape, OtherShape
  <2>4. ToldShape' BY <1>0, <1>1 DEF RefusesSwitches, CoreGoes, LaunchShape, ToldShape
  <2>5. LaunchParts'
    BY <1>0, <1>1, LaunchNumbers, <2>1, <2>2, <2>3, <2>4
    DEF RefusesSwitches, CoreGoes, LaunchShape, CoreShape, ChromiumShape, ProfileShape, OtherShape, ToldShape,
        CoreAts, LaunchParts, StartInv, SweepInv, EndInv,
        LivingProfilesAreWhole, ResidueIsTrue, NothingRunsOn, HandoverIsTrue
  <2>6. QED BY <2>1, <2>2, <2>3, <2>4, <2>5 DEF LaunchShape
<1>2. CASE AsksForPid
  <2>1. CoreShape'
    BY <1>0, <1>2, LaunchNumbers, LaunchTicksFit DEF AsksForPid, CoreGoes, LaunchShape, CoreShape, CoreAts
  <2>2. ChromiumShape' BY <1>0, <1>2 DEF AsksForPid, CoreGoes, LaunchShape, ChromiumShape
  <2>3. ProfileShape' /\ OtherShape'
    BY <1>0, <1>2 DEF AsksForPid, CoreGoes, LaunchShape, ProfileShape, OtherShape
  <2>4. ToldShape' BY <1>0, <1>2 DEF AsksForPid, CoreGoes, LaunchShape, ToldShape
  <2>5. LaunchParts'
    BY <1>0, <1>2, LaunchNumbers, <2>1, <2>2, <2>3, <2>4
    DEF AsksForPid, CoreGoes, LaunchShape, CoreShape, ChromiumShape, ProfileShape, OtherShape, ToldShape,
        CoreAts, LaunchParts, StartInv, SweepInv, EndInv,
        LivingProfilesAreWhole, ResidueIsTrue, NothingRunsOn, HandoverIsTrue
  <2>6. QED BY <2>1, <2>2, <2>3, <2>4, <2>5 DEF LaunchShape
<1>3. CASE SweepsProfile
  <2>1. CoreShape'
    BY <1>0, <1>3, LaunchNumbers, LaunchTicksFit DEF SweepsProfile, Removal, CoreGoes, LaunchShape, CoreShape, CoreAts
  <2>2. ChromiumShape'
    BY <1>0, <1>3 DEF SweepsProfile, Removal, CoreGoes, LaunchShape, ChromiumShape
  <2>3. ProfileShape' /\ OtherShape'
    BY <1>0, <1>3 DEF SweepsProfile, Removal, CoreGoes, LaunchShape, ProfileShape, OtherShape
  <2>4. ToldShape' BY <1>0, <1>3 DEF SweepsProfile, Removal, CoreGoes, LaunchShape, ToldShape
  <2>5. LaunchParts'
    BY <1>0, <1>3, LaunchNumbers, <2>1, <2>2, <2>3, <2>4
    DEF SweepsProfile, Removal, CoreGoes, LaunchShape, CoreShape, ChromiumShape, ProfileShape, OtherShape, ToldShape,
        CoreAts, LaunchParts, StartInv, SweepInv, EndInv,
        LivingProfilesAreWhole, ResidueIsTrue, NothingRunsOn, HandoverIsTrue
  <2>6. QED BY <2>1, <2>2, <2>3, <2>4, <2>5 DEF LaunchShape
<1>4. CASE StartsBrowser
  <2>1. CoreShape'
    BY <1>0, <1>4, LaunchNumbers, LaunchTicksFit DEF StartsBrowser, CoreGoes, LaunchShape, CoreShape, CoreAts
  <2>2. ChromiumShape' BY <1>0, <1>4 DEF StartsBrowser, CoreGoes, LaunchShape, ChromiumShape
  <2>3. ProfileShape' /\ OtherShape'
    BY <1>0, <1>4 DEF StartsBrowser, CoreGoes, LaunchShape, ProfileShape, OtherShape
  <2>4. ToldShape' BY <1>0, <1>4 DEF StartsBrowser, CoreGoes, LaunchShape, ToldShape
  <2>5. LaunchParts'
    <3>1. /\ core.at = "starting" /\ core'.seen = core.seen /\ core'.at # "starting"
          /\ core'.at = "removing" => core'.left = ATTEMPTS
      BY <1>0, <1>4 DEF StartsBrowser, CoreGoes, LaunchShape, CoreShape, CoreAts
    <3>2. \/ core'.at = "over" /\ UNCHANGED <<chromium, profile>>
          \/ core'.at = "removing" /\ profile' = "whole" /\ UNCHANGED <<chromium, reported>>
          \/ core'.at = "waiting" /\ profile' = "whole" /\ chromium'.rest = chromium.rest /\ UNCHANGED reported
      BY <1>0, <1>4 DEF StartsBrowser, CoreGoes, LaunchShape, CoreShape, ChromiumShape, CoreAts
    <3>3. reported' # reported => reported'.end = "clean" /\ core'.at = "over" /\ reported'.handed = reported.handed
      BY <1>0, <1>4 DEF StartsBrowser, CoreGoes, LaunchShape, CoreShape, ToldShape, CoreAts
    <3>4. UNCHANGED other BY <1>4 DEF StartsBrowser
    <3>5. QED
      BY <1>0, <3>1, <3>2, <3>3, <3>4, LaunchNumbers, <2>1, <2>2, <2>4
      DEF LaunchShape, CoreShape, ToldShape, LaunchParts, StartInv, SweepInv, EndInv,
          LivingProfilesAreWhole, ResidueIsTrue, NothingRunsOn, HandoverIsTrue
  <2>6. QED BY <2>1, <2>2, <2>3, <2>4, <2>5 DEF LaunchShape
<1>5. CASE LooksForPort
  <2>1. CoreShape' BY <1>0, <1>5, PortWaitShapes DEF LaunchShape
  <2>2. ChromiumShape' BY <1>0, <1>5 DEF LooksForPort, LaunchShape, ChromiumShape
  <2>3. ProfileShape' /\ OtherShape'
    BY <1>0, <1>5 DEF LooksForPort, LaunchShape, ProfileShape, OtherShape
  <2>4. ToldShape' BY <1>0, <1>5 DEF LooksForPort, LaunchShape, ToldShape
  <2>5. LaunchParts'
    BY <1>0, <1>5, LaunchNumbers, <2>1, <2>2, <2>3, <2>4
    DEF LooksForPort, LaunchShape, CoreShape, ChromiumShape, ProfileShape, OtherShape, ToldShape,
        CoreAts, LaunchParts, StartInv, SweepInv, EndInv,
        LivingProfilesAreWhole, ResidueIsTrue, NothingRunsOn, HandoverIsTrue
  <2>6. QED BY <2>1, <2>2, <2>3, <2>4, <2>5 DEF LaunchShape
<1>6. CASE ConnectsFirst
  <2>1. CoreShape'
    BY <1>0, <1>6, LaunchNumbers, LaunchTicksFit DEF ConnectsFirst, CoreGoes, LaunchShape, CoreShape, CoreAts
  <2>2. ChromiumShape' BY <1>0, <1>6 DEF ConnectsFirst, CoreGoes, LaunchShape, ChromiumShape
  <2>3. ProfileShape' /\ OtherShape'
    BY <1>0, <1>6 DEF ConnectsFirst, CoreGoes, LaunchShape, ProfileShape, OtherShape
  <2>4. ToldShape' BY <1>0, <1>6 DEF ConnectsFirst, CoreGoes, LaunchShape, ToldShape
  <2>5. LaunchParts'
    BY <1>0, <1>6, LaunchNumbers, <2>1, <2>2, <2>3, <2>4
    DEF ConnectsFirst, CoreGoes, LaunchShape, CoreShape, ChromiumShape, ProfileShape, OtherShape, ToldShape,
        CoreAts, LaunchParts, StartInv, SweepInv, EndInv,
        LivingProfilesAreWhole, ResidueIsTrue, NothingRunsOn, HandoverIsTrue
  <2>6. QED BY <2>1, <2>2, <2>3, <2>4, <2>5 DEF LaunchShape
<1>7. CASE Observes
  <2>1. CoreShape'
    BY <1>0, <1>7, LaunchNumbers, LaunchTicksFit DEF Observes, LaunchShape, CoreShape, CoreAts
  <2>2. ChromiumShape' BY <1>0, <1>7 DEF Observes, LaunchShape, ChromiumShape
  <2>3. ProfileShape' /\ OtherShape'
    BY <1>0, <1>7 DEF Observes, LaunchShape, ProfileShape, OtherShape
  <2>4. ToldShape' BY <1>0, <1>7 DEF Observes, LaunchShape, ToldShape
  <2>5. LaunchParts'
    BY <1>0, <1>7, LaunchNumbers, <2>1, <2>2, <2>3, <2>4
    DEF Observes, LaunchShape, CoreShape, ChromiumShape, ProfileShape, OtherShape, ToldShape,
        CoreAts, LaunchParts, StartInv, SweepInv, EndInv,
        LivingProfilesAreWhole, ResidueIsTrue, NothingRunsOn, HandoverIsTrue
  <2>6. QED BY <2>1, <2>2, <2>3, <2>4, <2>5 DEF LaunchShape
<1>8. CASE LeavesTheLoop
  <2>1. CoreShape'
    BY <1>0, <1>8, LaunchNumbers, LaunchTicksFit DEF LeavesTheLoop, CoreGoes, LaunchShape, CoreShape, CoreAts
  <2>2. ChromiumShape' BY <1>0, <1>8 DEF LeavesTheLoop, CoreGoes, LaunchShape, ChromiumShape
  <2>3. ProfileShape' /\ OtherShape'
    BY <1>0, <1>8 DEF LeavesTheLoop, CoreGoes, LaunchShape, ProfileShape, OtherShape
  <2>4. ToldShape'
    <3>1. (core.seen = HANDOFF_MARGIN) \in BOOLEAN OBVIOUS
    <3>2. QED BY <1>0, <1>8, <3>1 DEF LeavesTheLoop, LaunchShape, ToldShape
  <2>5. LaunchParts'
    BY <1>0, <1>8, LaunchNumbers, <2>1, <2>2, <2>3, <2>4
    DEF LeavesTheLoop, CoreGoes, LaunchShape, CoreShape, ChromiumShape, ProfileShape, OtherShape, ToldShape,
        CoreAts, LaunchParts, StartInv, SweepInv, EndInv,
        LivingProfilesAreWhole, ResidueIsTrue, NothingRunsOn, HandoverIsTrue
  <2>6. QED BY <2>1, <2>2, <2>3, <2>4, <2>5 DEF LaunchShape
<1>9. CASE CleansUp
  <2>1. CoreShape'
    BY <1>0, <1>9, LaunchNumbers, LaunchTicksFit DEF CleansUp, EndAll, LaunchShape, CoreShape, CoreAts
  <2>2. ChromiumShape' BY <1>0, <1>9 DEF CleansUp, EndAll, LaunchShape, ChromiumShape
  <2>3. ProfileShape' /\ OtherShape'
    BY <1>0, <1>9 DEF CleansUp, EndAll, LaunchShape, ProfileShape, OtherShape
  <2>4. ToldShape' BY <1>0, <1>9 DEF CleansUp, EndAll, LaunchShape, ToldShape
  <2>5. LaunchParts'
    BY <1>0, <1>9, LaunchNumbers, <2>1, <2>2, <2>3, <2>4
    DEF CleansUp, EndAll, LaunchShape, CoreShape, ChromiumShape, ProfileShape, OtherShape, ToldShape,
        CoreAts, LaunchParts, StartInv, SweepInv, EndInv,
        LivingProfilesAreWhole, ResidueIsTrue, NothingRunsOn, HandoverIsTrue
  <2>6. QED BY <2>1, <2>2, <2>3, <2>4, <2>5 DEF LaunchShape
<1>10. CASE RemovesProfile
  <2>1. CoreShape'
    BY <1>0, <1>10, LaunchNumbers, RemovalShapes DEF RemovesProfile, LaunchShape, LaunchParts, StartInv
  <2>2. ChromiumShape' BY <1>0, <1>10 DEF RemovesProfile, Removal, LaunchShape, ChromiumShape
  <2>3. ProfileShape' /\ OtherShape'
    BY <1>0, <1>10 DEF RemovesProfile, Removal, LaunchShape, ProfileShape, OtherShape
  <2>4. ToldShape' BY <1>0, <1>10 DEF RemovesProfile, Removal, LaunchShape, ToldShape
  <2>5. LaunchParts'
    BY <1>0, <1>10, LaunchNumbers, <2>1, <2>2, <2>3, <2>4
    DEF RemovesProfile, Removal, LaunchShape, CoreShape, ChromiumShape, ProfileShape, OtherShape, ToldShape,
        CoreAts, LaunchParts, StartInv, SweepInv, EndInv,
        LivingProfilesAreWhole, ResidueIsTrue, NothingRunsOn, HandoverIsTrue
  <2>6. QED BY <2>1, <2>2, <2>3, <2>4, <2>5 DEF LaunchShape
<1>11. CASE TellsResidue
  <2>1. CoreShape'
    BY <1>0, <1>11, LaunchNumbers, LaunchTicksFit DEF TellsResidue, CoreGoes, LaunchShape, CoreShape, CoreAts
  <2>2. ChromiumShape' BY <1>0, <1>11 DEF TellsResidue, CoreGoes, LaunchShape, ChromiumShape
  <2>3. ProfileShape' /\ OtherShape'
    BY <1>0, <1>11 DEF TellsResidue, CoreGoes, LaunchShape, ProfileShape, OtherShape
  <2>4. ToldShape' BY <1>0, <1>11 DEF TellsResidue, CoreGoes, LaunchShape, ToldShape
  <2>5. LaunchParts'
    BY <1>0, <1>11, LaunchNumbers, <2>1, <2>2, <2>3, <2>4
    DEF TellsResidue, CoreGoes, LaunchShape, CoreShape, ChromiumShape, ProfileShape, OtherShape, ToldShape,
        CoreAts, LaunchParts, StartInv, SweepInv, EndInv,
        LivingProfilesAreWhole, ResidueIsTrue, NothingRunsOn, HandoverIsTrue
  <2>6. QED BY <2>1, <2>2, <2>3, <2>4, <2>5 DEF LaunchShape
<1>12. CASE BrowserGrows
  <2>1. CoreShape'
    BY <1>0, <1>12, LaunchNumbers, LaunchTicksFit DEF BrowserGrows, CoresStand, LaunchShape, CoreShape, CoreAts
  <2>2. ChromiumShape' BY <1>0, <1>12 DEF BrowserGrows, CoresStand, LaunchShape, ChromiumShape
  <2>3. ProfileShape' /\ OtherShape'
    BY <1>0, <1>12 DEF BrowserGrows, CoresStand, LaunchShape, ProfileShape, OtherShape
  <2>4. ToldShape' BY <1>0, <1>12 DEF BrowserGrows, CoresStand, LaunchShape, ToldShape
  <2>5. LaunchParts'
    BY <1>0, <1>12, LaunchNumbers, <2>1, <2>2, <2>3, <2>4
    DEF BrowserGrows, CoresStand, LaunchShape, CoreShape, ChromiumShape, ProfileShape, OtherShape, ToldShape,
        CoreAts, LaunchParts, StartInv, SweepInv, EndInv,
        LivingProfilesAreWhole, ResidueIsTrue, NothingRunsOn, HandoverIsTrue
  <2>6. QED BY <2>1, <2>2, <2>3, <2>4, <2>5 DEF LaunchShape
<1>13. CASE BrowserEnds
  <2>1. CoreShape'
    BY <1>0, <1>13, LaunchNumbers, LaunchTicksFit DEF BrowserEnds, CoresStand, LaunchShape, CoreShape, CoreAts
  <2>2. ChromiumShape'
    <3>1. (chromium.port /\ chromium.rest = "runs") \in BOOLEAN /\ (chromium.port /\ chromium.first = "runs") \in BOOLEAN
      OBVIOUS
    <3>2. QED BY <1>0, <1>13, <3>1 DEF BrowserEnds, LaunchShape, ChromiumShape
  <2>3. ProfileShape' /\ OtherShape'
    BY <1>0, <1>13 DEF BrowserEnds, CoresStand, LaunchShape, ProfileShape, OtherShape
  <2>4. ToldShape' BY <1>0, <1>13 DEF BrowserEnds, CoresStand, LaunchShape, ToldShape
  <2>5. LaunchParts'
    <3>1. /\ chromium.first # "none" => chromium'.first # "none"
          /\ chromium'.first = "runs" => chromium.first = "runs"
          /\ chromium.first = "ended" => chromium'.first = "ended"
          /\ chromium.first = "none" => chromium'.first = "none"
          /\ chromium'.rest = "runs" => chromium.rest = "runs"
          /\ chromium.rest = "none" => chromium'.rest = "none"
          /\ chromium'.job = chromium.job
      BY <1>0, <1>13 DEF BrowserEnds, LaunchShape, ChromiumShape
    <3>2. QED
      BY <1>0, <1>13, <3>1
      DEF BrowserEnds, CoresStand, LaunchShape, CoreShape, LaunchParts, StartInv, SweepInv, EndInv,
          LivingProfilesAreWhole, ResidueIsTrue, NothingRunsOn, HandoverIsTrue
  <2>6. QED BY <2>1, <2>2, <2>3, <2>4, <2>5 DEF LaunchShape
<1>14. CASE CoreDies
  <2>1. CoreShape'
    BY <1>0, <1>14, LaunchNumbers, LaunchTicksFit DEF CoreDies, EndAll, CoreGoes, LaunchShape, CoreShape, CoreAts
  <2>2. ChromiumShape' BY <1>0, <1>14 DEF CoreDies, EndAll, CoreGoes, LaunchShape, ChromiumShape
  <2>3. ProfileShape' /\ OtherShape'
    BY <1>0, <1>14 DEF CoreDies, EndAll, CoreGoes, LaunchShape, ProfileShape, OtherShape
  <2>4. ToldShape' BY <1>0, <1>14 DEF CoreDies, EndAll, CoreGoes, LaunchShape, ToldShape
  <2>5. LaunchParts'
    BY <1>0, <1>14, LaunchNumbers, <2>1, <2>2, <2>3, <2>4
    DEF CoreDies, EndAll, CoreGoes, LaunchShape, CoreShape, ChromiumShape, ProfileShape, OtherShape, ToldShape,
        CoreAts, LaunchParts, StartInv, SweepInv, EndInv,
        LivingProfilesAreWhole, ResidueIsTrue, NothingRunsOn, HandoverIsTrue
  <2>6. QED BY <2>1, <2>2, <2>3, <2>4, <2>5 DEF LaunchShape
<1>15. CASE OtherMoves
  <2>1. CoreShape'
    BY <1>0, <1>15, LaunchNumbers, LaunchTicksFit DEF OtherMoves, LaunchShape, CoreShape, CoreAts
  <2>2. ChromiumShape' BY <1>0, <1>15 DEF OtherMoves, LaunchShape, ChromiumShape
  <2>3. ProfileShape' /\ OtherShape'
    BY <1>0, <1>15 DEF OtherMoves, LaunchShape, ProfileShape, OtherShape
  <2>4. ToldShape' BY <1>0, <1>15 DEF OtherMoves, LaunchShape, ToldShape
  <2>5. LaunchParts'
    <3>1. /\ other'.harmed = other.harmed /\ other'.profile = other.profile
          /\ other'.lives => other.lives /\ other'.pid = other.pid
      BY <1>0, <1>15 DEF OtherMoves, LaunchShape, OtherShape
    <3>2. QED
      BY <1>0, <1>15, <2>3, <3>1
      DEF OtherMoves, LaunchShape, OtherShape, LaunchParts, StartInv, SweepInv, EndInv,
          LivingProfilesAreWhole, ResidueIsTrue, NothingRunsOn, HandoverIsTrue
  <2>6. QED BY <2>1, <2>2, <2>3, <2>4, <2>5 DEF LaunchShape
<1>16. CASE UNCHANGED launchVars
  <2>1. CoreShape'
    BY <1>0, <1>16, LaunchNumbers, LaunchTicksFit DEF launchVars, LaunchShape, CoreShape, CoreAts
  <2>2. ChromiumShape' BY <1>0, <1>16 DEF launchVars, LaunchShape, ChromiumShape
  <2>3. ProfileShape' /\ OtherShape'
    BY <1>0, <1>16 DEF launchVars, LaunchShape, ProfileShape, OtherShape
  <2>4. ToldShape' BY <1>0, <1>16 DEF launchVars, LaunchShape, ToldShape
  <2>5. LaunchParts'
    BY <1>0, <1>16, LaunchNumbers, <2>1, <2>2, <2>3, <2>4
    DEF launchVars, LaunchShape, CoreShape, ChromiumShape, ProfileShape, OtherShape, ToldShape,
        CoreAts, LaunchParts, StartInv, SweepInv, EndInv,
        LivingProfilesAreWhole, ResidueIsTrue, NothingRunsOn, HandoverIsTrue
  <2>6. QED BY <2>1, <2>2, <2>3, <2>4, <2>5 DEF LaunchShape
<1>17. QED
  BY <1>1, <1>2, <1>3, <1>4, <1>5, <1>6, <1>7, <1>8, <1>9, <1>10, <1>11, <1>12, <1>13, <1>14, <1>15, <1>16
  DEF LaunchNext, CoreSteps

\* A browser's start and its end, whatever the waits, the retries, the kills and the other
\* session on the same profile: no living session's profile is damaged, nothing is left to run
\* that the core did not tell of, and the residue it tells of is there (cli cdp/launch.rs).
THEOREM LaunchHolds == ChromiumSpec => []SoundLaunch
<1>1. ChromiumInit => LaunchInv BY LaunchStarts DEF ChromiumInit
<1>2. LaunchInv /\ [ChromiumNext]_chromiumVars => LaunchInv'
  <2> SUFFICES ASSUME LaunchInv, [ChromiumNext]_chromiumVars PROVE LaunchInv' OBVIOUS
  <2>1. [LaunchNext]_launchVars BY DEF ChromiumNext, Moves, chromiumVars
  <2>2. QED BY <2>1, LaunchSteps
<1>3. LaunchInv => SoundLaunch
  BY DEF LaunchInv, LaunchShape, CoreShape, ChromiumShape, ProfileShape, LaunchTicks, CoreAts,
      SoundLaunch, LaunchIsSound, LaunchTypeOK
<1>4. QED BY <1>1, <1>2, <1>3, PTL DEF ChromiumSpec

-----------------------------------------------------------------------------
(* The socket of a DevTools connection.                                    *)

Frames == [op : {"part", "last", "ping", "close", "unusable"}, of : 0..MaxMessages]

BrowserShape ==
    browser \in [said : 0..MaxMessages, pings : 0..MaxPings, reads : BOOLEAN, left : {"no", "closed", "reset"}]
IncomingShape ==
    /\ incoming \in Seq(Frames) /\ Len(incoming) <= WireRoom
    /\ \A i \in 1..Len(incoming) : incoming[i].of # NoMessage <=> incoming[i].op = "last"
OutgoingShape == outgoing \in Seq({"text", "pong", "close"}) /\ Len(outgoing) <= WireRoom
InboxShape == inbox \in Seq(1..MaxMessages \cup {EndOfSocket}) /\ Len(inbox) <= INBOX
Held == 0..MaxMessages \cup {EndOfSocket}
ReaderShape ==
    wsReader \in [at : {"reading", "pong", "handing", "gone"}, parts : 0..MAX_WS_PARTS,
                  hands : Held]
OwnerShape ==
    wsOwner \in [at : {"turn", "send", "drop", "gone"}, sent : 0..MaxSends, took : 0..MaxMessages]
RestShape ==
    /\ writeLock \in {"free", "reader", "owner"} /\ wsOver \in BOOLEAN
    /\ torn \in [by : {"nobody", "reader", "owner"}, again : BOOLEAN]

SocketShape ==
    /\ BrowserShape /\ IncomingShape /\ OutgoingShape /\ InboxShape
    /\ ReaderShape /\ OwnerShape /\ RestShape

\* What the reader holds: nothing while it reads, a message or the end while it hands over.
HandInv ==
    /\ wsReader.at \in {"reading", "pong"} => wsReader.hands = NoMessage
    /\ wsReader.at = "handing" => wsReader.hands # NoMessage
    /\ wsReader.hands > NoMessage => wsReader.parts = 0
    /\ writeLock = "reader" => wsReader.at = "pong"
    /\ TheEndIsLast

\* Whoever stopped inside a frame does not come to write again.
TornInv ==
    /\ torn.by = "reader" =>
          wsReader.at = "gone" \/ (wsReader.at = "handing" /\ wsReader.hands = EndOfSocket)
    /\ torn.by = "owner" => wsOver \/ wsOwner.at = "gone"
    /\ wsOwner.at = "send" => ~wsOver
    /\ TornIsTheLast

\* How many messages wait in the inbox, and the last one the reader has assembled.
Kept == IF inbox # <<>> /\ inbox[Len(inbox)] = EndOfSocket THEN Len(inbox) - 1 ELSE Len(inbox)
Assembled == wsOwner.took + Kept + (IF wsReader.hands > NoMessage THEN 1 ELSE 0)

\* The inbox and the reader's hands go on from the message the owner took, one by one.
TakenInv ==
    /\ \A i \in 1..Kept : inbox[i] = wsOwner.took + i
    /\ wsReader.hands > NoMessage => wsReader.hands = Assembled

\* So does what is still on the wire from the last one assembled.
WireInv(reached) ==
    /\ reached <= browser.said
    /\ \A i \in 1..Len(incoming) : incoming[i].of # NoMessage =>
          reached < incoming[i].of /\ incoming[i].of <= browser.said
    /\ \A i, j \in 1..Len(incoming) :
          i < j /\ incoming[i].of # NoMessage /\ incoming[j].of # NoMessage => incoming[i].of < incoming[j].of
    /\ ~TooLong => \A i \in 1..Len(incoming) : \A m \in (reached + 1)..incoming[i].of :
          \E j \in 1..Len(incoming) : incoming[j].of = m
    /\ ~TooLong /\ browser.left # "reset" => \A m \in (reached + 1)..browser.said :
          \E j \in 1..Len(incoming) : incoming[j].of = m

SocketInv == SocketShape /\ HandInv /\ TornInv /\ TakenInv /\ WireInv(Assembled)

LEMMA SocketNumbers ==
    /\ INBOX \in Nat /\ MAX_WS_PARTS \in Nat /\ WireRoom \in Nat /\ MaxMessages \in Nat
    /\ MaxPings \in Nat /\ MaxSends \in Nat
    /\ INBOX > 0 /\ MAX_WS_PARTS > 0 /\ WireRoom > 0
  BY DevToolsSocketAssumption

LEMMA HeldFits ==
    /\ EndOfSocket \in Held /\ NoMessage \in Held
    /\ Held = 0..MaxMessages \cup {EndOfSocket} /\ Held \subseteq Int
  BY SocketNumbers DEF Held, NoMessage, EndOfSocket

LEMMA SocketStarts == SocketInit => SocketInv
<1> SUFFICES ASSUME SocketInit PROVE SocketInv OBVIOUS
<1> USE SocketNumbers, HeldFits DEF SocketInit, NoMessage, EndOfSocket
<1>1. SocketShape
  <2>1. IncomingShape /\ OutgoingShape /\ InboxShape BY DEF IncomingShape, OutgoingShape, InboxShape
  <2>2. BrowserShape /\ ReaderShape /\ OwnerShape
    BY HeldFits DEF BrowserShape, ReaderShape, OwnerShape
  <2>3. RestShape BY DEF RestShape
  <2>4. QED BY <2>1, <2>2, <2>3 DEF SocketShape
<1>2. HandInv /\ TornInv BY DEF HandInv, TheEndIsLast, TornInv, TornIsTheLast
<1>3. Kept = 0 /\ Assembled = 0 BY DEF Kept, Assembled
<1>4. TakenInv /\ WireInv(Assembled) BY <1>3 DEF TakenInv, WireInv
<1>5. QED BY <1>1, <1>2, <1>4 DEF SocketInv

\* Assembled is a number of the session.
LEMMA AssembledIsNat ==
  ASSUME SocketShape, HandInv
  PROVE  Kept \in Nat /\ Assembled \in Nat /\ Kept <= Len(inbox)
BY SocketNumbers DEF SocketShape, InboxShape, OwnerShape, Kept, Assembled

\* Where the reader has assembled, what waits and what is taken stand, and the reader has given up on
\* no message it had not given up on, what is on the wire stands as well.
LEMMA WireStands ==
  ASSUME WireInv(Assembled), Assembled' = Assembled, UNCHANGED <<browser, incoming>>, TooLong => TooLong'
  PROVE  WireInv(Assembled)'
BY DEF WireInv

LEMMA FramesCarryNumbers == ASSUME NEW s \in Seq(Frames) PROVE \A i \in 1..Len(s) : s[i].of \in Nat
<1>1. \A i \in 1..Len(s) : s[i] \in Frames OBVIOUS
<1>2. \A f \in Frames : f.of \in Nat BY SocketNumbers DEF Frames
<1>3. QED BY <1>1, <1>2

-----------------------------------------------------------------------------
\* The browser's moves.
LEMMA BrowserSendsOn ==
  ASSUME SocketInv, BrowserSends
  PROVE  \E f \in Frames :
            /\ incoming' = Append(incoming, f) /\ Len(incoming) < WireRoom /\ browser.left = "no"
            /\ f.of # NoMessage <=> f.op = "last"
            /\ f.of # NoMessage => f.of = browser.said + 1 /\ browser'.said = browser.said + 1
            /\ f.of = NoMessage => browser'.said = browser.said
            /\ BrowserShape'
<1> USE SocketNumbers DEF NoMessage
<1>1. BrowserShape BY DEF SocketInv, SocketShape
<1>2. CASE BrowserPuts(Frame("part", NoMessage)) /\ UNCHANGED browser
  BY <1>1, <1>2 DEF BrowserPuts, Frame, Frames, BrowserShape
<1>3. CASE /\ browser.said < MaxMessages /\ BrowserPuts(Frame("last", browser.said + 1))
           /\ browser' = [browser EXCEPT !.said = @ + 1]
  <2>1. BrowserShape' /\ browser.said + 1 \in 0..MaxMessages /\ browser.said + 1 # 0 /\ browser'.said = browser.said + 1
    BY <1>1, <1>3 DEF BrowserShape
  <2>2. Frame("last", browser.said + 1) \in Frames BY <2>1 DEF Frame, Frames
  <2>3. QED BY <1>3, <2>1, <2>2 DEF BrowserPuts, Frame
<1>4. CASE /\ browser.pings < MaxPings /\ BrowserPuts(Frame("ping", NoMessage))
           /\ browser' = [browser EXCEPT !.pings = @ + 1]
  <2>1. BrowserShape' /\ browser'.said = browser.said BY <1>1, <1>4 DEF BrowserShape
  <2>2. Frame("ping", NoMessage) \in Frames BY DEF Frame, Frames
  <2>3. QED BY <1>4, <2>1, <2>2 DEF BrowserPuts, Frame
<1>5. CASE \E op \in {"close", "unusable"} :
             BrowserPuts(Frame(op, NoMessage)) /\ browser' = [browser EXCEPT !.left = "closed"]
  <2>1. BrowserShape' /\ browser'.said = browser.said BY <1>1, <1>5 DEF BrowserShape
  <2>2. QED BY <1>5, <2>1 DEF BrowserPuts, Frame, Frames
<1>6. QED BY <1>2, <1>3, <1>4, <1>5 DEF BrowserSends

LEMMA BrowserSendKeeps == ASSUME SocketInv, BrowserSends PROVE SocketInv'
<1> USE SocketNumbers DEF NoMessage
<1>1. PICK f \in Frames :
         /\ incoming' = Append(incoming, f) /\ Len(incoming) < WireRoom /\ browser.left = "no"
         /\ f.of # NoMessage <=> f.op = "last"
         /\ f.of # NoMessage => f.of = browser.said + 1 /\ browser'.said = browser.said + 1
         /\ f.of = NoMessage => browser'.said = browser.said
         /\ BrowserShape'
  BY BrowserSendsOn
<1>2. UNCHANGED outgoing /\ UNCHANGED <<torn, writeLock, wsReader, inbox, wsOwner, wsOver>>
  BY DEF BrowserSends, OurSide
<1>3. SocketShape /\ HandInv /\ TornInv /\ TakenInv /\ WireInv(Assembled) BY DEF SocketInv
<1>4. incoming \in Seq(Frames) /\ Len(incoming') = Len(incoming) + 1 /\ incoming' \in Seq(Frames)
      /\ (\A i \in 1..Len(incoming) : incoming'[i] = incoming[i])
      /\ incoming'[Len(incoming) + 1] = f
  BY <1>1, <1>3 DEF SocketShape, IncomingShape
<1>5. SocketShape'
  <2>1. IncomingShape'
    <3>1. \A i \in 1..Len(incoming') : i \in 1..Len(incoming) \/ i = Len(incoming) + 1 BY <1>4
    <3>2. QED BY <1>1, <1>3, <1>4, <3>1 DEF IncomingShape, SocketShape
  <2>2. QED
    BY <1>1, <1>2, <1>3, <2>1 DEF SocketShape, OutgoingShape, InboxShape, ReaderShape, OwnerShape, RestShape
<1>6. HandInv' /\ TornInv' /\ TakenInv' /\ Assembled' = Assembled /\ TooLong' = TooLong
  BY <1>2, <1>3 DEF HandInv, TheEndIsLast, TornInv, TornIsTheLast, TakenInv, Kept, Assembled, TooLong
<1>7. WireInv(Assembled)'
  <2> DEFINE reached == Assembled  n == Len(incoming)
  <2>1. reached \in Nat /\ n \in Nat /\ browser.said \in Nat /\ browser'.said \in Nat /\ browser.left # "reset"
    BY <1>1, <1>3, <1>4, AssembledIsNat DEF SocketShape, BrowserShape
  <2> HIDE DEF reached, n
  <2>2. WireInv(reached) BY <1>3 DEF reached
  <2>3. \A i \in 1..n : incoming[i].of \in Nat BY <1>4, FramesCarryNumbers DEF n
  <2>4. /\ Len(incoming) = n /\ Len(incoming') = n + 1 /\ incoming'[n + 1].of = f.of /\ f.of \in Nat
        /\ \A i \in 1..n : incoming'[i].of = incoming[i].of
    <3>1. f.of \in Nat BY DEF Frames
    <3>2. n = Len(incoming) BY DEF n
    <3>3. QED BY <1>4, <3>1, <3>2
  <2>5. WireInv(reached)'
    <3>1. \A i \in 1..n + 1 : i \in 1..n \/ i = n + 1 BY <2>1
    <3>2. ASSUME ~TooLong, NEW m \in (reached + 1)..browser'.said
          PROVE  \E j \in 1..n + 1 : incoming'[j].of = m
      <4>1. CASE m \in (reached + 1)..browser.said
        <5>1. PICK j \in 1..n : incoming[j].of = m BY <2>1, <2>2, <2>4, <3>2, <4>1 DEF WireInv
        <5>2. QED BY <2>1, <2>4, <5>1
      <4>2. CASE m = f.of BY <2>1, <2>4, <4>2
      <4>3. QED BY <1>1, <2>1, <2>4, <3>2, <4>1, <4>2
    <3>3. \A i \in 1..n + 1 : incoming'[i].of # NoMessage =>
             reached < incoming'[i].of /\ incoming'[i].of <= browser'.said
      BY <1>1, <2>1, <2>2, <2>3, <2>4, <3>1 DEF WireInv
    <3>4. \A i, j \in 1..n + 1 : i < j /\ incoming'[i].of # NoMessage /\ incoming'[j].of # NoMessage
             => incoming'[i].of < incoming'[j].of
      <4> SUFFICES ASSUME NEW i \in 1..n + 1, NEW j \in 1..n + 1, i < j, incoming'[i].of # NoMessage,
                          incoming'[j].of # NoMessage
                   PROVE  incoming'[i].of < incoming'[j].of
        OBVIOUS
      <4>1. i \in 1..n /\ incoming'[i].of = incoming[i].of /\ incoming[i].of <= browser.said
        BY <2>1, <2>2, <2>3, <2>4 DEF WireInv
      <4>2. CASE j \in 1..n BY <2>2, <2>4, <4>1, <4>2 DEF WireInv
      <4>3. CASE j = n + 1 BY <1>1, <2>1, <2>3, <2>4, <4>1, <4>3
      <4>4. QED BY <3>1, <4>2, <4>3
    <3>5. ASSUME ~TooLong, NEW i \in 1..n + 1, NEW m \in (reached + 1)..incoming'[i].of
          PROVE  \E j \in 1..n + 1 : incoming'[j].of = m
      <4>1. m \in (reached + 1)..browser'.said BY <2>1, <2>3, <2>4, <3>1, <3>3, <3>5
      <4>2. QED BY <3>2, <3>5, <4>1
    <3>6. reached <= browser'.said BY <1>1, <2>1, <2>2 DEF WireInv
    <3>7. reached' = reached /\ TooLong' = TooLong BY <1>6 DEF reached
    <3>8. QED BY <2>4, <3>2, <3>3, <3>4, <3>5, <3>6, <3>7 DEF WireInv
  <2>6. QED BY <2>5 DEF reached
<1>8. QED BY <1>5, <1>6, <1>7 DEF SocketInv

LEMMA BrowserLeaveKeeps == ASSUME SocketInv, BrowserLeaves PROVE SocketInv'
<1> USE SocketNumbers DEF NoMessage
<1>1. UNCHANGED outgoing /\ UNCHANGED <<torn, writeLock, wsReader, inbox, wsOwner, wsOver>>
  BY DEF BrowserLeaves, OurSide
<1>2. SocketShape /\ HandInv /\ TornInv /\ TakenInv /\ WireInv(Assembled) BY DEF SocketInv
<1>3. BrowserShape' /\ browser'.said = browser.said /\ browser.left = "no"
  BY <1>2 DEF BrowserLeaves, SocketShape, BrowserShape
<1>4. PICK n \in 0..Len(incoming) :
         /\ incoming' = SubSeq(incoming, 1, n)
         /\ n = Len(incoming) \/ browser'.left = "reset"
  <2>1. incoming = SubSeq(incoming, 1, Len(incoming)) /\ Len(incoming) \in 0..Len(incoming)
    BY <1>2 DEF SocketShape, IncomingShape
  <2>2. UNCHANGED incoming \/ \E n \in 0..Len(incoming) : incoming' = SubSeq(incoming, 1, n) /\ browser'.left = "reset"
    BY <1>2 DEF BrowserLeaves, SocketShape, BrowserShape
  <2>3. QED BY <2>1, <2>2
<1>5. incoming \in Seq(Frames) /\ incoming' \in Seq(Frames) /\ Len(incoming') = n
      /\ (\A i \in 1..n : i \in 1..Len(incoming) /\ incoming'[i] = incoming[i]) /\ n \in Nat /\ n <= Len(incoming)
      /\ Len(incoming) \in Nat
  BY <1>2, <1>4 DEF SocketShape, IncomingShape
<1>6. SocketShape'
  <2>1. IncomingShape' BY <1>2, <1>5 DEF SocketShape, IncomingShape
  <2>2. QED
    BY <1>1, <1>2, <1>3, <2>1 DEF SocketShape, OutgoingShape, InboxShape, ReaderShape, OwnerShape, RestShape
<1>7. HandInv' /\ TornInv' /\ TakenInv' /\ Assembled' = Assembled /\ TooLong' = TooLong
  BY <1>1, <1>2 DEF HandInv, TheEndIsLast, TornInv, TornIsTheLast, TakenInv, Kept, Assembled, TooLong
<1>8. WireInv(Assembled)'
  <2> DEFINE reached == Assembled
  <2>1. reached \in Nat /\ WireInv(reached) /\ reached' = reached BY <1>2, <1>7, AssembledIsNat
  <2> HIDE DEF reached
  <2>2. \A i \in 1..Len(incoming) : incoming[i].of \in Nat BY <1>5, FramesCarryNumbers
  <2>3. ASSUME ~TooLong, NEW i \in 1..n, NEW m \in (reached + 1)..incoming'[i].of
        PROVE  \E j \in 1..n : incoming'[j].of = m
    <3>1. PICK j \in 1..Len(incoming) : incoming[j].of = m BY <1>5, <2>1, <2>3 DEF WireInv
    <3>2. m > 0 /\ m <= incoming[i].of /\ i \in 1..Len(incoming) BY <1>5, <2>1, <2>2, <2>3
    <3>3. ~(i < j) BY <2>1, <2>2, <3>1, <3>2 DEF WireInv
    <3>4. j \in 1..n BY <1>5, <3>1, <3>3
    <3>5. QED BY <1>5, <3>1, <3>4
  <2>4. ASSUME ~TooLong, browser'.left # "reset", NEW m \in (reached + 1)..browser'.said
        PROVE  \E j \in 1..n : incoming'[j].of = m
    <3>1. n = Len(incoming) /\ browser.left # "reset" /\ browser'.said = browser.said
      BY <1>3, <1>4, <2>4
    <3>2. PICK j \in 1..n : incoming[j].of = m BY <2>1, <2>4, <3>1 DEF WireInv
    <3>3. QED BY <1>5, <3>2
  <2>5. WireInv(reached)'
    <3>1. \A i, j \in 1..n : i < j /\ incoming'[i].of # NoMessage /\ incoming'[j].of # NoMessage
             => incoming'[i].of < incoming'[j].of
      BY <1>5, <2>1 DEF WireInv
    <3>2. \A i \in 1..n : incoming'[i].of # NoMessage =>
             reached < incoming'[i].of /\ incoming'[i].of <= browser'.said
      BY <1>3, <1>5, <2>1 DEF WireInv
    <3>3. reached <= browser'.said BY <1>3, <2>1 DEF WireInv
    <3>4. QED BY <1>5, <1>7, <2>1, <2>3, <2>4, <3>1, <3>2, <3>3 DEF WireInv
  <2>6. QED BY <2>5 DEF reached
<1>9. QED BY <1>6, <1>7, <1>8 DEF SocketInv

LEMMA BrowserReadKeeps == ASSUME SocketInv, BrowserReads PROVE SocketInv'
<1> USE SocketNumbers DEF NoMessage
<1>1. UNCHANGED incoming /\ UNCHANGED <<torn, writeLock, wsReader, inbox, wsOwner, wsOver>>
  BY DEF BrowserReads, OurSide
<1>2. SocketShape /\ HandInv /\ TornInv /\ TakenInv /\ WireInv(Assembled) BY DEF SocketInv
<1>3. BrowserShape' /\ browser'.said = browser.said /\ browser.left = "no"
  BY <1>2 DEF BrowserReads, SocketShape, BrowserShape
<1>4. OutgoingShape' BY <1>2 DEF BrowserReads, SocketShape, OutgoingShape
<1>5. SocketShape'
  BY <1>1, <1>2, <1>3, <1>4 DEF SocketShape, IncomingShape, InboxShape, ReaderShape, OwnerShape, RestShape
<1>6. HandInv' /\ TornInv' /\ TakenInv' /\ Assembled' = Assembled /\ TooLong' = TooLong
  BY <1>1, <1>2 DEF HandInv, TheEndIsLast, TornInv, TornIsTheLast, TakenInv, Kept, Assembled, TooLong
<1>7. WireInv(Assembled)' BY <1>1, <1>2, <1>3, <1>6 DEF WireInv
<1>8. QED BY <1>5, <1>6, <1>7 DEF SocketInv

-----------------------------------------------------------------------------
\* The reader's moves.

\* What the reader takes from the wire was no message, or is a message it gives up on.
LEMMA WirePasses ==
  ASSUME SocketInv, incoming # <<>>, incoming' = Tail(incoming), UNCHANGED browser,
         incoming[1].of = NoMessage \/ TooLong', Assembled' = Assembled, TooLong => TooLong'
  PROVE  IncomingShape' /\ WireInv(Assembled)'
<1> USE SocketNumbers DEF NoMessage
<1> DEFINE reached == Assembled  n == Len(incoming')
<1>1. SocketShape /\ HandInv /\ WireInv(reached) BY DEF SocketInv
<1>2. /\ incoming \in Seq(Frames) /\ incoming' \in Seq(Frames) /\ n \in Nat /\ Len(incoming) = n + 1
      /\ \A i \in 1..n : incoming'[i] = incoming[i + 1] /\ i + 1 \in 1..Len(incoming)
  BY <1>1 DEF SocketShape, IncomingShape
<1>3. reached \in Nat /\ browser.said \in Nat BY <1>1, AssembledIsNat DEF SocketShape, BrowserShape
<1>4. IncomingShape' BY <1>1, <1>2 DEF SocketShape, IncomingShape
<1>5. \A i \in 1..Len(incoming) : incoming[i].of \in Nat BY <1>2, FramesCarryNumbers
<1> HIDE DEF reached, n
<1>6. ASSUME ~TooLong', NEW m \in Nat, m > 0, \E j \in 1..Len(incoming) : incoming[j].of = m
      PROVE  \E j \in 1..n : incoming'[j].of = m
  <2>1. PICK j \in 1..Len(incoming) : incoming[j].of = m BY <1>6
  <2>2. j # 1 BY <1>6, <2>1
  <2>3. j - 1 \in 1..n /\ (j - 1) + 1 = j BY <1>2, <2>2
  <2>4. QED BY <1>2, <2>1, <2>3
<1>7. WireInv(reached)'
  <2>1. \A i \in 1..n : incoming'[i].of # NoMessage => reached < incoming'[i].of /\ incoming'[i].of <= browser.said
    BY <1>1, <1>2 DEF WireInv
  <2>2. \A i, j \in 1..n : i < j /\ incoming'[i].of # NoMessage /\ incoming'[j].of # NoMessage
           => incoming'[i].of < incoming'[j].of
    BY <1>1, <1>2 DEF WireInv
  <2>3. ASSUME ~TooLong', NEW i \in 1..n, NEW m \in (reached + 1)..incoming'[i].of
        PROVE  \E j \in 1..n : incoming'[j].of = m
    <3>1. i + 1 \in 1..Len(incoming) /\ incoming'[i] = incoming[i + 1] /\ ~TooLong BY <1>2, <2>3
    <3>2. m \in (reached + 1)..incoming[i + 1].of /\ m \in Nat /\ m > 0 BY <1>3, <1>5, <2>3, <3>1
    <3>3. \E j \in 1..Len(incoming) : incoming[j].of = m BY <1>1, <3>1, <3>2 DEF WireInv
    <3>4. QED BY <1>6, <2>3, <3>2, <3>3
  <2>4. ASSUME ~TooLong', browser.left # "reset", NEW m \in (reached + 1)..browser.said
        PROVE  \E j \in 1..n : incoming'[j].of = m
    <3>1. m \in Nat /\ m > 0 /\ ~TooLong BY <1>3, <2>4
    <3>2. \E j \in 1..Len(incoming) : incoming[j].of = m BY <1>1, <2>4, <3>1 DEF WireInv
    <3>3. QED BY <1>6, <2>4, <3>1, <3>2
  <2>5. reached' = reached /\ reached <= browser.said /\ Len(incoming') = n
    BY <1>1 DEF reached, n, WireInv
  <2>6. QED BY <2>1, <2>2, <2>3, <2>4, <2>5 DEF WireInv
<1>8. QED BY <1>4, <1>7 DEF reached

\* The message it takes is the one after the last it assembled.
LEMMA WireGoesOn ==
  ASSUME SocketInv, incoming # <<>>, incoming' = Tail(incoming), UNCHANGED browser,
         incoming[1].of # NoMessage, ~TooLong, ~TooLong',
         Assembled + 1 = incoming[1].of => Assembled' = Assembled + 1
  PROVE  incoming[1].of = Assembled + 1 /\ IncomingShape' /\ WireInv(Assembled)'
<1> USE SocketNumbers DEF NoMessage
<1> DEFINE reached == Assembled  n == Len(incoming')
<1>1. SocketShape /\ HandInv /\ WireInv(reached) BY DEF SocketInv
<1>2. /\ incoming \in Seq(Frames) /\ incoming' \in Seq(Frames) /\ n \in Nat /\ Len(incoming) = n + 1
      /\ \A i \in 1..n : incoming'[i] = incoming[i + 1] /\ i + 1 \in 1..Len(incoming)
  BY <1>1 DEF SocketShape, IncomingShape
<1>3. reached \in Nat /\ browser.said \in Nat BY <1>1, AssembledIsNat DEF SocketShape, BrowserShape
<1>4. IncomingShape' BY <1>1, <1>2 DEF SocketShape, IncomingShape
<1>5. (\A i \in 1..Len(incoming) : incoming[i].of \in Nat) /\ 1 \in 1..Len(incoming)
  BY <1>2, FramesCarryNumbers
<1> HIDE DEF reached, n
<1>6. incoming[1].of = reached + 1
  <2>1. reached < incoming[1].of BY <1>1, <1>5 DEF WireInv
  <2>2. reached + 1 \in (reached + 1)..incoming[1].of BY <1>3, <1>5, <2>1
  <2>3. PICK j \in 1..Len(incoming) : incoming[j].of = reached + 1 BY <1>1, <1>5, <2>2 DEF WireInv
  <2>4. CASE j = 1 BY <2>3, <2>4
  <2>5. CASE j # 1
    <3>1. 1 < j /\ incoming[j].of # 0 BY <1>2, <1>3, <2>3, <2>5
    <3>2. incoming[1].of < incoming[j].of BY <1>1, <1>5, <3>1 DEF WireInv
    <3>3. QED BY <1>3, <1>5, <2>1, <2>3, <3>2
  <2>6. QED BY <2>4, <2>5
<1>7. reached' = reached + 1 BY <1>6 DEF reached
<1>8. ASSUME NEW m \in Nat, m > reached + 1, \E j \in 1..Len(incoming) : incoming[j].of = m
      PROVE  \E j \in 1..n : incoming'[j].of = m
  <2>1. PICK j \in 1..Len(incoming) : incoming[j].of = m BY <1>8
  <2>2. j # 1 BY <1>3, <1>6, <1>8, <2>1
  <2>3. j - 1 \in 1..n /\ (j - 1) + 1 = j BY <1>2, <2>2
  <2>4. QED BY <1>2, <2>1, <2>3
<1>9. WireInv(reached)'
  <2>1. \A i \in 1..n : incoming'[i].of # NoMessage => reached + 1 < incoming'[i].of /\ incoming'[i].of <= browser.said
    <3> SUFFICES ASSUME NEW i \in 1..n, incoming'[i].of # NoMessage
                 PROVE  reached + 1 < incoming'[i].of /\ incoming'[i].of <= browser.said
      OBVIOUS
    <3>1. i + 1 \in 1..Len(incoming) /\ incoming'[i] = incoming[i + 1] /\ 1 < i + 1 BY <1>2
    <3>2. incoming[1].of < incoming[i + 1].of /\ incoming[i + 1].of <= browser.said
      BY <1>1, <1>5, <3>1 DEF WireInv
    <3>3. QED BY <1>6, <3>1, <3>2
  <2>2. \A i, j \in 1..n : i < j /\ incoming'[i].of # NoMessage /\ incoming'[j].of # NoMessage
           => incoming'[i].of < incoming'[j].of
    BY <1>1, <1>2 DEF WireInv
  <2>3. ASSUME NEW i \in 1..n, NEW m \in (reached + 2)..incoming'[i].of
        PROVE  \E j \in 1..n : incoming'[j].of = m
    <3>1. i + 1 \in 1..Len(incoming) /\ incoming'[i] = incoming[i + 1] BY <1>2
    <3>2. m \in (reached + 1)..incoming[i + 1].of /\ m \in Nat /\ m > reached + 1
      BY <1>3, <1>5, <2>3, <3>1
    <3>3. \E j \in 1..Len(incoming) : incoming[j].of = m BY <1>1, <3>1, <3>2 DEF WireInv
    <3>4. QED BY <1>8, <3>2, <3>3
  <2>4. ASSUME browser.left # "reset", NEW m \in (reached + 2)..browser.said
        PROVE  \E j \in 1..n : incoming'[j].of = m
    <3>1. m \in Nat /\ m > reached + 1 /\ m \in (reached + 1)..browser.said BY <1>3, <2>4
    <3>2. \E j \in 1..Len(incoming) : incoming[j].of = m BY <1>1, <2>4, <3>1 DEF WireInv
    <3>3. QED BY <1>8, <3>1, <3>2
  <2>5. reached + 1 <= browser.said /\ Len(incoming') = n /\ (reached + 1) + 1 = reached + 2
    <3>1. incoming[1].of <= browser.said BY <1>1, <1>5 DEF WireInv
    <3>2. QED BY <1>3, <1>6, <3>1 DEF n
  <2>6. QED BY <1>7, <2>1, <2>2, <2>3, <2>4, <2>5 DEF WireInv
<1>10. QED BY <1>4, <1>6, <1>9 DEF reached

LEMMA ReaderParseKeeps == ASSUME SocketInv, ReaderParses PROVE SocketInv'
<1> USE SocketNumbers, HeldFits DEF NoMessage, EndOfSocket
<1> DEFINE f == incoming[1]
<1>1. SocketShape /\ HandInv /\ TornInv /\ TakenInv /\ WireInv(Assembled) BY DEF SocketInv
<1>2. /\ wsReader.at = "reading" /\ incoming # <<>> /\ incoming' = Tail(incoming)
      /\ UNCHANGED <<browser, outgoing, torn, writeLock, inbox, wsOwner, wsOver>>
  BY DEF ReaderParses
<1>3. f \in Frames /\ f = Head(incoming) /\ (f.of # NoMessage <=> f.op = "last")
  BY <1>1, <1>2 DEF SocketShape, IncomingShape
<1>4. wsReader.hands = NoMessage /\ ~TooLong /\ writeLock # "reader"
  BY <1>1, <1>2 DEF HandInv, TooLong
<1>5. wsReader' = CASE f.op = "ping" -> [wsReader EXCEPT !.at = "pong"]
                    [] f.op \in {"close", "unusable"} -> ReaderAtEnd
                    [] OTHER -> IF wsReader.parts = MAX_WS_PARTS THEN ReaderAtEnd
                                ELSE IF f.op = "part" THEN [wsReader EXCEPT !.parts = @ + 1]
                                ELSE [at |-> "handing", hands |-> f.of, parts |-> 0]
  BY <1>3 DEF ReaderParses
<1> HIDE DEF f
<1>6. \/ /\ f.of = NoMessage /\ wsReader' = [wsReader EXCEPT !.at = "pong"]
      \/ /\ f.of = NoMessage \/ wsReader.parts = MAX_WS_PARTS
         /\ wsReader' = [wsReader EXCEPT !.at = "handing", !.hands = EndOfSocket]
      \/ /\ f.of = NoMessage /\ wsReader.parts # MAX_WS_PARTS
         /\ wsReader' = [wsReader EXCEPT !.parts = @ + 1]
      \/ /\ f.of # NoMessage
         /\ wsReader' = [at |-> "handing", hands |-> f.of, parts |-> 0]
  BY <1>3, <1>5 DEF ReaderAtEnd, Frames
<1>7. Kept' = Kept /\ Kept \in Nat /\ Assembled = wsOwner.took + Kept /\ Assembled \in Nat
  <2>1. Kept' = Kept BY <1>2 DEF Kept
  <2>2. wsOwner.took \in Nat BY <1>1 DEF SocketShape, OwnerShape
  <2>3. QED BY <1>1, <1>4, <2>1, <2>2, AssembledIsNat DEF Assembled
<1>8. /\ ReaderShape'
      /\ wsReader'.at \in {"reading", "pong"} => wsReader'.hands = NoMessage
      /\ wsReader'.at = "handing" => wsReader'.hands # NoMessage
      /\ wsReader'.hands > NoMessage => wsReader'.parts = 0
  <2>1. wsReader.parts # MAX_WS_PARTS => wsReader.parts + 1 \in 0..MAX_WS_PARTS
    BY <1>1 DEF SocketShape, ReaderShape
  <2>2. f.of \in 0..MaxMessages BY <1>3 DEF Frames
  <2>3. ReaderShape BY <1>1 DEF SocketShape
  <2>4. CASE wsReader' = [wsReader EXCEPT !.at = "pong"] BY <1>4, <2>3, <2>4 DEF ReaderShape
  <2>5. CASE wsReader' = [wsReader EXCEPT !.at = "handing", !.hands = EndOfSocket]
    <3>1. EndOfSocket \in Held BY HeldFits
    <3>2. wsReader' = [wsReader EXCEPT !.at = "handing", !.hands = EndOfSocket] BY <2>5
    <3>3. wsReader'.hands = EndOfSocket /\ wsReader'.at = "handing" /\ ReaderShape'
      BY <2>3, <3>1, <3>2 DEF ReaderShape
    <3>4. QED BY <3>3
  <2>6. CASE wsReader.parts # MAX_WS_PARTS /\ wsReader' = [wsReader EXCEPT !.parts = @ + 1]
    BY <1>2, <1>4, <2>1, <2>3, <2>6 DEF ReaderShape
  <2>7. CASE f.of # NoMessage /\ wsReader' = [at |-> "handing", hands |-> f.of, parts |-> 0]
    BY <2>2, <2>7 DEF ReaderShape
  <2>8. QED BY <1>6, <2>4, <2>5, <2>6, <2>7
<1>9. HandInv' BY <1>1, <1>2, <1>4, <1>8 DEF HandInv, TheEndIsLast
<1>10. TornInv' BY <1>1, <1>2 DEF TornInv, TornIsTheLast
<1>11. IncomingShape' /\ TakenInv' /\ WireInv(Assembled)'
  <2>1. CASE f.of # NoMessage /\ wsReader' = [at |-> "handing", hands |-> f.of, parts |-> 0]
    <3>1. wsReader'.hands = f.of /\ f.of > NoMessage /\ ~TooLong' BY <1>3, <2>1 DEF TooLong, Frames
    <3>2. Assembled' = Assembled + 1 BY <1>2, <1>7, <3>1 DEF Assembled
    <3>3. f.of = Assembled + 1 /\ IncomingShape' /\ WireInv(Assembled)'
      BY <1>2, <1>4, <2>1, <3>1, <3>2, WireGoesOn DEF f
    <3>4. TakenInv' BY <1>1, <1>2, <1>7, <3>1, <3>2, <3>3 DEF TakenInv
    <3>5. QED BY <3>3, <3>4
  <2>2. CASE ~(f.of # NoMessage /\ wsReader' = [at |-> "handing", hands |-> f.of, parts |-> 0])
    <3>0. ReaderShape BY <1>1 DEF SocketShape
    <3>1. ~(wsReader'.hands > NoMessage) /\ (f.of = NoMessage \/ TooLong')
      <4>1. CASE f.of = NoMessage /\ wsReader' = [wsReader EXCEPT !.at = "pong"]
        BY <1>4, <3>0, <4>1 DEF ReaderShape
      <4>2. CASE /\ f.of = NoMessage \/ wsReader.parts = MAX_WS_PARTS
                 /\ wsReader' = [wsReader EXCEPT !.at = "handing", !.hands = EndOfSocket]
        <5>1. wsReader'.at = "handing" /\ wsReader'.hands = -1 /\ wsReader'.parts = wsReader.parts
          BY <3>0, <4>2 DEF ReaderShape
        <5>2. QED BY <4>2, <5>1 DEF TooLong
      <4>3. CASE f.of = NoMessage /\ wsReader' = [wsReader EXCEPT !.parts = @ + 1]
        BY <1>4, <3>0, <4>3 DEF ReaderShape
      <4>4. QED BY <1>6, <2>2, <4>1, <4>2, <4>3
    <3>2. Assembled' = Assembled BY <1>2, <1>7, <3>1 DEF Assembled
    <3>3. IncomingShape' /\ WireInv(Assembled)' BY <1>2, <1>4, <3>1, <3>2, WirePasses DEF f
    <3>4. TakenInv' BY <1>1, <1>2, <1>7, <3>1, <3>2 DEF TakenInv
    <3>5. QED BY <3>3, <3>4
  <2>3. QED BY <2>1, <2>2
<1>12. SocketShape'
  BY <1>1, <1>2, <1>8, <1>11 DEF SocketShape, BrowserShape, OutgoingShape, InboxShape, OwnerShape, RestShape
<1>13. QED BY <1>9, <1>10, <1>11, <1>12 DEF SocketInv

\* A write is whole or torn, and whoever tore a frame has not written since.
LEMMA WriteShapes ==
  ASSUME NEW who \in {"reader", "owner"}, NEW frame \in {"text", "pong", "close"}, NEW whole \in BOOLEAN,
         SocketShape, Written(who, frame, whole), ~torn.again, torn.by # who
  PROVE  /\ OutgoingShape' /\ torn' \in [by : {"nobody", "reader", "owner"}, again : BOOLEAN] /\ ~torn'.again
         /\ writeLock = who /\ writeLock' = "free"
         /\ whole => torn'.by = torn.by
         /\ torn'.by \in {torn.by, who}
<1> USE SocketNumbers
<1>1. RestShape /\ OutgoingShape BY DEF SocketShape
<1>2. CASE whole
  <2>1. torn' = [torn EXCEPT !.again = @ \/ torn.by = who] /\ outgoing' = Append(outgoing, frame) /\ Len(outgoing) < WireRoom
    BY <1>2 DEF Written
  <2>2. torn' = torn BY <1>1, <2>1 DEF RestShape
  <2>3. OutgoingShape' BY <1>1, <2>1 DEF OutgoingShape
  <2>4. QED BY <1>1, <2>2, <2>3 DEF Written, RestShape
<1>3. CASE ~whole
  <2>1. UNCHANGED outgoing /\ \E by \in {torn.by, who} : by \in {"nobody", "reader", "owner"} /\ torn' = [torn EXCEPT !.by = by]
    BY <1>1, <1>3 DEF Written, RestShape
  <2>2. QED BY <1>1, <1>3, <2>1 DEF Written, RestShape, OutgoingShape
<1>4. QED BY <1>2, <1>3

LEMMA ReaderOtherKeeps ==
  ASSUME SocketInv, ReaderSeesTheEnd \/ ReaderLocks \/ ReaderPongs PROVE SocketInv'
<1> USE SocketNumbers, HeldFits DEF NoMessage, EndOfSocket
<1>1. SocketShape /\ HandInv /\ TornInv /\ TakenInv /\ WireInv(Assembled) BY DEF SocketInv
<1>2. UNCHANGED <<browser, incoming, inbox, wsOwner, wsOver>>
  BY DEF ReaderSeesTheEnd, ReaderLocks, ReaderPongs
<1>3. wsReader.at \in {"reading", "pong"} /\ wsReader.hands = NoMessage /\ ~TooLong
  <2>1. wsReader.at \in {"reading", "pong"}
    BY <1>1 DEF ReaderSeesTheEnd, ReaderLocks, ReaderPongs, Written, HandInv
  <2>2. QED BY <1>1, <2>1 DEF HandInv, TooLong
<1>4. /\ ReaderShape'
      /\ \/ wsReader' = [wsReader EXCEPT !.at = "handing", !.hands = EndOfSocket]
         \/ wsReader' = [wsReader EXCEPT !.at = "reading"]
         \/ wsReader' = wsReader /\ wsReader.at = "pong"
  BY <1>1 DEF ReaderSeesTheEnd, ReaderLocks, ReaderPongs, ReaderAtEnd, SocketShape, ReaderShape
<1>5. /\ wsReader'.at \in {"reading", "pong"} => wsReader'.hands = NoMessage
      /\ wsReader'.at = "handing" => wsReader'.hands # NoMessage
      /\ ~(wsReader'.hands > NoMessage)
      /\ wsReader'.at # "gone"
  <2>0. ReaderShape BY <1>1 DEF SocketShape
  <2>1. CASE wsReader' = [wsReader EXCEPT !.at = "handing", !.hands = EndOfSocket]
    BY <2>0, <2>1 DEF ReaderShape
  <2>2. CASE wsReader' = [wsReader EXCEPT !.at = "reading"] BY <1>3, <2>0, <2>2 DEF ReaderShape
  <2>3. CASE wsReader' = wsReader /\ wsReader.at = "pong" BY <1>3, <2>3
  <2>4. QED BY <1>4, <2>1, <2>2, <2>3
<1>6. /\ OutgoingShape' /\ RestShape' /\ TornInv' /\ (writeLock' = "reader" => wsReader'.at = "pong")
  <2>1. CASE ReaderSeesTheEnd \/ ReaderLocks
    <3>1. UNCHANGED <<outgoing, torn>> /\ (UNCHANGED writeLock \/ writeLock' = "reader")
      BY <2>1 DEF ReaderSeesTheEnd, ReaderLocks
    <3>2. OutgoingShape' /\ RestShape' BY <1>1, <1>2, <3>1 DEF SocketShape, OutgoingShape, RestShape
    <3>3. writeLock' = "reader" => wsReader'.at = "pong"
      BY <1>1, <2>1 DEF ReaderSeesTheEnd, ReaderLocks, HandInv
    <3>4. torn.by # "reader" BY <1>1, <1>3 DEF TornInv
    <3>5. TornInv' BY <1>1, <1>2, <3>1, <3>4 DEF TornInv, TornIsTheLast
    <3>6. QED BY <3>2, <3>3, <3>5
  <2>2. CASE ReaderPongs
    <3>1. PICK whole \in BOOLEAN :
             /\ Written("reader", "pong", whole)
             /\ wsReader' = IF whole THEN [wsReader EXCEPT !.at = "reading"] ELSE ReaderAtEnd
      BY <2>2 DEF ReaderPongs
    <3>2. torn.by # "reader" /\ ~torn.again BY <1>1, <1>3 DEF TornInv, TornIsTheLast
    <3>3. /\ OutgoingShape' /\ torn' \in [by : {"nobody", "reader", "owner"}, again : BOOLEAN] /\ ~torn'.again
          /\ writeLock' = "free" /\ (whole => torn'.by = torn.by) /\ torn'.by \in {torn.by, "reader"}
      BY <1>1, <3>1, <3>2, WriteShapes
    <3>4. ~whole => wsReader'.at = "handing" /\ wsReader'.hands = EndOfSocket
      BY <1>1, <3>1 DEF ReaderAtEnd, SocketShape, ReaderShape
    <3>5. TornInv' BY <1>1, <1>2, <3>2, <3>3, <3>4 DEF TornInv, TornIsTheLast
    <3>6. QED BY <1>1, <1>2, <3>3, <3>5 DEF SocketShape, RestShape
  <2>3. QED BY <2>1, <2>2
<1>7. SocketShape'
  BY <1>1, <1>2, <1>4, <1>6 DEF SocketShape, BrowserShape, IncomingShape, InboxShape, OwnerShape
<1>8. HandInv' BY <1>1, <1>2, <1>3, <1>5, <1>6 DEF HandInv, TheEndIsLast
<1>9. Assembled' = Assembled /\ TakenInv' BY <1>1, <1>2, <1>3, <1>5 DEF TakenInv, Kept, Assembled
<1>10. WireInv(Assembled)' BY <1>1, <1>2, <1>3, <1>9, WireStands
<1>11. QED BY <1>6, <1>7, <1>8, <1>9, <1>10 DEF SocketInv

LEMMA ReaderHandKeeps == ASSUME SocketInv, ReaderHands PROVE SocketInv'
<1> USE SocketNumbers, HeldFits DEF NoMessage, EndOfSocket
<1>1. SocketShape /\ HandInv /\ TornInv /\ TakenInv /\ WireInv(Assembled) BY DEF SocketInv
<1>2. UNCHANGED <<browser, incoming, outgoing, torn, writeLock, wsOwner, wsOver>> /\ wsReader.at = "handing"
  BY DEF ReaderHands
<1>3. CASE wsOwner.at = "gone" /\ wsReader' = [wsReader EXCEPT !.at = "gone"] /\ UNCHANGED inbox
  <2>1. ReaderShape' /\ wsReader'.at = "gone" /\ wsReader'.hands = wsReader.hands /\ wsReader'.parts = wsReader.parts
    BY <1>1, <1>3 DEF SocketShape, ReaderShape
  <2>2. SocketShape'
    BY <1>1, <1>2, <1>3, <2>1 DEF SocketShape, BrowserShape, IncomingShape, OutgoingShape, InboxShape, OwnerShape, RestShape
  <2>3. HandInv' /\ TornInv'
    BY <1>1, <1>2, <1>3, <2>1 DEF HandInv, TheEndIsLast, TornInv, TornIsTheLast
  <2>4. Assembled' = Assembled /\ TakenInv' BY <1>1, <1>2, <1>3, <2>1 DEF TakenInv, Kept, Assembled
  <2>5. TooLong => TooLong' BY <2>1 DEF TooLong
  <2>6. WireInv(Assembled)' BY <1>1, <1>2, <2>4, <2>5, WireStands
  <2>7. QED BY <2>2, <2>3, <2>4, <2>6 DEF SocketInv
<1>4. CASE /\ wsOwner.at # "gone" /\ Len(inbox) < INBOX /\ inbox' = Append(inbox, wsReader.hands)
           /\ wsReader' = [wsReader EXCEPT !.at = IF wsReader.hands = EndOfSocket THEN "gone" ELSE "reading",
                                            !.hands = NoMessage]
  <2> DEFINE n == Len(inbox)
  <2>1. /\ wsReader.hands \in 1..MaxMessages \cup {EndOfSocket} /\ n \in Nat
        /\ inbox \in Seq(1..MaxMessages \cup {EndOfSocket})
    BY <1>1, <1>2 DEF HandInv, SocketShape, ReaderShape, InboxShape
  <2>2. /\ inbox' \in Seq(1..MaxMessages \cup {EndOfSocket}) /\ Len(inbox') = n + 1 /\ n + 1 <= INBOX
        /\ \A i \in 1..n : inbox'[i] = inbox[i]
    BY <1>1, <1>4, <2>1 DEF SocketShape, InboxShape
  <2>3. inbox'[n + 1] = wsReader.hands BY <1>4, <2>1
  <2>4. /\ ReaderShape' /\ wsReader'.hands = NoMessage /\ wsReader'.parts = wsReader.parts
        /\ wsReader'.at = IF wsReader.hands = EndOfSocket THEN "gone" ELSE "reading"
    <3> DEFINE at == IF wsReader.hands = EndOfSocket THEN "gone" ELSE "reading"
    <3>1. at \in {"reading", "gone"} /\ ReaderShape BY <1>1 DEF SocketShape
    <3>2. wsReader' = [wsReader EXCEPT !.at = at, !.hands = NoMessage] BY <1>4
    <3> HIDE DEF at
    <3> DEFINE at1 == [wsReader EXCEPT !.at = at]
    <3>5. at1 \in [at : {"reading", "pong", "handing", "gone"}, parts : 0..MAX_WS_PARTS, hands : Held]
          /\ at1.at = at /\ at1.parts = wsReader.parts /\ wsReader' = [at1 EXCEPT !.hands = NoMessage]
      BY <3>1, <3>2 DEF ReaderShape
    <3> HIDE DEF at1
    <3>3. ReaderShape' /\ wsReader'.hands = NoMessage /\ wsReader'.parts = wsReader.parts /\ wsReader'.at = at
      BY <3>5, HeldFits DEF ReaderShape
    <3>4. QED BY <3>3 DEF at
  <2>5. \A i \in 1..n : inbox[i] # EndOfSocket BY <1>1, <1>2, <2>1 DEF HandInv, TheEndIsLast
  <2> HIDE DEF n
  <2>6. SocketShape'
    BY <1>1, <1>2, <2>2, <2>4 DEF SocketShape, BrowserShape, IncomingShape, OutgoingShape, InboxShape, OwnerShape, RestShape
  <2>7. HandInv'
    <3>1. TheEndIsLast'
      <4>1. DOMAIN inbox' = 1..n + 1 BY <2>2
      <4>2. \A i \in 1..n + 1 : i \in 1..n \/ i = n + 1 BY <2>1
      <4>3. QED BY <2>2, <2>3, <2>4, <2>5, <4>1, <4>2 DEF TheEndIsLast
    <3>2. QED BY <1>1, <1>2, <2>4, <3>1 DEF HandInv
  <2>8. TornInv'
    <3>1. torn.by = "reader" => wsReader'.at = "gone" BY <1>1, <1>2, <2>4 DEF TornInv
    <3>2. QED BY <1>1, <1>2, <3>1 DEF TornInv, TornIsTheLast
  <2>9. Kept = n BY <2>1, <2>5 DEF Kept, n
  <2>10. Kept' = IF wsReader.hands = EndOfSocket THEN n ELSE n + 1 BY <2>1, <2>2, <2>3 DEF Kept
  <2>11. wsOwner.took \in Nat /\ wsOwner' = wsOwner BY <1>1, <1>2 DEF SocketShape, OwnerShape
  <2>12. Assembled' = Assembled BY <2>1, <2>4, <2>9, <2>10, <2>11 DEF Assembled
  <2>13. TakenInv'
    <3>1. wsReader.hands # EndOfSocket => wsReader.hands = wsOwner.took + (n + 1)
      <4>1. wsReader.hands # EndOfSocket => wsReader.hands > NoMessage BY <2>1
      <4>2. wsReader.hands > NoMessage => wsReader.hands = wsOwner.took + n + 1
        BY <1>1, <2>9 DEF TakenInv, Assembled
      <4>3. QED
        <5>1. wsOwner.took + n + 1 = wsOwner.took + (n + 1)
          <6>1. wsOwner.took \in Nat /\ n \in Nat BY <2>1, <2>11
          <6>2. QED BY <6>1
        <5>2. QED BY <4>1, <4>2, <5>1
    <3>2. ASSUME NEW i \in 1..Kept' PROVE inbox'[i] = wsOwner'.took + i
      <4>1. i \in 1..n \/ (i = n + 1 /\ wsReader.hands # EndOfSocket) BY <2>1, <2>10
      <4>2. QED BY <1>1, <2>2, <2>3, <2>9, <2>11, <3>1, <4>1 DEF TakenInv
    <3>3. QED BY <2>4, <3>2 DEF TakenInv
  <2>14. TooLong => TooLong' BY <1>1, <1>2, <2>1, <2>4 DEF TooLong, HandInv
  <2>15. WireInv(Assembled)' BY <1>1, <1>2, <2>12, <2>14, WireStands
  <2>16. QED BY <2>6, <2>7, <2>8, <2>13, <2>15 DEF SocketInv
<1>5. QED BY <1>3, <1>4 DEF ReaderHands

-----------------------------------------------------------------------------
\* The owner's moves.
LEMMA OwnerWriteKeeps ==
  ASSUME SocketInv, OwnerSends \/ OwnerLocks \/ OwnerWrites \/ OwnerLetsGo \/ OwnerCloses PROVE SocketInv'
<1> USE SocketNumbers, HeldFits DEF NoMessage, EndOfSocket
<1>1. SocketShape /\ HandInv /\ TornInv /\ TakenInv /\ WireInv(Assembled) BY DEF SocketInv
<1>2. UNCHANGED <<browser, incoming, wsReader, inbox>>
  BY DEF OwnerSends, OwnerLocks, OwnerWrites, OwnerLetsGo, OwnerCloses, OwnerLeavesAlone
<1>3. OwnerShape' /\ wsOwner'.took = wsOwner.took
  <2>1. OwnerShape BY <1>1 DEF SocketShape
  <2>2. CASE OwnerSends
    <3> DEFINE sent == wsOwner.sent + 1
    <3>1. sent \in 0..MaxSends /\ wsOwner' = [wsOwner EXCEPT !.at = "send", !.sent = sent]
      BY <2>1, <2>2 DEF OwnerSends, OwnerShape
    <3> HIDE DEF sent
    <3>2. QED BY <2>1, <3>1 DEF OwnerShape
  <2>3. CASE OwnerLocks \/ OwnerWrites \/ OwnerLetsGo \/ OwnerCloses
    BY <2>1, <2>3 DEF OwnerLocks, OwnerWrites, OwnerLetsGo, OwnerCloses, OwnerShape
  <2>4. QED BY <2>2, <2>3
<1>4. OutgoingShape' /\ RestShape' /\ TornInv' /\ (writeLock' = "reader" => writeLock = "reader")
  <2>0. OwnerShape /\ RestShape /\ OutgoingShape BY <1>1 DEF SocketShape
  <2>1. CASE OwnerSends \/ OwnerLocks \/ OwnerLetsGo
    <3>1. /\ UNCHANGED <<outgoing, torn, wsOver>> /\ (UNCHANGED writeLock \/ writeLock' = "owner")
          /\ wsOwner.at # "gone" /\ (wsOwner'.at = "send" => ~wsOver)
      BY <1>1, <2>0, <2>1 DEF OwnerSends, OwnerLocks, OwnerLetsGo, OwnerShape, TornInv
    <3>2. QED BY <1>1, <1>2, <2>0, <3>1 DEF OutgoingShape, RestShape, TornInv, TornIsTheLast
  <2>2. CASE OwnerWrites
    <3>1. PICK whole \in BOOLEAN : Written("owner", "text", whole) /\ wsOver' = ~whole
      BY <2>2 DEF OwnerWrites
    <3>2. wsOwner.at = "send" /\ ~wsOver /\ wsOwner'.at = "turn" /\ torn.by # "owner" /\ ~torn.again
      BY <1>1, <2>0, <2>2 DEF OwnerWrites, OwnerShape, TornInv, TornIsTheLast
    <3>3. /\ OutgoingShape' /\ torn' \in [by : {"nobody", "reader", "owner"}, again : BOOLEAN] /\ ~torn'.again
          /\ writeLock' = "free" /\ (whole => torn'.by = torn.by) /\ torn'.by \in {torn.by, "owner"}
      BY <1>1, <3>1, <3>2, WriteShapes
    <3>4. RestShape' BY <3>1, <3>3 DEF RestShape
    <3>5. TornInv' BY <1>1, <1>2, <3>1, <3>2, <3>3 DEF TornInv, TornIsTheLast
    <3>6. QED BY <3>3, <3>4, <3>5
  <2>3. CASE OwnerCloses
    <3>1. wsOwner.at = "drop" /\ wsOwner'.at = "gone" /\ UNCHANGED wsOver
      BY <1>1, <2>0, <2>3 DEF OwnerCloses, OwnerShape
    <3>2. CASE wsOver
      BY <1>1, <1>2, <2>0, <2>3, <3>1, <3>2 DEF OwnerCloses, OutgoingShape, RestShape, TornInv, TornIsTheLast
    <3>3. CASE ~wsOver
      <4>1. PICK whole \in BOOLEAN : Written("owner", "close", whole) BY <2>3, <3>3 DEF OwnerCloses
      <4>2. torn.by # "owner" /\ ~torn.again BY <1>1, <3>1, <3>3 DEF TornInv, TornIsTheLast
      <4>3. /\ OutgoingShape' /\ torn' \in [by : {"nobody", "reader", "owner"}, again : BOOLEAN] /\ ~torn'.again
            /\ writeLock' = "free" /\ torn'.by \in {torn.by, "owner"}
        BY <1>1, <4>1, <4>2, WriteShapes
      <4>4. RestShape' BY <2>0, <3>1, <4>3 DEF RestShape
      <4>5. TornInv' BY <1>1, <1>2, <3>1, <4>2, <4>3 DEF TornInv, TornIsTheLast
      <4>6. QED BY <4>3, <4>4, <4>5
    <3>4. QED BY <3>2, <3>3
  <2>4. QED BY <2>1, <2>2, <2>3
<1>5. SocketShape'
  BY <1>1, <1>2, <1>3, <1>4 DEF SocketShape, BrowserShape, IncomingShape, InboxShape, ReaderShape
<1>6. HandInv' BY <1>1, <1>2, <1>4 DEF HandInv, TheEndIsLast
<1>7. Assembled' = Assembled /\ TakenInv' BY <1>1, <1>2, <1>3 DEF TakenInv, Kept, Assembled
<1>8. WireInv(Assembled)' BY <1>1, <1>2, <1>7, WireStands DEF TooLong
<1>9. QED BY <1>4, <1>5, <1>6, <1>7, <1>8 DEF SocketInv

LEMMA OwnerPollKeeps == ASSUME SocketInv, OwnerPolls PROVE SocketInv'
<1> USE SocketNumbers, HeldFits DEF NoMessage, EndOfSocket
<1>1. SocketShape /\ HandInv /\ TornInv /\ TakenInv /\ WireInv(Assembled) BY DEF SocketInv
<1>2. /\ UNCHANGED <<browser, incoming, wsReader, outgoing, torn, writeLock>>
      /\ wsOwner.at = "turn" /\ ~wsOver /\ inbox # <<>> /\ inbox' = Tail(inbox)
  BY DEF OwnerPolls, OwnerLeavesAlone
<1> DEFINE n == Len(inbox')
<1>3. /\ inbox \in Seq(1..MaxMessages \cup {EndOfSocket}) /\ inbox' \in Seq(1..MaxMessages \cup {EndOfSocket})
      /\ n \in Nat /\ Len(inbox) = n + 1 /\ n + 1 <= INBOX
      /\ \A i \in 1..n : inbox'[i] = inbox[i + 1] /\ i + 1 \in 1..Len(inbox)
  BY <1>1, <1>2 DEF SocketShape, InboxShape
<1>4. Head(inbox) = inbox[1] /\ inbox[1] \in 1..MaxMessages \cup {EndOfSocket} BY <1>2, <1>3
<1> HIDE DEF n
<1>5. OwnerShape' /\ wsOwner'.at = "turn" /\ wsOver' \in BOOLEAN
      /\ (inbox[1] = EndOfSocket => UNCHANGED wsOwner)
      /\ (inbox[1] # EndOfSocket => wsOwner'.took = inbox[1] /\ UNCHANGED wsOver)
  <2>0. OwnerShape /\ RestShape BY <1>1 DEF SocketShape
  <2>1. CASE inbox[1] = EndOfSocket BY <1>2, <1>4, <2>0, <2>1 DEF OwnerPolls, OwnerShape
  <2>2. CASE inbox[1] # EndOfSocket
    <3>1. wsOwner' = [wsOwner EXCEPT !.took = inbox[1]] /\ UNCHANGED wsOver /\ inbox[1] \in 0..MaxMessages
      BY <1>4, <2>2 DEF OwnerPolls
    <3>2. QED BY <1>2, <2>0, <2>2, <3>1 DEF OwnerShape, RestShape
  <2>3. QED BY <2>1, <2>2
<1>6. SocketShape'
  BY <1>1, <1>2, <1>3, <1>5
  DEF SocketShape, BrowserShape, IncomingShape, OutgoingShape, InboxShape, ReaderShape, RestShape, n
<1>7. HandInv'
  <2>1. TheEndIsLast'
    <3>1. DOMAIN inbox' = 1..n /\ DOMAIN inbox = 1..n + 1 /\ Len(inbox') = n BY <1>3 DEF n
    <3>2. ASSUME NEW i \in 1..n, inbox'[i] = EndOfSocket PROVE i = n /\ wsReader.at = "gone"
      <4>1. inbox[i + 1] = EndOfSocket /\ i + 1 \in 1..n + 1 BY <1>3, <3>2
      <4>2. i + 1 = n + 1 /\ wsReader.at = "gone"
        BY <1>1, <1>3, <3>1, <4>1 DEF HandInv, TheEndIsLast
      <4>3. QED BY <1>3, <4>2
    <3>3. QED BY <1>2, <3>1, <3>2 DEF TheEndIsLast
  <2>2. QED BY <1>1, <1>2, <2>1 DEF HandInv
<1>8. TornInv' BY <1>1, <1>2, <1>5 DEF TornInv, TornIsTheLast
<1>9. wsOwner.took \in Nat /\ wsOwner'.took \in Nat BY <1>1, <1>5 DEF SocketShape, OwnerShape
<1>10. \* Either the end was all there was, or the message after the last taken is taken.
       \/ Kept = 0 /\ Kept' = 0 /\ n = 0 /\ wsOwner'.took = wsOwner.took
       \/ /\ Kept' \in Nat /\ Kept = Kept' + 1 /\ Kept' <= n /\ wsOwner'.took = wsOwner.took + 1
  <2>1. CASE inbox[1] = EndOfSocket
    <3>1. 1 = Len(inbox) BY <1>1, <1>3, <2>1 DEF HandInv, TheEndIsLast
    <3>2. n = 0 /\ inbox' = <<>> BY <1>3, <3>1 DEF n
    <3>3. Kept = 0
      <4>1. Kept = Len(inbox) - 1 BY <1>2, <2>1, <3>1 DEF Kept
      <4>2. QED BY <3>1, <4>1
    <3>4. Kept' = 0 BY <3>2 DEF Kept
    <3>5. QED BY <1>5, <2>1, <3>2, <3>3, <3>4
  <2>2. CASE inbox[1] # EndOfSocket
    <3>1. CASE n = 0
      <4>1. inbox' = <<>> /\ Len(inbox) = 1 BY <1>3, <3>1 DEF n
      <4>2. Kept = 1 /\ Kept' = 0 BY <1>2, <2>2, <4>1 DEF Kept
      <4>3. inbox[1] = wsOwner.took + 1 BY <1>1, <4>2 DEF TakenInv
      <4>4. QED BY <1>5, <2>2, <3>1, <4>2, <4>3
    <3>2. CASE n # 0
      <4>1. inbox' # <<>> /\ n \in 1..n /\ Len(inbox') = n BY <1>3, <3>2 DEF n
      <4>2. inbox'[n] = inbox[n + 1] BY <1>3, <4>1
      <4>3. Kept = IF inbox[n + 1] = EndOfSocket THEN n ELSE n + 1 BY <1>2, <1>3 DEF Kept
      <4>4. Kept' = IF inbox[n + 1] = EndOfSocket THEN n - 1 ELSE n BY <4>1, <4>2 DEF Kept
      <4>5. 1 \in 1..Kept /\ inbox[1] = wsOwner.took + 1 BY <1>1, <1>3, <3>2, <4>3 DEF TakenInv
      <4>6. QED BY <1>3, <1>5, <2>2, <3>2, <4>3, <4>4, <4>5
    <3>3. QED BY <3>1, <3>2
  <2>3. QED BY <2>1, <2>2
<1>11. Assembled' = Assembled
  <2>1. wsOwner'.took + Kept' = wsOwner.took + Kept /\ wsReader' = wsReader BY <1>2, <1>9, <1>10
  <2>2. QED BY <2>1 DEF Assembled
<1>12. TakenInv'
  <2>1. ASSUME NEW i \in 1..Kept' PROVE inbox'[i] = wsOwner'.took + i
    <3>1. Kept' \in Nat /\ Kept = Kept' + 1 /\ Kept' <= n /\ wsOwner'.took = wsOwner.took + 1
      BY <1>10, <2>1
    <3>2. i + 1 \in 1..Kept /\ i \in 1..n
      <4> DEFINE k == Kept'
      <4>1. i \in 1..k /\ k \in Nat /\ Kept = k + 1 /\ k <= n BY <2>1, <3>1
      <4> HIDE DEF k
      <4>2. QED BY <1>3, <4>1
    <3>3. inbox'[i] = wsOwner.took + (i + 1) BY <1>1, <1>3, <3>2 DEF TakenInv
    <3>4. QED BY <1>9, <3>1, <3>2, <3>3
  <2>2. QED BY <1>1, <1>2, <1>11, <2>1 DEF TakenInv
<1>13. WireInv(Assembled)' BY <1>1, <1>2, <1>11, WireStands DEF TooLong
<1>14. QED BY <1>6, <1>7, <1>8, <1>12, <1>13 DEF SocketInv

LEMMA SocketSteps == SocketInv /\ [SocketNext]_socketVars => SocketInv'
<1> SUFFICES ASSUME SocketInv, [SocketNext]_socketVars PROVE SocketInv' OBVIOUS
<1>1. CASE UNCHANGED socketVars
  <2>1. SocketShape'
    BY <1>1 DEF socketVars, SocketInv, SocketShape, BrowserShape, IncomingShape, OutgoingShape, InboxShape,
        ReaderShape, OwnerShape, RestShape
  <2>2. HandInv' /\ TornInv'
    BY <1>1 DEF socketVars, SocketInv, HandInv, TheEndIsLast, TornInv, TornIsTheLast
  <2>3. TakenInv' /\ Assembled' = Assembled
    BY <1>1 DEF socketVars, SocketInv, TakenInv, Kept, Assembled
  <2>4. WireInv(Assembled)' BY <1>1, <2>3, WireStands DEF socketVars, SocketInv, TooLong
  <2>5. QED BY <2>1, <2>2, <2>3, <2>4 DEF SocketInv
<1>2. CASE BrowserMoves
  BY <1>2, BrowserSendKeeps, BrowserLeaveKeeps, BrowserReadKeeps DEF BrowserMoves
<1>3. CASE ReaderMoves BY <1>3, ReaderParseKeeps, ReaderOtherKeeps, ReaderHandKeeps DEF ReaderMoves
<1>4. CASE OwnerMoves BY <1>4, OwnerWriteKeeps, OwnerPollKeeps DEF OwnerMoves, OwnerReturns
<1>5. QED BY <1>1, <1>2, <1>3, <1>4 DEF SocketNext

\* What a bounded sequence is.
LEMMA BoundedIs ==
  ASSUME NEW S, NEW s \in Seq(S), NEW n \in Nat, Len(s) <= n
  PROVE  s \in BoundedSeq(S, n)
<1>1. s \in [1..Len(s) -> S] /\ Len(s) \in 0..n OBVIOUS
<1>2. QED BY <1>1 DEF BoundedSeq, SeqOf

LEMMA SocketIsInOrder == ASSUME SocketInv PROVE SocketIsSound
<1> USE SocketNumbers, HeldFits DEF NoMessage, EndOfSocket
<1>1. SocketShape /\ HandInv /\ TornInv /\ TakenInv /\ WireInv(Assembled) BY DEF SocketInv
<1>2. SocketTypeOK
  <2>1. outgoing \in BoundedSeq({"text", "pong", "close"}, WireRoom)
    BY <1>1, BoundedIs DEF SocketShape, OutgoingShape
  <2>2. inbox \in BoundedSeq(1..MaxMessages \cup {EndOfSocket}, INBOX)
    BY <1>1, BoundedIs DEF SocketShape, InboxShape
  <2>3. QED
    BY <1>1, <2>1, <2>2
    DEF SocketTypeOK, SocketShape, BrowserShape, IncomingShape, ReaderShape, OwnerShape, RestShape
<1> DEFINE a == Len(inbox)  b == Len(incoming)
<1>3. /\ inbox \in Seq(1..MaxMessages \cup {EndOfSocket}) /\ a \in Nat
      /\ incoming \in Seq(Frames) /\ b \in Nat
      /\ \A i \in 1..b : incoming[i].of \in Nat
  BY <1>1, FramesCarryNumbers DEF SocketShape, InboxShape, IncomingShape
<1>4. wsReader.hands \in Int /\ wsOwner.took \in Nat /\ browser.said \in Nat
  BY <1>1 DEF SocketShape, ReaderShape, OwnerShape, BrowserShape
<1>5. Assembled \in Nat /\ Kept \in Nat /\ Kept <= a
      /\ Assembled = wsOwner.took + Kept + (IF wsReader.hands > NoMessage THEN 1 ELSE 0)
  BY <1>1, AssembledIsNat DEF Assembled
<1> DEFINE wire == [i \in DOMAIN incoming |-> incoming[i].of]
<1>6. /\ DOMAIN Arriving = 1..(a + 1 + b)
      /\ \A i \in 1..a : Arriving[i] = inbox[i]
      /\ Arriving[a + 1] = wsReader.hands
      /\ \A i \in 1..b : Arriving[a + 1 + i] = incoming[i].of
  <2>1. wire \in Seq(Nat) /\ Len(wire) = b /\ \A i \in 1..b : wire[i] = incoming[i].of BY <1>3
  <2> DEFINE w == wire  rest == <<wsReader.hands>> \o w
  <2>2. Arriving = inbox \o rest BY DEF Arriving
  <2> HIDE DEF wire, w
  <2>3. w \in Seq(Int) /\ Len(w) = b /\ \A i \in 1..b : w[i] = incoming[i].of BY <2>1 DEF w
  <2>4. rest \in Seq(Int) /\ Len(rest) = b + 1 /\ rest[1] = wsReader.hands /\ \A i \in 1..b : rest[i + 1] = incoming[i].of
    BY <1>3, <1>4, <2>3
  <2>5. inbox \in Seq(Int) BY <1>3
  <2> HIDE DEF rest
  <2>6. /\ DOMAIN (inbox \o rest) = 1..(a + (b + 1))
        /\ \A i \in 1..a : (inbox \o rest)[i] = inbox[i]
        /\ \A k \in 1..b + 1 : (inbox \o rest)[a + k] = rest[k]
    <3>0. a = Len(inbox) BY DEF a
    <3>1. Len(inbox \o rest) = a + (b + 1) /\ inbox \o rest \in Seq(Int) /\ a = Len(inbox)
      <4>1. inbox \o rest \in Seq(Int) /\ Len(inbox \o rest) = Len(inbox) + Len(rest)
        BY <2>4, <2>5, ConcatProperties
      <4>2. QED BY <1>3, <2>4, <3>0, <4>1
    <3>2. \A i \in 1..a : (inbox \o rest)[i] = inbox[i] BY <1>3, <2>4, <2>5, <3>1
    <3>3. \A k \in 1..b + 1 : (inbox \o rest)[a + k] = rest[k] BY <1>3, <2>4, <2>5, <3>1
    <3>4. QED BY <3>1, <3>2, <3>3
  <2>7. \A i \in 1..b : (inbox \o rest)[a + (i + 1)] = incoming[i].of /\ a + (i + 1) = a + 1 + i
    BY <1>3, <2>4, <2>6
  <2>8. QED BY <1>3, <2>2, <2>4, <2>6, <2>7
<1> HIDE DEF a, b, wire
<1>7. \A i \in 1..(a + 1 + b) : i \in 1..a \/ i = a + 1 \/ (i - (a + 1) \in 1..b /\ i = a + 1 + (i - (a + 1)))
  BY <1>3
<1>8. \A i \in 1..a : inbox[i] > NoMessage => i \in 1..Kept /\ inbox[i] = wsOwner.took + i
  <2> SUFFICES ASSUME NEW i \in 1..a, inbox[i] > NoMessage PROVE i \in 1..Kept /\ inbox[i] = wsOwner.took + i
    OBVIOUS
  <2>1. i \in 1..Kept BY <1>3 DEF Kept, a
  <2>2. QED BY <1>1, <2>1 DEF TakenInv
<1>9. wsReader.hands > NoMessage => wsReader.hands = wsOwner.took + Kept + 1 /\ wsReader.hands = Assembled
  BY <1>1, <1>4, <1>5 DEF TakenInv
\* Where a message stands says which one it is.
<1>10. ASSUME NEW i \in MessagesAt
       PROVE  \/ i \in 1..a /\ i <= Kept /\ Arriving[i] = wsOwner.took + i
              \/ i = a + 1 /\ Arriving[i] = Assembled /\ Assembled = wsOwner.took + Kept + 1
              \/ \E k \in 1..b : i = a + 1 + k /\ Arriving[i] = incoming[k].of /\ Assembled < Arriving[i]
  <2>1. i \in 1..(a + 1 + b) /\ Arriving[i] > NoMessage BY <1>6, <1>10 DEF MessagesAt
  <2>2. CASE i \in 1..a BY <1>5, <1>6, <1>8, <2>1, <2>2
  <2>3. CASE i = a + 1 BY <1>5, <1>6, <1>9, <2>1, <2>3
  <2>4. CASE i - (a + 1) \in 1..b /\ i = a + 1 + (i - (a + 1))
    <3>1. Arriving[i] = incoming[i - (a + 1)].of BY <1>6, <2>4
    <3>2. Assembled < incoming[i - (a + 1)].of BY <1>1, <1>3, <2>1, <2>4, <3>1 DEF WireInv, b
    <3>3. QED BY <2>4, <3>1, <3>2
  <2>5. QED BY <1>7, <2>1, <2>2, <2>3, <2>4
<1>11. \A i, j \in MessagesAt : i < j => Arriving[i] < Arriving[j]
  <2> SUFFICES ASSUME NEW i \in MessagesAt, NEW j \in MessagesAt, i < j PROVE Arriving[i] < Arriving[j]
    OBVIOUS
  <2>1. i \in Nat /\ j \in Nat BY <1>3, <1>6 DEF MessagesAt
  <2>2. CASE \E k \in 1..b : j = a + 1 + k /\ Arriving[j] = incoming[k].of /\ Assembled < Arriving[j]
    <3>1. PICK k \in 1..b : j = a + 1 + k /\ Arriving[j] = incoming[k].of /\ Assembled < Arriving[j]
      BY <2>2
    <3>2. CASE \E l \in 1..b : i = a + 1 + l /\ Arriving[i] = incoming[l].of /\ Assembled < Arriving[i]
      <4>1. PICK l \in 1..b : i = a + 1 + l /\ Arriving[i] = incoming[l].of /\ Assembled < Arriving[i]
        BY <3>2
      <4>2. l < k /\ incoming[l].of # 0 /\ incoming[k].of # 0 BY <1>3, <1>5, <3>1, <4>1
      <4>3. QED BY <1>1, <3>1, <4>1, <4>2 DEF WireInv, b
    <3>3. CASE i \in 1..a /\ i <= Kept /\ Arriving[i] = wsOwner.took + i
      <4>1. Arriving[i] <= Assembled BY <1>3, <1>4, <1>5, <3>3
      <4>2. QED
        <5>1. Arriving[i] \in Int /\ Arriving[j] \in Int BY <1>3, <1>4, <3>1, <3>3
        <5>2. QED BY <1>5, <3>1, <4>1, <5>1
    <3>4. CASE i = a + 1 /\ Arriving[i] = Assembled BY <3>1, <3>4
    <3>5. QED BY <1>10, <3>2, <3>3, <3>4
  <2>3. CASE j = a + 1 /\ Arriving[j] = Assembled /\ Assembled = wsOwner.took + Kept + 1
    BY <1>3, <1>4, <1>5, <1>10, <2>1, <2>3
  <2>4. CASE j \in 1..a /\ j <= Kept /\ Arriving[j] = wsOwner.took + j
    BY <1>3, <1>4, <1>5, <1>10, <2>1, <2>4
  <2>5. QED BY <1>10, <2>2, <2>3, <2>4
<1>12. \A i \in MessagesAt : Arriving[i] \in Int /\ Arriving[i] > wsOwner.took
  <2> SUFFICES ASSUME NEW i \in MessagesAt PROVE Arriving[i] \in Int /\ Arriving[i] > wsOwner.took
    OBVIOUS
  <2>0. Assembled >= wsOwner.took BY <1>4, <1>5
  <2>1. CASE i \in 1..a /\ Arriving[i] = wsOwner.took + i BY <1>3, <1>4, <2>1
  <2>2. CASE Arriving[i] = Assembled /\ Assembled = wsOwner.took + Kept + 1 BY <1>4, <1>5, <2>2
  <2>3. CASE \E k \in 1..b : Arriving[i] = incoming[k].of /\ Assembled < Arriving[i]
    BY <1>3, <1>4, <1>5, <2>0, <2>3
  <2>4. QED BY <1>10, <2>1, <2>2, <2>3
<1>13. \* Every number from the one after the last taken to the last assembled is there.
       ASSUME NEW m \in (wsOwner.took + 1)..Assembled PROVE \E i \in MessagesAt : Arriving[i] = m
  <2>1. CASE m = wsOwner.took + Kept + 1
    <3>1. wsReader.hands > NoMessage BY <1>4, <1>5, <1>13, <2>1
    <3>2. a + 1 \in MessagesAt /\ Arriving[a + 1] = m BY <1>3, <1>6, <1>9, <2>1, <3>1 DEF MessagesAt
    <3>3. QED BY <3>2
  <2>2. CASE m # wsOwner.took + Kept + 1
    <3> DEFINE i == m - wsOwner.took
    <3>0. m \in Int /\ m > wsOwner.took /\ m <= wsOwner.took + Kept BY <1>4, <1>5, <1>13, <2>2
    <3>1. i \in 1..Kept /\ i \in 1..a /\ i \in 1..(a + 1 + b) /\ m = wsOwner.took + i
      <4>1. i \in 1..Kept /\ m = wsOwner.took + i BY <1>4, <1>5, <3>0
      <4> HIDE DEF i
      <4>2. QED BY <1>3, <1>5, <4>1
    <3> HIDE DEF i
    <3>2. Arriving[i] = m /\ m > NoMessage BY <1>1, <1>4, <1>6, <3>1 DEF TakenInv
    <3>3. i \in MessagesAt BY <1>6, <3>1, <3>2 DEF MessagesAt
    <3>4. QED BY <3>2, <3>3
  <2>3. QED BY <2>1, <2>2
<1>14. \* And every one a frame on the wire carries.
       ASSUME NEW m \in Nat, m > 0, \E k \in 1..b : incoming[k].of = m PROVE \E i \in MessagesAt : Arriving[i] = m
  <2>1. PICK k \in 1..b : incoming[k].of = m BY <1>14
  <2>2. a + 1 + k \in 1..(a + 1 + b) /\ Arriving[a + 1 + k] = m BY <1>3, <1>6, <2>1
  <2>3. a + 1 + k \in MessagesAt BY <1>6, <1>14, <2>2 DEF MessagesAt
  <2>4. QED BY <2>2, <2>3
<1>15. ASSUME ~TooLong, NEW i \in MessagesAt, NEW m \in (wsOwner.took + 1)..Arriving[i]
       PROVE  \E j \in MessagesAt : Arriving[j] = m
  <2>1. m \in Nat /\ m > 0 /\ (m <= Assembled => m \in (wsOwner.took + 1)..Assembled)
    BY <1>4, <1>5, <1>15
  <2>2. CASE m <= Assembled BY <1>13, <2>1, <2>2
  <2>3. CASE m > Assembled
    <3>1. Arriving[i] \in Int BY <1>12
    <3>2. PICK k \in 1..b : Arriving[i] = incoming[k].of
      BY <1>4, <1>5, <1>10, <1>15, <2>1, <2>3, <3>1
    <3>3. m \in (Assembled + 1)..incoming[k].of BY <1>3, <1>5, <1>15, <2>1, <2>3, <3>2
    <3>4. \E j \in 1..b : incoming[j].of = m BY <1>1, <1>15, <3>2, <3>3 DEF WireInv, b
    <3>5. QED BY <1>14, <2>1, <3>4
  <2>4. QED BY <1>5, <2>1, <2>2, <2>3
<1>16. ASSUME ~TooLong, browser.left # "reset" PROVE Messages = (wsOwner.took + 1)..browser.said
  <2>1. ASSUME NEW m \in (wsOwner.took + 1)..browser.said PROVE m \in Messages
    <3>1. m \in Nat /\ m > 0 /\ (m <= Assembled => m \in (wsOwner.took + 1)..Assembled)
          /\ (m > Assembled => m \in (Assembled + 1)..browser.said)
      BY <1>4, <1>5, <2>1
    <3>2. CASE m <= Assembled BY <1>13, <3>1, <3>2 DEF Messages
    <3>3. CASE m > Assembled
      <4>1. \E j \in 1..b : incoming[j].of = m BY <1>1, <1>16, <3>1, <3>3 DEF WireInv, b
      <4>2. QED BY <1>14, <3>1, <4>1 DEF Messages
    <3>4. QED BY <1>5, <3>1, <3>2, <3>3
  <2>2. ASSUME NEW i \in MessagesAt PROVE Arriving[i] \in (wsOwner.took + 1)..browser.said
    <3>1. Arriving[i] \in Int /\ Arriving[i] > wsOwner.took BY <1>12
    <3>2. Assembled <= browser.said BY <1>1 DEF WireInv
    <3>3. Arriving[i] <= browser.said
      <4>1. CASE \E k \in 1..b : i = a + 1 + k /\ Arriving[i] = incoming[k].of /\ Assembled < Arriving[i]
        <5>1. PICK k \in 1..b : Arriving[i] = incoming[k].of /\ Assembled < Arriving[i] BY <4>1
        <5>2. incoming[k].of # 0 BY <1>3, <1>5, <5>1
        <5>3. QED BY <1>1, <5>1, <5>2 DEF WireInv, b
      <4>2. CASE i \in 1..a /\ i <= Kept /\ Arriving[i] = wsOwner.took + i
        BY <1>4, <1>5, <3>1, <3>2, <4>2
      <4>3. CASE i = a + 1 /\ Arriving[i] = Assembled BY <3>2, <4>3
      <4>4. QED BY <1>10, <4>1, <4>2, <4>3
    <3>4. QED BY <1>4, <3>1, <3>3
  <2>3. QED BY <2>1, <2>2 DEF Messages
<1>17. MessagesComeInOrder
  <2>1. \A m \in Messages : m > wsOwner.took BY <1>12 DEF Messages
  <2>2. ~TooLong => \A m \in Messages : (wsOwner.took + 1)..m \subseteq Messages
    BY <1>15 DEF Messages
  <2>3. QED BY <1>11, <1>16, <2>1, <2>2 DEF MessagesComeInOrder
<1>18. QED BY <1>1, <1>2, <1>17 DEF SocketIsSound, HandInv, TornInv

-----------------------------------------------------------------------------
(* The calls over a DevTools connection.                                   *)

\* r is s without its element at k.
Without(s, k, r) ==
    /\ Len(s) = Len(r) + 1
    /\ \A i \in 1..Len(r) : r[i] = s[IF i < k THEN i ELSE i + 1]

Carries(s, m) == \E i \in 1..Len(s) : s[i] = m

\* The target events of s go up, from above low to no more than high.
TargetsRise(low, s, high) ==
    /\ \A i \in 1..Len(s) : s[i].kind = "target" => low < s[i].n /\ s[i].n <= high
    /\ \A i, j \in 1..Len(s) : i < j /\ s[i].kind = "target" /\ s[j].kind = "target" => s[i].n < s[j].n

LEMMA LeastOf == ASSUME NEW S, S \subseteq Nat, S # {} PROVE Min(S) \in S /\ \A y \in S : Min(S) <= y
<1>1. PICK x \in S : \A y \in S : ~(<<y, x>> \in OpToRel(<, Nat)) BY NatLessThanWellFounded, WFMin
<1>2. \A y \in S : ~(y < x) BY <1>1 DEF OpToRel
<1>3. \A y \in S : y \in Int OBVIOUS
<1>4. \A y \in S : x <= y BY <1>2, <1>3
<1>5. \E z \in S : \A y \in S : z =< y BY <1>4
<1>6. QED BY <1>5 DEF Min

LEMMA WithoutIs ==
  ASSUME NEW S, NEW s \in Seq(S), NEW k \in 1..Len(s)
  PROVE  RemoveAt(s, k) \in Seq(S) /\ Without(s, k, RemoveAt(s, k))
<1> DEFINE u == SubSeq(s, 1, k - 1)  v == SubSeq(s, k + 1, Len(s))  n == Len(s)
<1>1. n \in Nat /\ k \in 1..n /\ k \in Nat /\ n = Len(s) OBVIOUS
<1>2. u \in Seq(S) /\ Len(u) = k - 1 /\ \A i \in 1..k - 1 : u[i] = s[i] OBVIOUS
<1>3. v \in Seq(S) /\ Len(v) = n - k /\ \A i \in 1..n - k : v[i] = s[k + i]
  <2>1. k + 1 \in 1..n + 1 /\ n \in k..n BY <1>1
  <2>2. v \in Seq(S) /\ Len(v) = IF k + 1 <= n THEN n - (k + 1) + 1 ELSE 0 BY <1>1, SubSeqProperties
  <2>3. Len(v) = n - k BY <1>1, <2>2
  <2>4. \A i \in 1..n - k : v[i] = s[k + 1 + i - 1] BY <1>1, <2>1, SubSeqProperties
  <2>5. QED BY <1>1, <2>2, <2>3, <2>4
<1> HIDE DEF u, v, n
<1>4. /\ u \o v \in Seq(S) /\ Len(u \o v) = Len(u) + Len(v)
      /\ \A i \in 1..Len(u) + Len(v) : (u \o v)[i] = IF i <= Len(u) THEN u[i] ELSE v[i - Len(u)]
  BY <1>2, <1>3, ConcatProperties
<1>5. Len(u \o v) = n - 1 BY <1>1, <1>2, <1>3, <1>4
<1>6. ASSUME NEW i \in 1..n - 1 PROVE (u \o v)[i] = s[IF i < k THEN i ELSE i + 1]
  <2>1. CASE i < k BY <1>1, <1>2, <1>3, <1>4, <1>6, <2>1
  <2>2. CASE ~(i < k)
    <3>1. (u \o v)[i] = v[i - (k - 1)] /\ i - (k - 1) \in 1..n - k /\ k + (i - (k - 1)) = i + 1
      BY <1>1, <1>2, <1>3, <1>4, <1>6, <2>2
    <3>2. v[i - (k - 1)] = s[k + (i - (k - 1))] BY <1>3, <3>1
    <3>3. QED BY <2>2, <3>1, <3>2
  <2>3. QED BY <2>1, <2>2
<1>7. RemoveAt(s, k) = u \o v BY DEF RemoveAt, u, v
<1>8. Len(s) = Len(u \o v) + 1 BY <1>1, <1>5
<1>9. QED BY <1>4, <1>5, <1>6, <1>7, <1>8 DEF Without

LEMMA TailIsWithout ==
  ASSUME NEW S, NEW s \in Seq(S), s # <<>>
  PROVE  Tail(s) \in Seq(S) /\ Without(s, 1, Tail(s)) /\ 1 \in 1..Len(s) /\ Head(s) = s[1]
BY DEF Without

LEMMA CarriesWithout ==
  ASSUME NEW S, NEW s \in Seq(S), NEW T, NEW r \in Seq(T), NEW k \in 1..Len(s), Without(s, k, r), NEW m
  PROVE  /\ Carries(r, m) => Carries(s, m)
         /\ Carries(s, m) /\ s[k] # m => Carries(r, m)
<1> DEFINE n == Len(r)
<1>1. n \in Nat /\ Len(s) = n + 1 /\ k \in 1..n + 1 /\ Len(r) = n
      /\ \A i \in 1..n : r[i] = s[IF i < k THEN i ELSE i + 1] /\ (IF i < k THEN i ELSE i + 1) \in 1..n + 1
  BY DEF Without
<1> HIDE DEF n
<1>2. Carries(r, m) => Carries(s, m) BY <1>1 DEF Carries
<1>3. ASSUME Carries(s, m), s[k] # m PROVE Carries(r, m)
  <2>1. PICK j \in 1..n + 1 : s[j] = m BY <1>1, <1>3 DEF Carries
  <2>2. CASE j < k
    <3>1. j \in 1..n /\ r[j] = s[j] BY <1>1, <2>2
    <3>2. QED BY <1>1, <2>1, <3>1 DEF Carries
  <2>3. CASE j > k
    <3>1. j - 1 \in 1..n /\ ~(j - 1 < k) /\ (j - 1) + 1 = j BY <1>1, <2>3
    <3>2. r[j - 1] = s[j] BY <1>1, <3>1
    <3>3. QED BY <1>1, <2>1, <3>1, <3>2 DEF Carries
  <2>4. QED BY <1>1, <1>3, <2>1, <2>2, <2>3
<1>4. QED BY <1>2, <1>3

LEMMA RiseWithout ==
  ASSUME NEW S, NEW s \in Seq(S), NEW T, NEW r \in Seq(T), NEW k \in 1..Len(s), Without(s, k, r),
         NEW low, NEW high, TargetsRise(low, s, high)
  PROVE  TargetsRise(low, r, high)
<1> DEFINE n == Len(r)  at(i) == IF i < k THEN i ELSE i + 1
<1>1. n \in Nat /\ Len(s) = n + 1 /\ k \in 1..n + 1 /\ Len(r) = n
      /\ \A i \in 1..n : r[i] = s[at(i)] /\ at(i) \in 1..n + 1
  BY DEF Without
<1>2. \A i, j \in 1..n : i < j => at(i) < at(j) BY <1>1
<1> HIDE DEF n, at
<1>3. \A i \in 1..n : r[i].kind = "target" => low < r[i].n /\ r[i].n <= high BY <1>1 DEF TargetsRise
<1>4. \A i, j \in 1..n : i < j /\ r[i].kind = "target" /\ r[j].kind = "target" => r[i].n < r[j].n
  BY <1>1, <1>2 DEF TargetsRise
<1>5. QED BY <1>1, <1>3, <1>4 DEF TargetsRise

\* Without its first message, the targets go up from it.
LEMMA RiseWithoutFirst ==
  ASSUME NEW S, NEW s \in Seq(S), NEW T, NEW r \in Seq(T), 1 \in 1..Len(s), Without(s, 1, r),
         NEW low, NEW high, TargetsRise(low, s, high), s[1].kind = "target"
  PROVE  TargetsRise(s[1].n, r, high)
<1> DEFINE n == Len(r)
<1>1. n \in Nat /\ Len(s) = n + 1 /\ Len(r) = n
      /\ \A i \in 1..n : r[i] = s[i + 1] /\ i + 1 \in 1..n + 1 /\ 1 < i + 1
  BY DEF Without
<1> HIDE DEF n
<1>2. TargetsRise(low, r, high) BY RiseWithout
<1>3. \A i \in 1..n : r[i].kind = "target" => s[1].n < r[i].n BY <1>1 DEF TargetsRise
<1>4. QED BY <1>1, <1>2, <1>3 DEF TargetsRise

LEMMA PutLast ==
  ASSUME NEW S, NEW s \in Seq(S), NEW m \in S
  PROVE  /\ Append(s, m) \in Seq(S) /\ Len(Append(s, m)) = Len(s) + 1
         /\ \A i \in 1..Len(s) : Append(s, m)[i] = s[i]
         /\ Append(s, m)[Len(s) + 1] = m
OBVIOUS

LEMMA CarriesAppend ==
  ASSUME NEW S, NEW s \in Seq(S), NEW m \in S, NEW x
  PROVE  Carries(Append(s, m), x) <=> Carries(s, x) \/ x = m
<1> DEFINE n == Len(s)  r == Append(s, m)
<1>1. n \in Nat /\ Len(s) = n /\ Len(r) = n + 1 /\ r[n + 1] = m /\ \A i \in 1..n : r[i] = s[i]
  BY PutLast
<1> HIDE DEF n, r
<1>2. Carries(r, x) <=> Carries(s, x) \/ x = m
  <2>1. \A i \in 1..n + 1 : i \in 1..n \/ i = n + 1 BY <1>1
  <2>2. (\A i \in 1..n : i \in 1..n + 1) /\ n + 1 \in 1..n + 1 BY <1>1
  <2>3. QED BY <1>1, <2>1, <2>2 DEF Carries
<1>3. QED BY <1>2 DEF r

LEMMA RiseAppend ==
  ASSUME NEW S, NEW s \in Seq(S), NEW m \in S, NEW low \in Int, NEW high \in Int, NEW top \in Int,
         \A x \in S : x.n \in Int,
         TargetsRise(low, s, high), low <= high, high <= top,
         m.kind = "target" => high < m.n /\ m.n <= top
  PROVE  TargetsRise(low, Append(s, m), top)
<1> DEFINE n == Len(s)  r == Append(s, m)
<1>1. n \in Nat /\ Len(s) = n /\ Len(r) = n + 1 /\ r[n + 1] = m /\ \A i \in 1..n : r[i] = s[i] /\ s[i] \in S
  BY PutLast
<1>2. m.n \in Int /\ \A i \in 1..n : s[i].n \in Int BY <1>1
<1> HIDE DEF n, r
<1>3. \A i \in 1..n + 1 : i \in 1..n \/ i = n + 1 BY <1>1
<1>4. \A i \in 1..n : r[i].kind = "target" => low < r[i].n /\ r[i].n <= high BY <1>1 DEF TargetsRise
<1>5. \A i \in 1..n + 1 : r[i].kind = "target" => low < r[i].n /\ r[i].n <= top
  BY <1>1, <1>2, <1>3, <1>4
<1>6. ASSUME NEW i \in 1..n + 1, NEW j \in 1..n + 1, i < j, r[i].kind = "target", r[j].kind = "target"
      PROVE  r[i].n < r[j].n
  <2>1. i \in 1..n BY <1>1, <1>6
  <2>2. CASE j \in 1..n BY <1>1, <1>6, <2>1, <2>2 DEF TargetsRise
  <2>3. CASE j = n + 1 BY <1>1, <1>2, <1>4, <1>6, <2>1, <2>3
  <2>4. QED BY <1>3, <2>2, <2>3
<1>7. TargetsRise(low, r, top) BY <1>1, <1>5, <1>6 DEF TargetsRise
<1>8. QED BY <1>7 DEF r

-----------------------------------------------------------------------------
Queueable == CallMessages \ {Junk}
Numbers == 1..MaxCalls

CallsShape ==
    /\ saidTargets \in 0..MaxTargets /\ handled \in 0..saidTargets
    /\ asked \subseteq Numbers /\ awaitable \subseteq Numbers /\ missedReplies \subseteq Numbers
    /\ nextId \in 1..MaxCalls + 1
    /\ call \in [id : 0..MaxCalls, left : 0..CALL_TICKS]
    /\ queued \in Seq(Queueable) /\ Len(queued) <= 2 * MAX_QUEUED_EVENTS
    /\ notices \in [lost : SUBSET Nat, spent : BOOLEAN, target : BOOLEAN]
    /\ linkOver \in BOOLEAN

\* The events said and not handled are parked, in their order, or were told of as dropped.
TargetsInv ==
    /\ TargetsRise(handled, queued, saidTargets)
    /\ \A n \in (handled + 1)..saidTargets : Carries(queued, TargetEvent(n)) \/ n \in notices.lost
    /\ notices.lost # {} => notices.target

\* A command's reply is still to come or is queued, or something was dropped to make room.
AnsweredInv ==
    /\ \A id \in awaitable : id \in asked \/ Carries(queued, ReplyTo(id)) \/ notices.spent
    /\ call.id # 0 => ~Carries(queued, ReplyTo(call.id)) /\ (call.id \in asked \/ notices.spent)
    /\ call.id \notin awaitable
    /\ missedReplies # {} => notices.spent

CallsInv == CallsShape /\ TargetsInv /\ AnsweredInv

LEMMA CallsNumbers ==
    /\ MAX_QUEUED_EVENTS \in Nat /\ MAX_QUEUED_EVENTS > 0
    /\ CALL_TICKS \in Nat /\ MaxTargets \in Nat /\ MaxCalls \in Nat
  BY DevToolsCallsAssumption

LEMMA MessagesAre ==
    /\ \A n \in 1..MaxTargets : TargetEvent(n) \in Queueable /\ TargetEvent(n).kind = "target" /\ TargetEvent(n).n = n
    /\ \A n \in Numbers : ReplyTo(n) \in Queueable /\ ReplyTo(n).kind = "reply" /\ ReplyTo(n).n = n
    /\ OtherEvent \in Queueable /\ OtherEvent.kind = "event" /\ Junk.kind = "junk"
    /\ \A m \in CallMessages :
          \/ m = OtherEvent \/ m = Junk
          \/ m.n \in 1..MaxTargets /\ m = TargetEvent(m.n)
          \/ m.n \in Numbers /\ m = ReplyTo(m.n)
    /\ \A m \in Queueable : m \in CallMessages /\ m.n \in Int
<1> USE CallsNumbers DEF Queueable, CallMessages, TargetEvent, ReplyTo, OtherEvent, Junk, Numbers
<1>1. \A n \in 1..MaxTargets : TargetEvent(n) \in Queueable /\ TargetEvent(n).kind = "target" /\ TargetEvent(n).n = n
  OBVIOUS
<1>2. \A n \in Numbers : ReplyTo(n) \in Queueable /\ ReplyTo(n).kind = "reply" /\ ReplyTo(n).n = n
  OBVIOUS
<1>3. OtherEvent \in Queueable /\ OtherEvent.kind = "event" /\ Junk.kind = "junk" OBVIOUS
<1>4. \A m \in CallMessages :
          \/ m = OtherEvent \/ m = Junk
          \/ m.n \in 1..MaxTargets /\ m = TargetEvent(m.n)
          \/ m.n \in Numbers /\ m = ReplyTo(m.n)
  OBVIOUS
<1>5. \A m \in Queueable : m \in CallMessages /\ m.n \in Int OBVIOUS
<1>6. QED BY <1>1, <1>2, <1>3, <1>4, <1>5

LEMMA CallsStart == CallsInit => CallsInv
<1> SUFFICES ASSUME CallsInit PROVE CallsInv OBVIOUS
<1> USE CallsNumbers DEF CallsInit
<1>1. CallsShape
  <2>1. queued \in Seq(Queueable) /\ Len(queued) = 0 OBVIOUS
  <2>2. notices \in [lost : SUBSET Nat, spent : BOOLEAN, target : BOOLEAN] OBVIOUS
  <2>3. call \in [id : 0..MaxCalls, left : 0..CALL_TICKS] BY DEF NoCall
  <2>4. saidTargets \in 0..MaxTargets /\ handled \in 0..saidTargets /\ nextId \in 1..MaxCalls + 1
    OBVIOUS
  <2>5. linkOver \in BOOLEAN /\ asked \subseteq Numbers /\ awaitable \subseteq Numbers /\ missedReplies \subseteq Numbers
    OBVIOUS
  <2>6. Len(queued) <= 2 * MAX_QUEUED_EVENTS BY <2>1
  <2> HIDE DEF CallsInit
  <2>7. QED BY <2>1, <2>2, <2>3, <2>4, <2>5, <2>6 DEF CallsShape
<1>2. TargetsInv /\ AnsweredInv BY DEF TargetsInv, AnsweredInv, TargetsRise, NoCall
<1>3. QED BY <1>1, <1>2 DEF CallsInv

\* What the queue does with one more message.
LEMMA PushDoes ==
  ASSUME CallsInv, NEW m \in Queueable, PushBounded(m)
  PROVE  \/ queued' = Append(queued, m) /\ UNCHANGED notices /\ Len(queued) < 2 * MAX_QUEUED_EVENTS
         \/ \E k \in 1..Len(queued) :
              /\ queued[k].kind # "target" /\ queued' = Append(RemoveAt(queued, k), m)
              /\ notices' = [notices EXCEPT !.spent = TRUE]
         \/ /\ queued # <<>> /\ queued[1].kind = "target" /\ queued' = Append(Tail(queued), m)
            /\ notices' = [notices EXCEPT !.target = TRUE, !.lost = @ \cup {queued[1].n}]
<1> USE CallsNumbers
<1> DEFINE spent == {i \in 1..Len(queued) : queued[i].kind # "target"}
<1>1. queued \in Seq(Queueable) /\ Len(queued) \in Nat BY DEF CallsInv, CallsShape
<1>2. OldestSpent = IF spent # {} THEN Min(spent) ELSE 0 BY DEF OldestSpent, SelectInSeq
<1>3. spent \subseteq Nat /\ \A i \in spent : i # 0 OBVIOUS
<1>4. spent # {} => Min(spent) \in spent BY <1>3, LeastOf
<1>5. OldestSpent # 0 => OldestSpent \in 1..Len(queued) /\ queued[OldestSpent].kind # "target"
  BY <1>2, <1>4
<1>6. OldestSpent = 0 => \A i \in 1..Len(queued) : queued[i].kind = "target"
  <2>1. OldestSpent = 0 => spent = {} BY <1>2, <1>3, <1>4
  <2>2. QED BY <2>1
<1> HIDE DEF spent
<1>7. CASE Len(queued) >= MAX_QUEUED_EVENTS /\ OldestSpent # 0 BY <1>5, <1>7 DEF PushBounded
<1>8. CASE Len(queued) >= 2 * MAX_QUEUED_EVENTS /\ OldestSpent = 0
  <2>1. 1 \in 1..Len(queued) /\ queued # <<>> /\ Head(queued) = queued[1] BY <1>1, <1>8
  <2>2. QED BY <1>6, <1>8, <2>1 DEF PushBounded
<1>9. CASE ~(Len(queued) >= MAX_QUEUED_EVENTS /\ OldestSpent # 0) /\ ~(Len(queued) >= 2 * MAX_QUEUED_EVENTS /\ OldestSpent = 0)
  <2>1. Len(queued) < 2 * MAX_QUEUED_EVENTS BY <1>1, <1>9
  <2>2. QED BY <1>9, <2>1 DEF PushBounded
<1>10. QED BY <1>7, <1>8, <1>9

\* The message that came is parked, what was parked is parked still or was told of, and what
\* is not in the queue and did not come is not in it now.
LEMMA PushKeeps ==
  ASSUME CallsInv, NEW m \in Queueable, PushBounded(m), NEW top \in Int, saidTargets <= top,
         m.kind = "target" => m = TargetEvent(m.n) /\ saidTargets < m.n /\ m.n <= top
  PROVE  /\ queued' \in Seq(Queueable) /\ Len(queued') <= 2 * MAX_QUEUED_EVENTS
         /\ notices' \in [lost : SUBSET Nat, spent : BOOLEAN, target : BOOLEAN]
         /\ TargetsRise(handled, queued', top)
         /\ \A n \in (handled + 1)..saidTargets : Carries(queued', TargetEvent(n)) \/ n \in notices'.lost
         /\ Carries(queued', m)
         /\ notices'.lost # {} => notices'.target
         /\ notices.spent => notices'.spent
         /\ \A id \in Numbers : Carries(queued, ReplyTo(id)) => Carries(queued', ReplyTo(id)) \/ notices'.spent
         /\ \A x : Carries(queued', x) => Carries(queued, x) \/ x = m
<1> USE CallsNumbers
<1>1. /\ queued \in Seq(Queueable) /\ Len(queued) <= 2 * MAX_QUEUED_EVENTS /\ Len(queued) \in Nat
      /\ notices \in [lost : SUBSET Nat, spent : BOOLEAN, target : BOOLEAN]
      /\ saidTargets \in Int /\ handled \in Int /\ handled <= saidTargets /\ handled >= 0 /\ saidTargets <= MaxTargets
      /\ TargetsInv
  BY DEF CallsInv, CallsShape
<1>2. \A x \in Queueable : x.n \in Int BY MessagesAre
<1>3. CASE queued' = Append(queued, m) /\ UNCHANGED notices /\ Len(queued) < 2 * MAX_QUEUED_EVENTS
  <2>1. queued' \in Seq(Queueable) /\ Len(queued') <= 2 * MAX_QUEUED_EVENTS BY <1>1, <1>3, PutLast
  <2>2. \A x : Carries(queued', x) <=> Carries(queued, x) \/ x = m BY <1>1, <1>3, CarriesAppend
  <2>3. TargetsRise(handled, queued', top) BY <1>1, <1>2, <1>3, RiseAppend DEF TargetsInv
  <2>4. QED BY <1>1, <1>3, <2>1, <2>2, <2>3 DEF TargetsInv
<1>4. ASSUME NEW k \in 1..Len(queued), NEW r, r \in Seq(Queueable), Without(queued, k, r), queued' = Append(r, m)
      PROVE  /\ queued' \in Seq(Queueable) /\ Len(queued') <= 2 * MAX_QUEUED_EVENTS
             /\ TargetsRise(handled, queued', top) /\ Carries(queued', m)
             /\ \A x : Carries(queued', x) => Carries(queued, x) \/ x = m
             /\ \A x : Carries(queued, x) /\ queued[k] # x => Carries(queued', x)
  <2>1. queued' \in Seq(Queueable) /\ Len(queued') = Len(queued) BY <1>1, <1>4, PutLast DEF Without
  <2>2. \A x : Carries(queued', x) <=> Carries(r, x) \/ x = m BY <1>1, <1>4, CarriesAppend
  <2>3. \A x : (Carries(r, x) => Carries(queued, x)) /\ (Carries(queued, x) /\ queued[k] # x => Carries(r, x))
    BY <1>1, <1>4, CarriesWithout
  <2>4. TargetsRise(handled, r, saidTargets) BY <1>1, <1>4, RiseWithout DEF TargetsInv
  <2>5. TargetsRise(handled, queued', top) BY <1>1, <1>2, <1>4, <2>4, RiseAppend
  <2>6. QED BY <1>1, <2>1, <2>2, <2>3, <2>5
<1>5. CASE \E k \in 1..Len(queued) :
              /\ queued[k].kind # "target" /\ queued' = Append(RemoveAt(queued, k), m)
              /\ notices' = [notices EXCEPT !.spent = TRUE]
  <2>1. PICK k \in 1..Len(queued) :
              /\ queued[k].kind # "target" /\ queued' = Append(RemoveAt(queued, k), m)
              /\ notices' = [notices EXCEPT !.spent = TRUE]
    BY <1>5
  <2>2. RemoveAt(queued, k) \in Seq(Queueable) /\ Without(queued, k, RemoveAt(queued, k))
    BY <1>1, WithoutIs
  <2>3. /\ queued' \in Seq(Queueable) /\ Len(queued') <= 2 * MAX_QUEUED_EVENTS
        /\ TargetsRise(handled, queued', top) /\ Carries(queued', m)
        /\ \A x : Carries(queued', x) => Carries(queued, x) \/ x = m
        /\ \A x : Carries(queued, x) /\ queued[k] # x => Carries(queued', x)
    BY <1>4, <2>1, <2>2
  <2>4. notices' \in [lost : SUBSET Nat, spent : BOOLEAN, target : BOOLEAN] /\ notices'.spent
        /\ notices'.lost = notices.lost /\ notices'.target = notices.target
    BY <1>1, <2>1
  <2>5. ASSUME NEW n \in (handled + 1)..saidTargets PROVE Carries(queued', TargetEvent(n)) \/ n \in notices'.lost
    <3>1. Carries(queued, TargetEvent(n)) \/ n \in notices.lost BY <1>1, <2>5 DEF TargetsInv
    <3>2. queued[k] # TargetEvent(n) BY <1>1, <2>1, <2>5, MessagesAre
    <3>3. QED BY <2>3, <2>4, <3>1, <3>2
  <2>6. QED BY <1>1, <2>3, <2>4, <2>5 DEF TargetsInv
<1>6. CASE /\ queued # <<>> /\ queued[1].kind = "target" /\ queued' = Append(Tail(queued), m)
           /\ notices' = [notices EXCEPT !.target = TRUE, !.lost = @ \cup {queued[1].n}]
  <2>1. Tail(queued) \in Seq(Queueable) /\ Without(queued, 1, Tail(queued)) /\ 1 \in 1..Len(queued) /\ queued[1] \in Queueable
    BY <1>1, <1>6, TailIsWithout
  <2>2. /\ queued' \in Seq(Queueable) /\ Len(queued') <= 2 * MAX_QUEUED_EVENTS
        /\ TargetsRise(handled, queued', top) /\ Carries(queued', m)
        /\ \A x : Carries(queued', x) => Carries(queued, x) \/ x = m
        /\ \A x : Carries(queued, x) /\ queued[1] # x => Carries(queued', x)
    BY <1>4, <1>6, <2>1
  <2>3. queued[1].n \in 1..MaxTargets /\ queued[1] = TargetEvent(queued[1].n)
    BY <1>6, <2>1, MessagesAre
  <2>4. notices' \in [lost : SUBSET Nat, spent : BOOLEAN, target : BOOLEAN] /\ notices'.spent = notices.spent
        /\ notices'.lost = notices.lost \cup {queued[1].n} /\ notices'.target
    <3> DEFINE lost == notices.lost \cup {queued[1].n}  told == [notices EXCEPT !.target = TRUE]
    <3>1. lost \in SUBSET Nat /\ told \in [lost : SUBSET Nat, spent : BOOLEAN, target : BOOLEAN]
          /\ told.spent = notices.spent /\ told.target
      <4>1. lost \in SUBSET Nat BY <1>1, <2>3
      <4>2. QED BY <1>1, <4>1
    <3>2. notices' = [told EXCEPT !.lost = lost] BY <1>1, <1>6
    <3> HIDE DEF lost, told
    <3>3. notices' \in [lost : SUBSET Nat, spent : BOOLEAN, target : BOOLEAN] /\ notices'.spent = notices.spent
          /\ notices'.lost = lost /\ notices'.target
      BY <3>1, <3>2
    <3>4. QED BY <3>3 DEF lost
  <2>5. ASSUME NEW n \in (handled + 1)..saidTargets PROVE Carries(queued', TargetEvent(n)) \/ n \in notices'.lost
    <3>1. Carries(queued, TargetEvent(n)) \/ n \in notices.lost BY <1>1, <2>5 DEF TargetsInv
    <3>2. queued[1] = TargetEvent(n) => queued[1].n = n BY <1>1, <2>5, MessagesAre
    <3>3. QED BY <2>2, <2>4, <3>1, <3>2
  <2>6. \A id \in Numbers : queued[1] # ReplyTo(id) BY <1>6, MessagesAre
  <2>7. QED BY <1>1, <2>2, <2>4, <2>5, <2>6 DEF TargetsInv
<1>7. QED BY <1>3, <1>5, <1>6, PushDoes

\* What a message that comes leaves to come.
LEMMA ComesLeaves ==
  ASSUME CallsInv, NEW m \in CallMessages, MessageComes(m)
  PROVE  /\ saidTargets' \in 0..MaxTargets /\ asked' \subseteq Numbers
         /\ \/ m.kind = "target" /\ m = TargetEvent(saidTargets + 1) /\ saidTargets' = saidTargets + 1 /\ m.n = saidTargets + 1
               /\ saidTargets + 1 \in 1..MaxTargets
            \/ m.kind # "target" /\ saidTargets' = saidTargets
         /\ \/ asked' = asked /\ m.kind # "reply"
            \/ m.kind = "reply" /\ m.n \in Numbers /\ m = ReplyTo(m.n) /\ asked' = asked \ {m.n}
<1>1. saidTargets \in 0..MaxTargets /\ asked \subseteq Numbers /\ MaxTargets \in Nat
  BY CallsNumbers DEF CallsInv, CallsShape
<1>2. CASE m \in {OtherEvent, Junk} /\ UNCHANGED <<saidTargets, asked>> BY <1>1, <1>2, MessagesAre
<1>3. CASE saidTargets < MaxTargets /\ m = TargetEvent(saidTargets + 1) /\ saidTargets' = saidTargets + 1 /\ UNCHANGED asked
  BY <1>1, <1>3, MessagesAre
<1>4. CASE m.kind = "reply" /\ m.n \in asked /\ asked' = asked \ {m.n} /\ UNCHANGED saidTargets
  <2>1. m.n \in Numbers /\ m = ReplyTo(m.n)
    <3>1. m # OtherEvent /\ m # Junk /\ ~(m.n \in 1..MaxTargets /\ m = TargetEvent(m.n))
      BY <1>4, MessagesAre
    <3>2. QED BY <3>1, MessagesAre
  <2>2. QED BY <1>1, <1>4, <2>1
<1>5. QED BY <1>2, <1>3, <1>4 DEF MessageComes

LEMMA CallSendKeeps == ASSUME CallsInv, CallSends PROVE CallsInv'
<1> USE CallsNumbers DEF NoCall
<1>1. CallsShape /\ TargetsInv /\ AnsweredInv BY DEF CallsInv
<1>2. UNCHANGED <<saidTargets, call, queued, notices, handled, missedReplies>> /\ call = NoCall
      /\ nextId' = nextId + 1 /\ nextId \in Numbers /\ nextId' \in 1..MaxCalls + 1
  BY <1>1 DEF CallSends, CallsShape, Numbers
<1>3. \/ asked' = asked \cup {nextId} /\ awaitable' = awaitable \cup {nextId} /\ UNCHANGED linkOver
      \/ linkOver' = TRUE /\ UNCHANGED <<asked, awaitable>>
  BY DEF CallSends
<1>4. CallsShape' BY <1>1, <1>2, <1>3 DEF CallsShape
<1>5. TargetsInv' BY <1>1, <1>2 DEF TargetsInv
<1>6. AnsweredInv'
  <2>1. 0 \notin awaitable' BY <1>4 DEF CallsShape, Numbers
  <2>2. \A id \in awaitable' : id \in asked' \/ Carries(queued, ReplyTo(id)) \/ notices.spent
    BY <1>1, <1>3 DEF AnsweredInv
  <2>3. QED BY <1>1, <1>2, <2>1, <2>2 DEF AnsweredInv
<1>7. QED BY <1>4, <1>5, <1>6 DEF CallsInv

LEMMA CallAwaitKeeps == ASSUME CallsInv, CallAwaits PROVE CallsInv'
<1> USE CallsNumbers DEF NoCall
<1>1. CallsShape /\ TargetsInv /\ AnsweredInv BY DEF CallsInv
<1>2. PICK id \in awaitable, left \in 0..CALL_TICKS :
         /\ awaitable' = awaitable \ {id}
         /\ IF QueuedReply(id) # 0 THEN queued' = RemoveAt(queued, QueuedReply(id)) /\ UNCHANGED call
                                   ELSE call' = [id |-> id, left |-> left] /\ UNCHANGED queued
  BY DEF CallAwaits
<1>3. UNCHANGED <<saidTargets, asked, notices, nextId, handled, missedReplies, linkOver>> /\ call = NoCall
  BY DEF CallAwaits
<1>4. queued \in Seq(Queueable) /\ Len(queued) \in Nat /\ id \in Numbers /\ id \in 1..MaxCalls
  BY <1>1 DEF CallsShape, Numbers
<1> DEFINE found == {i \in 1..Len(queued) : queued[i] = ReplyTo(id)}
<1>5. QueuedReply(id) = IF found # {} THEN Min(found) ELSE 0 BY DEF QueuedReply, SelectInSeq
<1>6. found \subseteq Nat /\ (found # {} => Min(found) \in found) /\ (\A i \in found : i # 0)
  <2>1. found \subseteq Nat /\ \A i \in found : i # 0 OBVIOUS
  <2>2. QED BY <2>1, LeastOf
<1>7. QueuedReply(id) # 0 => QueuedReply(id) \in 1..Len(queued) /\ queued[QueuedReply(id)] = ReplyTo(id)
  BY <1>5, <1>6
<1>8. QueuedReply(id) = 0 => ~Carries(queued, ReplyTo(id))
  <2>1. QueuedReply(id) = 0 => found = {} BY <1>5, <1>6
  <2>2. QED BY <2>1 DEF Carries
<1> HIDE DEF found
<1>9. CASE QueuedReply(id) # 0
  <2> DEFINE k == QueuedReply(id)  r == RemoveAt(queued, k)
  <2>1. k \in 1..Len(queued) /\ queued[k] = ReplyTo(id) BY <1>7, <1>9
  <2>2. r \in Seq(Queueable) /\ Without(queued, k, r) /\ queued' = r /\ UNCHANGED call
    BY <1>2, <1>4, <1>9, <2>1, WithoutIs
  <2> HIDE DEF k, r
  <2>3. Len(queued') <= Len(queued) /\ Len(queued') \in Nat BY <1>4, <2>2 DEF Without
  <2>4. \A x : (Carries(queued', x) => Carries(queued, x)) /\ (Carries(queued, x) /\ x # ReplyTo(id) => Carries(queued', x))
    BY <1>4, <2>1, <2>2, CarriesWithout
  <2>5. CallsShape' BY <1>1, <1>2, <1>3, <1>4, <2>2, <2>3 DEF CallsShape
  <2>6. TargetsInv'
    <3>1. TargetsRise(handled, queued', saidTargets)
      BY <1>1, <1>4, <2>1, <2>2, RiseWithout DEF TargetsInv
    <3>2. \A n \in (handled + 1)..saidTargets : TargetEvent(n) # ReplyTo(id)
      <4>1. \A n \in (handled + 1)..saidTargets : n \in 1..MaxTargets BY <1>1 DEF CallsShape
      <4>2. QED BY <1>4, <4>1, MessagesAre
    <3>3. QED BY <1>1, <1>3, <2>4, <3>1, <3>2 DEF TargetsInv
  <2>7. AnsweredInv'
    <3>1. \A x \in awaitable' : ReplyTo(x) # ReplyTo(id) /\ x \in awaitable
      <4>1. \A x \in awaitable' : x # id /\ x \in Numbers /\ x \in awaitable
        BY <1>1, <1>2 DEF CallsShape
      <4>2. \A x \in awaitable' : ReplyTo(x).n = x /\ ReplyTo(id).n = id BY <1>4, <4>1, MessagesAre
      <4>3. QED BY <4>1, <4>2
    <3>2. QED BY <1>1, <1>3, <2>2, <2>4, <3>1 DEF AnsweredInv
  <2>8. QED BY <2>5, <2>6, <2>7 DEF CallsInv
<1>10. CASE QueuedReply(id) = 0
  <2>1. call' = [id |-> id, left |-> left] /\ UNCHANGED queued BY <1>2, <1>10
  <2>2. CallsShape' BY <1>1, <1>2, <1>3, <1>4, <2>1 DEF CallsShape
  <2>3. TargetsInv' BY <1>1, <1>3, <2>1 DEF TargetsInv
  <2>4. AnsweredInv' BY <1>1, <1>2, <1>3, <1>8, <1>10, <2>1 DEF AnsweredInv, Carries
  <2>5. QED BY <2>2, <2>3, <2>4 DEF CallsInv
<1>11. QED BY <1>9, <1>10

LEMMA CallRunOutKeeps == ASSUME CallsInv, CallRunsOut PROVE CallsInv'
<1> USE CallsNumbers DEF NoCall
<1>1. CallsShape /\ TargetsInv /\ AnsweredInv BY DEF CallsInv
<1>2. UNCHANGED <<saidTargets, asked, awaitable, queued, notices, nextId, handled, linkOver>> /\ call.id # 0 /\ call' = NoCall
      /\ missedReplies' = IF call.id \in asked THEN missedReplies ELSE missedReplies \cup {call.id}
  BY DEF CallRunsOut
<1>3. call.id \in Numbers BY <1>1, <1>2 DEF CallsShape, Numbers
<1>4. CallsShape' BY <1>1, <1>2, <1>3 DEF CallsShape
<1>5. TargetsInv' BY <1>1, <1>2 DEF TargetsInv
<1>6. AnsweredInv'
  <2>1. 0 \notin awaitable' BY <1>4 DEF CallsShape, Numbers
  <2>2. missedReplies' # {} => notices.spent BY <1>1, <1>2 DEF AnsweredInv
  <2>3. QED BY <1>1, <1>2, <2>1, <2>2 DEF AnsweredInv
<1>7. QED BY <1>4, <1>5, <1>6 DEF CallsInv

LEMMA CallTakeKeeps == ASSUME CallsInv, CallTakes PROVE CallsInv'
<1> USE CallsNumbers DEF NoCall
<1>1. CallsShape /\ TargetsInv /\ AnsweredInv BY DEF CallsInv
<1>2. PICK m \in CallMessages :
         /\ MessageComes(m)
         /\ CASE m = ReplyTo(call.id) -> call' = NoCall /\ UNCHANGED <<queued, notices>>
              [] m = Junk -> UNCHANGED <<call, queued, notices>>
              [] OTHER -> PushBounded(m) /\ UNCHANGED call
  BY DEF CallTakes
<1>3. UNCHANGED <<awaitable, nextId, handled, missedReplies, linkOver>> /\ call.id # 0
  BY DEF CallTakes
<1>4. /\ saidTargets' \in 0..MaxTargets /\ asked' \subseteq Numbers
      /\ \/ m.kind = "target" /\ m = TargetEvent(saidTargets + 1) /\ saidTargets' = saidTargets + 1 /\ m.n = saidTargets + 1
            /\ saidTargets + 1 \in 1..MaxTargets
         \/ m.kind # "target" /\ saidTargets' = saidTargets
      /\ \/ asked' = asked /\ m.kind # "reply"
         \/ m.kind = "reply" /\ m.n \in Numbers /\ m = ReplyTo(m.n) /\ asked' = asked \ {m.n}
  BY <1>1, <1>2, ComesLeaves DEF CallsInv
<1>5. call.id \in Numbers /\ ReplyTo(call.id).kind = "reply" /\ ReplyTo(call.id).n = call.id
  <2>1. call.id \in Numbers BY <1>1, <1>3 DEF CallsShape, Numbers
  <2>2. QED BY <2>1, MessagesAre
<1>6. handled \in 0..saidTargets' /\ saidTargets \in Int /\ saidTargets <= saidTargets' /\ handled \in Int
  BY <1>1, <1>4 DEF CallsShape
<1>7. CASE m = ReplyTo(call.id)
  <2>0. m.kind = "reply" /\ m.n = call.id /\ m # Junk BY <1>5, <1>7, MessagesAre
  <2>1. call' = NoCall /\ UNCHANGED <<queued, notices, saidTargets>> /\ asked' = asked \ {call.id}
    <3>1. call' = NoCall /\ UNCHANGED <<queued, notices>>
      <4> HIDE DEF NoCall
      <4>1. QED BY <1>2, <1>7, <2>0
    <3>2. QED BY <1>4, <2>0, <3>1
  <2>2. CallsShape' BY <1>1, <1>3, <1>4, <2>1 DEF CallsShape
  <2>3. TargetsInv' BY <1>1, <1>3, <2>1 DEF TargetsInv
  <2>4. ASSUME NEW id \in awaitable PROVE id \in asked' \/ Carries(queued, ReplyTo(id)) \/ notices.spent
    <3>1. id # call.id BY <1>1 DEF AnsweredInv
    <3>2. QED BY <1>1, <2>1, <2>4, <3>1 DEF AnsweredInv
  <2>5. AnsweredInv'
    <3>1. 0 \notin awaitable' BY <2>2 DEF CallsShape, Numbers
    <3>2. QED BY <1>1, <1>3, <2>1, <2>4, <3>1 DEF AnsweredInv
  <2>6. QED BY <2>2, <2>3, <2>5 DEF CallsInv
<1>8. CASE m = Junk
  <2>1. m # ReplyTo(call.id) /\ m.kind = "junk" BY <1>5, <1>8, MessagesAre
  <2>2. UNCHANGED <<call, queued, notices, saidTargets, asked>> BY <1>2, <1>4, <1>8, <2>1
  <2>3. CallsShape' /\ TargetsInv' /\ AnsweredInv'
    BY <1>1, <1>3, <2>2 DEF CallsShape, TargetsInv, AnsweredInv
  <2>4. QED BY <2>3 DEF CallsInv
<1>9. CASE m # ReplyTo(call.id) /\ m # Junk
  <2>1. PushBounded(m) /\ UNCHANGED call /\ m \in Queueable BY <1>2, <1>9 DEF Queueable
  <2> DEFINE top == saidTargets'
  <2>2. top \in Int /\ saidTargets <= top /\ (m.kind = "target" => m = TargetEvent(m.n) /\ saidTargets < m.n /\ m.n <= top)
    BY <1>4, <1>6
  <2> HIDE DEF top
  <2>3. /\ queued' \in Seq(Queueable) /\ Len(queued') <= 2 * MAX_QUEUED_EVENTS
        /\ notices' \in [lost : SUBSET Nat, spent : BOOLEAN, target : BOOLEAN]
        /\ TargetsRise(handled, queued', top)
        /\ \A n \in (handled + 1)..saidTargets : Carries(queued', TargetEvent(n)) \/ n \in notices'.lost
        /\ Carries(queued', m)
        /\ notices'.lost # {} => notices'.target
        /\ notices.spent => notices'.spent
        /\ \A id \in Numbers : Carries(queued, ReplyTo(id)) => Carries(queued', ReplyTo(id)) \/ notices'.spent
        /\ \A x : Carries(queued', x) => Carries(queued, x) \/ x = m
    BY <2>1, <2>2, PushKeeps
  <2>4. CallsShape' BY <1>1, <1>3, <1>4, <1>6, <2>1, <2>3 DEF CallsShape
  <2>5. TargetsInv'
    <3>1. ASSUME NEW n \in (handled + 1)..saidTargets' PROVE Carries(queued', TargetEvent(n)) \/ n \in notices'.lost
      <4>1. n \in (handled + 1)..saidTargets \/ (m = TargetEvent(n)) BY <1>4, <1>6, <3>1
      <4>2. QED BY <2>3, <4>1
    <3>2. QED BY <1>3, <2>3, <3>1 DEF TargetsInv, top
  <2>6. AnsweredInv'
    <3>1. ASSUME NEW id \in awaitable PROVE id \in asked' \/ Carries(queued', ReplyTo(id)) \/ notices'.spent
      <4>1. id \in Numbers BY <1>1 DEF CallsShape
      <4>2. id \in asked \/ Carries(queued, ReplyTo(id)) \/ notices.spent BY <1>1 DEF AnsweredInv
      <4>3. id \in asked => id \in asked' \/ m = ReplyTo(id) BY <1>4
      <4>4. QED BY <2>3, <4>1, <4>2, <4>3
    <3>2. ~Carries(queued', ReplyTo(call.id)) BY <1>1, <1>3, <1>9, <2>3 DEF AnsweredInv
    <3>3. call.id \in asked' \/ notices'.spent
      <4>1. call.id \in asked \/ notices.spent BY <1>1, <1>3 DEF AnsweredInv
      <4>2. call.id \in asked => call.id \in asked' BY <1>4, <1>5, <1>9
      <4>3. QED BY <2>3, <4>1, <4>2
    <3>4. missedReplies # {} => notices'.spent BY <1>1, <2>3 DEF AnsweredInv
    <3>5. call.id \notin awaitable BY <1>1 DEF AnsweredInv
    <3>6. QED BY <1>3, <2>1, <3>1, <3>2, <3>3, <3>4, <3>5 DEF AnsweredInv
  <2>7. QED BY <2>4, <2>5, <2>6 DEF CallsInv
<1>10. QED BY <1>7, <1>8, <1>9

LEMMA CallPollKeeps == ASSUME CallsInv, CallPolls PROVE CallsInv'
<1> USE CallsNumbers DEF NoCall
<1>1. CallsShape /\ TargetsInv /\ AnsweredInv BY DEF CallsInv
<1>2. PICK m \in CallMessages :
         /\ IF queued # <<>> THEN m = Head(queued) /\ queued' = Tail(queued) /\ UNCHANGED <<saidTargets, asked>>
                             ELSE MessageComes(m) /\ UNCHANGED queued
         /\ handled' = IF m.kind = "target" THEN m.n ELSE handled
         /\ awaitable' = IF m.kind = "reply" THEN awaitable \ {m.n} ELSE awaitable
  BY DEF CallPolls
<1>3. UNCHANGED <<call, notices, nextId, missedReplies, linkOver>> /\ call.id = 0 BY DEF CallPolls
<1>4. /\ queued \in Seq(Queueable) /\ saidTargets \in Int /\ handled \in Int /\ handled >= 0 /\ handled <= saidTargets
      /\ saidTargets <= MaxTargets
  BY <1>1 DEF CallsShape
<1>5. awaitable' \subseteq Numbers BY <1>1, <1>2 DEF CallsShape
<1>6. CASE queued = <<>>
  <2>1. MessageComes(m) /\ UNCHANGED queued BY <1>2, <1>6
  <2>2. /\ saidTargets' \in 0..MaxTargets /\ asked' \subseteq Numbers
        /\ \/ m.kind = "target" /\ m = TargetEvent(saidTargets + 1) /\ saidTargets' = saidTargets + 1 /\ m.n = saidTargets + 1
              /\ saidTargets + 1 \in 1..MaxTargets
           \/ m.kind # "target" /\ saidTargets' = saidTargets
        /\ \/ asked' = asked /\ m.kind # "reply"
           \/ m.kind = "reply" /\ m.n \in Numbers /\ m = ReplyTo(m.n) /\ asked' = asked \ {m.n}
    BY <1>1, <2>1, ComesLeaves DEF CallsInv
  <2>3. handled' \in 0..saidTargets' /\ ((handled' = handled /\ saidTargets' = saidTargets) \/ handled' = saidTargets')
    BY <1>2, <1>4, <2>2
  <2>4. CallsShape' BY <1>1, <1>3, <1>5, <2>1, <2>2, <2>3 DEF CallsShape
  <2>5. TargetsInv'
    <3>1. \A low, high : TargetsRise(low, queued, high) BY <1>6 DEF TargetsRise
    <3>2. ASSUME NEW n \in (handled' + 1)..saidTargets' PROVE Carries(queued, TargetEvent(n)) \/ n \in notices.lost
      <4>1. n \in (handled + 1)..saidTargets
        <5>1. saidTargets' \in Int /\ handled' \in Int BY <1>4, <2>2, <2>3
        <5>2. handled' # saidTargets'
          <6>1. \A low, high \in Int : n \in (low + 1)..high => low # high OBVIOUS
          <6>2. QED BY <3>2, <5>1, <6>1
        <5>3. QED BY <2>3, <3>2, <5>2
      <4>2. QED BY <1>1, <4>1 DEF TargetsInv
    <3>3. QED BY <1>1, <1>3, <2>1, <3>1, <3>2 DEF TargetsInv
  <2>6. AnsweredInv'
    <3>1. ASSUME NEW id \in awaitable' PROVE id \in awaitable /\ (id \in asked => id \in asked')
      BY <1>2, <2>2, <3>1
    <3>2. QED BY <1>1, <1>3, <2>1, <3>1 DEF AnsweredInv
  <2>7. QED BY <2>4, <2>5, <2>6 DEF CallsInv
<1>7. CASE queued # <<>>
  <2>1. m = queued[1] /\ queued' = Tail(queued) /\ UNCHANGED <<saidTargets, asked>>
        /\ queued' \in Seq(Queueable) /\ Without(queued, 1, queued') /\ 1 \in 1..Len(queued)
    BY <1>2, <1>4, <1>7, TailIsWithout
  <2>2. Len(queued') <= Len(queued) /\ Len(queued') \in Nat /\ Len(queued) \in Nat
    BY <1>4, <2>1 DEF Without
  <2>3. \A x : (Carries(queued', x) => Carries(queued, x)) /\ (Carries(queued, x) /\ x # m => Carries(queued', x))
    BY <1>4, <2>1, CarriesWithout
  <2>4. TargetsRise(handled, queued, saidTargets) BY <1>1 DEF TargetsInv
  <2>5. m \in Queueable BY <1>4, <2>1
  <2>6. CASE m.kind = "target"
    <3>1. handled' = m.n /\ UNCHANGED awaitable BY <1>2, <2>6
    <3>2. m.n \in Int /\ handled < m.n /\ m.n <= saidTargets /\ m = TargetEvent(m.n)
      BY <2>1, <2>4, <2>5, <2>6, MessagesAre DEF TargetsRise
    <3>3. CallsShape' BY <1>1, <1>3, <1>4, <2>1, <2>2, <3>1, <3>2 DEF CallsShape
    <3>4. TargetsRise(handled', queued', saidTargets)
      BY <1>4, <2>1, <2>4, <2>6, <3>1, RiseWithoutFirst
    <3>5. ASSUME NEW n \in (handled' + 1)..saidTargets PROVE Carries(queued', TargetEvent(n)) \/ n \in notices.lost
      <4>1. n \in (handled + 1)..saidTargets /\ n # m.n /\ n \in 1..MaxTargets
        BY <1>4, <3>1, <3>2, <3>5
      <4>2. TargetEvent(n) # m BY <4>1, MessagesAre
      <4>3. QED BY <1>1, <2>3, <4>1, <4>2 DEF TargetsInv
    <3>6. TargetsInv' BY <1>1, <1>3, <2>1, <3>4, <3>5 DEF TargetsInv
    <3>7. \A id \in awaitable : ReplyTo(id) # m
      <4>1. \A id \in awaitable : id \in Numbers BY <1>1 DEF CallsShape
      <4>2. QED BY <2>6, <4>1, MessagesAre
    <3>8. AnsweredInv' BY <1>1, <1>3, <2>1, <2>3, <3>1, <3>7 DEF AnsweredInv
    <3>9. QED BY <3>3, <3>6, <3>8 DEF CallsInv
  <2>7. CASE m.kind # "target"
    <3>1. handled' = handled BY <1>2, <2>7
    <3>2. CallsShape' BY <1>1, <1>3, <1>5, <2>1, <2>2, <3>1 DEF CallsShape
    <3>3. TargetsRise(handled, queued', saidTargets) BY <1>4, <2>1, <2>4, RiseWithout
    <3>4. \A n \in (handled + 1)..saidTargets : TargetEvent(n) # m
      <4>1. \A n \in (handled + 1)..saidTargets : n \in 1..MaxTargets BY <1>4
      <4>2. QED BY <2>7, <4>1, MessagesAre
    <3>5. TargetsInv' BY <1>1, <1>3, <2>1, <2>3, <3>1, <3>3, <3>4 DEF TargetsInv
    <3>6. \A id \in awaitable' : id \in awaitable /\ ReplyTo(id) # m
      <4>1. \A id \in awaitable' : id \in awaitable /\ id \in Numbers /\ (m.kind = "reply" => id # m.n)
        BY <1>1, <1>2 DEF CallsShape
      <4>2. QED BY <4>1, MessagesAre
    <3>7. AnsweredInv' BY <1>1, <1>3, <2>1, <2>3, <3>6 DEF AnsweredInv
    <3>8. QED BY <3>2, <3>5, <3>7 DEF CallsInv
  <2>8. QED BY <2>6, <2>7
<1>8. QED BY <1>6, <1>7

LEMMA CallsSteps == CallsInv /\ [CallsNext]_callsVars => CallsInv'
<1> SUFFICES ASSUME CallsInv, [CallsNext]_callsVars PROVE CallsInv' OBVIOUS
<1>0. CallsShape /\ TargetsInv /\ AnsweredInv BY DEF CallsInv
<1>1. CASE CallTimePasses
  <2>1. UNCHANGED <<saidTargets, asked, awaitable, queued, notices, nextId, handled, missedReplies, linkOver>>
        /\ call.left > 0 /\ call' = [call EXCEPT !.left = @ - 1]
    BY <1>1 DEF CallTimePasses
  <2>2. call' \in [id : 0..MaxCalls, left : 0..CALL_TICKS] /\ call'.id = call.id
    BY <1>0, <2>1, CallsNumbers DEF CallsShape
  <2>3. CallsShape' /\ TargetsInv' /\ AnsweredInv'
    BY <1>0, <2>1, <2>2 DEF CallsShape, TargetsInv, AnsweredInv
  <2>4. QED BY <2>3 DEF CallsInv
<1>2. CASE ConnectionCloses
  <2>1. CallsShape' /\ TargetsInv' /\ AnsweredInv'
    BY <1>0, <1>2 DEF ConnectionCloses, CallsShape, TargetsInv, AnsweredInv
  <2>2. QED BY <2>1 DEF CallsInv
<1>3. CASE UNCHANGED callsVars
  <2>1. CallsShape' /\ TargetsInv' /\ AnsweredInv'
    BY <1>0, <1>3 DEF callsVars, CallsShape, TargetsInv, AnsweredInv
  <2>2. QED BY <2>1 DEF CallsInv
<1>4. QED
  BY <1>1, <1>2, <1>3, CallSendKeeps, CallAwaitKeeps, CallRunOutKeeps, CallTakeKeeps, CallPollKeeps
  DEF CallsNext, CallEnds

LEMMA CallsAreInOrder == ASSUME CallsInv PROVE CallsAreSound
<1> USE CallsNumbers
<1>1. CallsShape /\ TargetsInv /\ AnsweredInv BY DEF CallsInv
<1>2. queued \in Seq(Queueable) /\ Len(queued) \in Nat /\ DOMAIN queued = 1..Len(queued)
  BY <1>1 DEF CallsShape
<1>3. CallsTypeOK
  <2>1. queued \in BoundedSeq(CallMessages \ {Junk}, 2 * MAX_QUEUED_EVENTS)
    BY <1>1, <1>2, BoundedIs DEF CallsShape, Queueable
  <2>2. handled \in 0..MaxTargets BY <1>1 DEF CallsShape
  <2>3. QED BY <1>1, <2>1, <2>2 DEF CallsShape, CallsTypeOK, Numbers
<1>4. TargetsComeInOrder
  <2>1. \A i \in ParkedAt : queued[i].n > handled
    <3>1. \A i \in 1..Len(queued) : queued[i].n \in Int BY <1>2, MessagesAre
    <3>2. QED BY <1>1, <1>2, <3>1 DEF ParkedAt, TargetsInv, TargetsRise, CallsShape
  <2>2. \A i, j \in ParkedAt : i < j => queued[i].n < queued[j].n
    BY <1>1, <1>2 DEF ParkedAt, TargetsInv, TargetsRise
  <2>3. ASSUME NEW n \in (handled + 1)..saidTargets PROVE n \in Parked \cup notices.lost
    <3>1. n \in 1..MaxTargets BY <1>1 DEF CallsShape
    <3>2. CASE Carries(queued, TargetEvent(n))
      <4>1. PICK i \in 1..Len(queued) : queued[i] = TargetEvent(n) BY <3>2 DEF Carries
      <4>2. i \in ParkedAt /\ queued[i].n = n BY <1>2, <3>1, <4>1, MessagesAre DEF ParkedAt
      <4>3. QED BY <4>2 DEF Parked
    <3>3. QED BY <1>1, <3>2 DEF TargetsInv
  <2>4. QED BY <1>1, <2>1, <2>2, <2>3 DEF TargetsComeInOrder, TargetsInv
<1>5. RepliesAreFound
  <2>1. \A m : m \in ToSet(queued) => Carries(queued, m) BY <1>2 DEF ToSet, Carries
  <2>2. QED BY <1>1, <2>1 DEF RepliesAreFound, AnsweredInv
<1>6. QED BY <1>3, <1>4, <1>5 DEF CallsAreSound

-----------------------------------------------------------------------------
\* A DevTools connection, for any room, any number of messages and any caps: messages come to
\* the session in order and whole or the connection is over (cdp/ws.rs), target events once
\* each and in order, and no reply that was kept is waited for in vain (cdp/mod.rs).
THEOREM ConnectionHolds == ChromiumSpec => []SoundConnection
<1>1. ChromiumInit => SocketInv /\ CallsInv BY SocketStarts, CallsStart DEF ChromiumInit
<1>2. SocketInv /\ CallsInv /\ [ChromiumNext]_chromiumVars => SocketInv' /\ CallsInv'
  <2> SUFFICES ASSUME SocketInv, CallsInv, [ChromiumNext]_chromiumVars PROVE SocketInv' /\ CallsInv'
    OBVIOUS
  <2>1. [SocketNext]_socketVars /\ [CallsNext]_callsVars BY DEF ChromiumNext, Moves, chromiumVars
  <2>2. SocketInv' BY <2>1, SocketSteps
  <2>3. CallsInv' BY <2>1, CallsSteps
  <2>4. QED BY <2>2, <2>3
<1>3. SocketInv /\ CallsInv => SoundConnection
  BY SocketIsInOrder, CallsAreInOrder DEF SoundConnection
<1>4. QED BY <1>1, <1>2, <1>3, PTL DEF ChromiumSpec

-----------------------------------------------------------------------------
(* The clock of a session.                                                 *)

Changes == [at : Int, mult : MoveRates]
Waiting == {w \in SUBSET Changes : \A x, y \in w : x = y}
Segments == [fake0 : Int, real0 : Int, mult : MoveRates, acc : Int, dur0 : Int]
Panels == [seg : Segments, scheduled : Waiting]
Origins == [fake : Int, real : Int, mult : MoveRates, waiting : Waiting]
WholeMoves == [kind : {"set"}, origin : Origins, offset : Int]
RateChanges == [kind : {"schedule"}, next : Changes, offset : Int]
Shims == [fake : Int, real : Int, M : MoveRates, D : Nat \ {0}, waiting : Waiting,
          base : Int, anchor : Int, read : Int]

\* What a page measures at the real reading q.
PerfAt(s, q) == s.base + (q - s.anchor) * s.D

\* The panel's clock: a change at most is waiting, and the elapsed time is what was lived.
PanelInv ==
    /\ axis \in 0..LastInstant /\ {lived, known, offset} \subseteq Int
    /\ panel \in Panels
    /\ Elapsed = lived

\* The page's: what it handed out it has measured, by its last reading or its last anchor.
PageInv ==
    /\ slept \in Int /\ perfRead \in Int
    /\ shim \in Shims /\ onTheWay \in Seq(WholeMoves \cup RateChanges)
    /\ shim.anchor <= Monotonic /\ shim.read <= Monotonic
    /\ perfRead <= PerfAt(shim, Most(shim.anchor, shim.read))

ClockInv == PanelInv /\ PageInv

LEMMA Longer == ASSUME NEW a \in Int, NEW b \in Int, NEW m \in Nat, a <= b PROVE a * m <= b * m
<1>1. (b - a) * m >= 0 OBVIOUS
<1>2. (b - a) * m = b * m - a * m OBVIOUS
<1>3. a * m \in Int /\ b * m \in Int OBVIOUS
<1>4. QED BY <1>1, <1>2, <1>3

LEMMA ClockNumbers ==
    /\ MoveRates \subseteq Nat /\ MoveTargets \subseteq Nat /\ WALL_MAX \in Nat
    /\ (\A to \in MoveTargets : to <= WALL_MAX)
    /\ RATE_CHANGE_DELAY \in Nat /\ Corrections \subseteq Int /\ LastInstant \in Nat
  BY CdpClockAssumption

LEMMA WaitingAre ==
    /\ {} \in Waiting /\ (\A c \in Changes : {c} \in Waiting)
    /\ \A w \in Waiting : \A c \in w : c \in Changes /\ c.at \in Int /\ c.mult \in Nat
    /\ \A w \in Waiting : \A v \in SUBSET w : v \in Waiting
  BY ClockNumbers DEF Waiting, Changes

-----------------------------------------------------------------------------
(* A segment of the panel's clock.                                         *)

\* The wall stays in its range and goes on, and a change starts it where it stood.
LEMMA WallGoesOn ==
  ASSUME NEW seg \in Segments, NEW x \in Int, NEW y \in Int, x <= y
  PROVE  /\ WallAt(seg, x) \in Int /\ 0 <= WallAt(seg, x) /\ WallAt(seg, x) <= WALL_MAX
         /\ WallAt(seg, x) <= WallAt(seg, y)
<1> DEFINE a == (x - seg.real0) * seg.mult  b == (y - seg.real0) * seg.mult
<1>1. seg.real0 \in Int /\ seg.mult \in Nat /\ seg.fake0 \in Int /\ WALL_MAX \in Nat
  BY ClockNumbers DEF Segments
<1>2. a \in Int /\ b \in Int BY <1>1
<1>3. a <= b BY <1>1, Longer
<1> HIDE DEF a, b
<1>4. /\ Most(0, Least(seg.fake0 + a, WALL_MAX)) \in Int
      /\ 0 <= Most(0, Least(seg.fake0 + a, WALL_MAX)) /\ Most(0, Least(seg.fake0 + a, WALL_MAX)) <= WALL_MAX
      /\ Most(0, Least(seg.fake0 + a, WALL_MAX)) <= Most(0, Least(seg.fake0 + b, WALL_MAX))
  BY <1>1, <1>2, <1>3 DEF Most, Least
<1>5. QED BY <1>4 DEF WallAt, a, b

LEMMA ElapsedGoesOn ==
  ASSUME NEW seg \in Segments, NEW x \in Int
  PROVE  /\ ElapsedAt(seg, x) \in Int
         /\ ElapsedAt(seg, x + 1) = ElapsedAt(seg, x) + seg.mult
<1>1. seg.dur0 \in Int /\ seg.mult \in Nat /\ seg.acc \in Int BY ClockNumbers DEF Segments
<1>2. (x + 1 - seg.dur0) * seg.mult = (x - seg.dur0) * seg.mult + seg.mult BY <1>1
<1>3. (x - seg.dur0) * seg.mult \in Int BY <1>1
<1>4. QED BY <1>1, <1>2, <1>3 DEF ElapsedAt

LEMMA ChangeGoesOn ==
  ASSUME NEW seg \in Segments, NEW next \in Changes
  PROVE  /\ ContinuedAt(seg, next) \in Segments
         /\ WallAt(ContinuedAt(seg, next), next.at) = WallAt(seg, next.at)
         /\ ElapsedAt(ContinuedAt(seg, next), next.at) = ElapsedAt(seg, next.at)
<1> DEFINE w == WallAt(seg, next.at)  e == ElapsedAt(seg, next.at)
<1>1. next.at \in Int /\ next.mult \in Nat BY ClockNumbers DEF Changes
<1>2. w \in Int /\ 0 <= w /\ w <= WALL_MAX /\ e \in Int /\ WALL_MAX \in Int
  BY <1>1, WallGoesOn, ElapsedGoesOn, ClockNumbers
<1>3. ContinuedAt(seg, next) = [fake0 |-> w, real0 |-> next.at, mult |-> next.mult, acc |-> e, dur0 |-> next.at]
  BY DEF ContinuedAt
<1> HIDE DEF w, e
<1>4. (next.at - next.at) * next.mult = 0 BY <1>1
<1>5. WallAt(ContinuedAt(seg, next), next.at) = w BY <1>2, <1>3, <1>4 DEF WallAt, Most, Least
<1>6. ElapsedAt(ContinuedAt(seg, next), next.at) = e BY <1>2, <1>3, <1>4 DEF ElapsedAt
<1>7. ContinuedAt(seg, next) \in Segments BY <1>1, <1>2, <1>3 DEF Segments, Changes
<1>8. QED BY <1>5, <1>6, <1>7 DEF w, e

\* The segment p runs on at t.
SegmentOf(p, t) ==
    LET due == {next \in p.scheduled : t >= next.at}
    IN  IF due = {} THEN p.seg ELSE ContinuedAt(p.seg, CHOOSE next \in due : TRUE)

LEMMA SegmentIs ==
  ASSUME NEW p \in Panels, NEW t \in Int
  PROVE  /\ SegmentOf(p, t) \in Segments
         /\ \/ (\A next \in p.scheduled : t < next.at) /\ SegmentOf(p, t) = p.seg
            \/ \E next \in p.scheduled :
                 p.scheduled = {next} /\ t >= next.at /\ SegmentOf(p, t) = ContinuedAt(p.seg, next)
<1> DEFINE due == {next \in p.scheduled : t >= next.at}  one == CHOOSE next \in due : TRUE
<1>1. p.seg \in Segments /\ p.scheduled \in Waiting BY DEF Panels
<1>2. \A next \in p.scheduled : next.at \in Int /\ next \in Changes BY <1>1, WaitingAre
<1>3. SegmentOf(p, t) = IF due = {} THEN p.seg ELSE ContinuedAt(p.seg, one) BY DEF SegmentOf
<1>4. due # {} => one \in p.scheduled /\ t >= one.at OBVIOUS
<1>5. due = {} => \A next \in p.scheduled : t < next.at BY <1>2
<1> HIDE DEF due, one
<1>6. CASE due = {} BY <1>1, <1>3, <1>5, <1>6
<1>7. CASE due # {}
  <2>1. SegmentOf(p, t) = ContinuedAt(p.seg, one) /\ one \in p.scheduled /\ t >= one.at
    BY <1>3, <1>4, <1>7
  <2>2. p.scheduled = {one} BY <1>1, <2>1 DEF Waiting
  <2>3. ContinuedAt(p.seg, one) \in Segments BY <1>1, <1>2, <2>1, ChangeGoesOn
  <2>4. QED BY <2>1, <2>2, <2>3
<1>8. QED BY <1>6, <1>7

\* Where the clock p stands at t, and one instant later.
LEMMA SegmentGoesOn ==
  ASSUME NEW p \in Panels, NEW t \in Int
  PROVE  /\ WallAt(SegmentOf(p, t), t) <= WallAt(SegmentOf(p, t + 1), t + 1)
         /\ ElapsedAt(SegmentOf(p, t + 1), t + 1) = ElapsedAt(SegmentOf(p, t), t) + SegmentOf(p, t).mult
<1> DEFINE now == SegmentOf(p, t)  then == SegmentOf(p, t + 1)
<1>1. t + 1 \in Int /\ t <= t + 1 OBVIOUS
<1>2. now \in Segments /\ p.seg \in Segments /\ then \in Segments BY <1>1, SegmentIs DEF Panels
<1>3. \A next \in p.scheduled : next.at \in Int /\ next \in Changes BY WaitingAre DEF Panels
<1>4. CASE now = then BY <1>1, <1>2, <1>4, WallGoesOn, ElapsedGoesOn
<1>5. CASE now # then
  <2>1. PICK next \in p.scheduled : t < next.at /\ t + 1 >= next.at /\ now = p.seg /\ then = ContinuedAt(p.seg, next)
    <3>1. \/ (\A next \in p.scheduled : t < next.at) /\ now = p.seg
          \/ \E next \in p.scheduled : p.scheduled = {next} /\ t >= next.at /\ now = ContinuedAt(p.seg, next)
      BY SegmentIs
    <3>2. \/ (\A next \in p.scheduled : t + 1 < next.at) /\ then = p.seg
          \/ \E next \in p.scheduled : p.scheduled = {next} /\ t + 1 >= next.at /\ then = ContinuedAt(p.seg, next)
      BY <1>1, SegmentIs
    <3> HIDE DEF now, then
    <3>3. CASE (\A next \in p.scheduled : t < next.at) /\ now = p.seg BY <1>5, <3>2, <3>3
    <3>4. CASE \E next \in p.scheduled : p.scheduled = {next} /\ t >= next.at /\ now = ContinuedAt(p.seg, next)
      <4>1. PICK next \in p.scheduled : p.scheduled = {next} /\ t >= next.at /\ now = ContinuedAt(p.seg, next)
        BY <3>4
      <4>2. t + 1 >= next.at /\ ~(t + 1 < next.at) BY <1>3, <4>1
      <4>3. then = ContinuedAt(p.seg, next) BY <3>2, <4>1, <4>2
      <4>4. QED BY <1>5, <4>1, <4>3
    <3>5. QED BY <3>1, <3>3, <3>4
  <2>2. next.at = t + 1 /\ next \in Changes BY <1>3, <2>1
  <2>3. WallAt(then, t + 1) = WallAt(p.seg, t + 1) /\ ElapsedAt(then, t + 1) = ElapsedAt(p.seg, t + 1)
    BY <1>2, <2>1, <2>2, ChangeGoesOn
  <2> HIDE DEF now, then
  <2>4. WallAt(p.seg, t) <= WallAt(p.seg, t + 1) /\ ElapsedAt(p.seg, t + 1) = ElapsedAt(p.seg, t) + p.seg.mult
    BY <1>1, <1>2, WallGoesOn, ElapsedGoesOn
  <2>5. WallAt(now, t) <= WallAt(then, t + 1) /\ ElapsedAt(then, t + 1) = ElapsedAt(now, t) + now.mult
    BY <2>1, <2>3, <2>4
  <2>6. QED BY <2>5 DEF now, then
<1>6. QED BY <1>4, <1>5

\* A change scheduled now, for now or later, moves neither.
LEMMA SegmentScheduled ==
  ASSUME NEW seg \in Segments, NEW next \in Changes, NEW t \in Int, next.at >= t, NEW p, p = [seg |-> seg, scheduled |-> {next}]
  PROVE  /\ p \in Panels
         /\ WallAt(SegmentOf(p, t), t) = WallAt(seg, t) /\ ElapsedAt(SegmentOf(p, t), t) = ElapsedAt(seg, t)
<1>1. p \in Panels /\ p.seg = seg /\ p.scheduled = {next} BY WaitingAre DEF Panels
<1>2. next.at \in Int BY DEF Changes
<1>3. SegmentOf(p, t) = seg \/ (t >= next.at /\ SegmentOf(p, t) = ContinuedAt(seg, next))
  BY <1>1, SegmentIs
<1>4. CASE SegmentOf(p, t) = seg BY <1>1, <1>4
<1>5. CASE t >= next.at /\ SegmentOf(p, t) = ContinuedAt(seg, next)
  <2>1. t = next.at BY <1>2, <1>5
  <2>2. WallAt(SegmentOf(p, t), next.at) = WallAt(seg, next.at) /\ ElapsedAt(SegmentOf(p, t), next.at) = ElapsedAt(seg, next.at)
    BY <1>5, ChangeGoesOn
  <2>3. QED BY <1>1, <2>1, <2>2
<1>6. QED BY <1>3, <1>4, <1>5

LEMMA PanelIs ==
  ASSUME PanelInv
  PROVE  /\ panel \in Panels /\ axis \in Int
         /\ SegmentNow = SegmentOf(panel, axis) /\ SegmentNow \in Segments
         /\ FakeWall = WallAt(SegmentOf(panel, axis), axis) /\ Elapsed = ElapsedAt(SegmentOf(panel, axis), axis)
<1>1. panel \in Panels /\ axis \in Int BY ClockNumbers DEF PanelInv
<1>2. SegmentNow = SegmentOf(panel, axis) BY DEF SegmentNow, SegmentOf, Due
<1>3. QED BY <1>1, <1>2, SegmentIs DEF FakeWall, Elapsed

LEMMA PanelIsThen ==
    /\ SegmentNow' = SegmentOf(panel', axis')
    /\ FakeWall' = WallAt(SegmentOf(panel', axis'), axis') /\ Elapsed' = ElapsedAt(SegmentOf(panel', axis'), axis')
<1>1. SegmentNow' = SegmentOf(panel', axis') BY DEF SegmentNow, SegmentOf, Due
<1>2. QED BY <1>1 DEF FakeWall, Elapsed

\* What every step does to the panel's clock, and by which.
LEMMA PanelSteps ==
  ASSUME PanelInv, [ClockNext]_clockVars
  PROVE  PanelInv' /\ WallIsMovedByJumps
<1> USE ClockNumbers
<1> DEFINE w == WallAt(SegmentOf(panel, axis), axis)  now == SegmentOf(panel, axis)
<1>1. /\ panel \in Panels /\ axis \in Int
      /\ SegmentNow = now /\ now \in Segments /\ FakeWall = w /\ Elapsed = ElapsedAt(now, axis)
      /\ lived \in Int /\ known \in Int /\ offset \in Int /\ Elapsed = lived /\ axis \in 0..LastInstant
  BY PanelIs DEF PanelInv
<1>2. w \in Int /\ ElapsedAt(now, axis) \in Int BY <1>1, WallGoesOn, ElapsedGoesOn
<1>3. /\ SegmentNow' = SegmentOf(panel', axis')
      /\ FakeWall' = WallAt(SegmentOf(panel', axis'), axis') /\ Elapsed' = ElapsedAt(SegmentOf(panel', axis'), axis')
  BY PanelIsThen
<1>4. now.mult \in Nat /\ panel.seg \in Segments /\ panel.scheduled \in Waiting
      /\ panel = [seg |-> panel.seg, scheduled |-> panel.scheduled]
  BY <1>1 DEF Segments, Panels
<1> HIDE DEF w, now
\* With the panel's clock, its axis and its numbers left alone.
<1>5. ASSUME panel' = panel, axis' = axis, lived' = lived, known' \in Int, offset' \in Int
      PROVE  PanelInv' /\ WallIsMovedByJumps
  <2>1. FakeWall' = w /\ Elapsed' = Elapsed BY <1>1, <1>3, <1>5 DEF w, now
  <2>2. WallIsMovedByJumps BY <1>1, <1>2, <2>1 DEF WallIsMovedByJumps
  <2>3. PanelInv' BY <1>1, <1>4, <1>5, <2>1 DEF PanelInv
  <2>4. QED BY <2>2, <2>3
<1>6. CASE Passes
  <2>1. axis' = axis + 1 /\ lived' = lived + SegmentNow.mult /\ panel' = panel /\ known' = known /\ offset' = offset
    BY <1>6 DEF Passes
  <2>2. WallAt(SegmentOf(panel, axis), axis) <= WallAt(SegmentOf(panel, axis + 1), axis + 1)
        /\ ElapsedAt(SegmentOf(panel, axis + 1), axis + 1) = ElapsedAt(SegmentOf(panel, axis), axis) + SegmentOf(panel, axis).mult
        /\ SegmentOf(panel, axis + 1) \in Segments
    BY <1>1, SegmentGoesOn, SegmentIs
  <2>3. WallAt(SegmentOf(panel, axis + 1), axis + 1) \in Int BY <1>1, <2>2, WallGoesOn
  <2>4. w <= FakeWall' /\ FakeWall' \in Int /\ Elapsed' = Elapsed + now.mult
    BY <1>1, <1>3, <2>1, <2>2, <2>3 DEF w, now
  <2>5. axis' # axis /\ axis' \in 0..LastInstant /\ lived' \in Int
    <3>1. axis < LastInstant /\ LastInstant \in Nat BY <1>6 DEF Passes
    <3>2. QED BY <1>1, <1>4, <2>1, <3>1
  <2>6. ~(FakeWall' < FakeWall) BY <1>1, <1>2, <2>4
  <2>7. WallIsMovedByJumps BY <2>5, <2>6 DEF WallIsMovedByJumps
  <2>8. PanelInv' BY <1>1, <1>4, <2>1, <2>4, <2>5 DEF PanelInv
  <2>9. QED BY <2>7, <2>8
<1>7. CASE \E m \in MoveRates : SetsRate(m)
  <2>1. PICK m \in MoveRates : SetsRate(m) BY <1>7
  <2> DEFINE next == [at |-> Instant, mult |-> m]
  <2>2. Instant \in Int /\ Instant >= axis
    <3> DEFINE waiting == {next0 \in panel.scheduled : axis < next0.at}
    <3>1. \A next0 \in waiting : next0.at \in Int /\ next0.at >= axis BY <1>1, <1>4, WaitingAre
    <3>2. waiting # {} => (CHOOSE x \in waiting : TRUE) \in waiting OBVIOUS
    <3>3. Instant = IF waiting = {} THEN axis + RATE_CHANGE_DELAY ELSE (CHOOSE x \in waiting : TRUE).at
      BY DEF Instant
    <3> HIDE DEF waiting
    <3>4. QED BY <1>1, <3>1, <3>2, <3>3
  <2>3. next \in Changes /\ next.at >= axis BY <2>2 DEF Changes
  <2> HIDE DEF next
  <2>4. axis' = axis /\ lived' = lived /\ offset' = offset /\ known' = known
        /\ panel' = [PanelSettled EXCEPT !.scheduled = {next}]
    BY <2>1 DEF SetsRate, next
  <2>5. panel' = [seg |-> now, scheduled |-> {next}] BY <1>1, <2>4 DEF PanelSettled
  <2>6. panel' \in Panels /\ WallAt(SegmentOf(panel', axis), axis) = w
        /\ ElapsedAt(SegmentOf(panel', axis), axis) = ElapsedAt(now, axis)
    <3>1. PICK p : p = panel' OBVIOUS
    <3>2. p \in Panels /\ WallAt(SegmentOf(p, axis), axis) = WallAt(now, axis)
          /\ ElapsedAt(SegmentOf(p, axis), axis) = ElapsedAt(now, axis)
      <4>1. axis \in Int /\ now \in Segments /\ next \in Changes /\ next.at >= axis BY <1>1, <2>3
      <4>2. p = [seg |-> now, scheduled |-> {next}] BY <2>5, <3>1
      <4>3. QED BY <4>1, <4>2, SegmentScheduled
    <3>3. w = WallAt(now, axis) BY DEF w, now
    <3>4. QED BY <3>1, <3>2, <3>3
  <2>7. FakeWall' = w /\ Elapsed' = Elapsed BY <1>1, <1>3, <2>4, <2>6
  <2>8. WallIsMovedByJumps BY <1>1, <1>2, <2>7 DEF WallIsMovedByJumps
  <2>9. PanelInv' BY <1>1, <2>4, <2>5, <2>6, <2>7 DEF PanelInv, Panels
  <2>10. QED BY <2>8, <2>9
<1>8. CASE \E to \in MoveTargets : JumpsTo(to)
  <2>1. PICK to \in MoveTargets : JumpsTo(to) BY <1>8
  <2>2. axis' = axis /\ lived' = lived /\ offset' = offset /\ known' = known /\ panel' = Jumped(to)
    BY <2>1 DEF JumpsTo
  <2> DEFINE seg == [SegmentNow EXCEPT !.fake0 = to, !.real0 = axis]  left == panel.scheduled \ Due(panel)
  <2>3. panel' = [seg |-> seg, scheduled |-> left] BY <2>2 DEF Jumped, PanelSettled
  <2>4. seg \in Segments /\ seg.acc = now.acc /\ seg.dur0 = now.dur0 /\ seg.mult = now.mult
    <3>1. to \in Int /\ axis \in Int BY <1>1
    <3> DEFINE there == [now EXCEPT !.fake0 = to]
    <3>2. there \in Segments /\ there.acc = now.acc /\ there.dur0 = now.dur0 /\ there.mult = now.mult
      BY <1>1, <3>1 DEF Segments
    <3>3. seg = [there EXCEPT !.real0 = axis] BY <1>1
    <3> HIDE DEF there, seg
    <3>4. QED BY <3>1, <3>2, <3>3 DEF Segments
  <2>5. left \in Waiting /\ (\A x, y \in left : x = y) /\ \A next \in left : axis < next.at
    BY <1>1, <1>4 DEF Waiting, Due, Changes
  <2> HIDE DEF seg, left
  <2>6. panel' \in Panels BY <2>3, <2>4, <2>5 DEF Panels
  <2>7. SegmentOf(panel', axis) = seg
    <3>1. panel'.seg = seg /\ panel'.scheduled = left /\ \A next \in left : ~(axis >= next.at)
      BY <1>1, <2>3, <2>5, WaitingAre
    <3>2. QED BY <3>1 DEF SegmentOf
  <2>8. Elapsed' = Elapsed BY <1>1, <1>3, <2>2, <2>4, <2>7 DEF ElapsedAt
  <2>9. PanelInv' BY <1>1, <2>2, <2>6, <2>8 DEF PanelInv
  <2>10. QED BY <2>1, <2>9 DEF WallIsMovedByJumps
<1>9. CASE Shifts
  <2>1. offset' \in Int
    <3>1. PICK by \in Corrections : offset' = offset + by BY <1>9 DEF Shifts
    <3>2. by \in Int BY <3>1
    <3>3. QED BY <1>1, <3>1, <3>2
  <2>2. QED BY <1>1, <1>5, <1>9, <2>1 DEF Shifts
<1>10. CASE Turns BY <1>1, <1>5, <1>10 DEF Turns
<1>11. CASE TakesMove BY <1>1, <1>5, <1>11 DEF TakesMove
<1>12. CASE ReadsPerf BY <1>1, <1>5, <1>12 DEF ReadsPerf
<1>13. CASE UNCHANGED clockVars BY <1>1, <1>5, <1>13 DEF clockVars
<1>14. QED BY <1>6, <1>7, <1>8, <1>9, <1>10, <1>11, <1>12, <1>13 DEF ClockNext

-----------------------------------------------------------------------------
(* The page's clock.                                                       *)

\* A page that has measured v, at p.
HasMeasured(s, v, p) ==
    /\ s \in Shims /\ s.anchor <= p /\ s.read <= p
    /\ v <= PerfAt(s, Most(s.anchor, s.read))

\* r measures from where s does.
FromThere(r, s) == r \in Shims /\ r.base = s.base /\ r.anchor = s.anchor /\ r.read = s.read

LEMMA PerfGoes ==
  ASSUME NEW s \in Shims, NEW x \in Int, NEW y \in Int, x <= y
  PROVE  PerfAt(s, x) \in Int /\ PerfAt(s, x) <= PerfAt(s, y)
<1>1. s.base \in Int /\ s.anchor \in Int /\ s.D \in Nat BY DEF Shims
<1>2. (x - s.anchor) * s.D <= (y - s.anchor) * s.D BY <1>1, Longer
<1>3. (x - s.anchor) * s.D \in Int /\ (y - s.anchor) * s.D \in Int BY <1>1
<1>4. QED BY <1>1, <1>2, <1>3 DEF PerfAt

LEMMA ShimsChange ==
  ASSUME NEW s \in Shims
  PROVE  /\ \A x \in Int : FromThere([s EXCEPT !.fake = x], s) /\ FromThere([s EXCEPT !.real = x], s)
         /\ \A x \in MoveRates : FromThere([s EXCEPT !.M = x], s)
         /\ \A x \in Nat \ {0} : FromThere([s EXCEPT !.D = x], s)
         /\ \A x \in Waiting : FromThere([s EXCEPT !.waiting = x], s)
<1> DEFINE W == Waiting
<1>1. s \in [fake : Int, real : Int, M : MoveRates, D : Nat \ {0}, waiting : W, base : Int, anchor : Int, read : Int]
  BY DEF Shims
<1>2. \A r : r \in [fake : Int, real : Int, M : MoveRates, D : Nat \ {0}, waiting : W, base : Int, anchor : Int, read : Int] => r \in Shims
  BY DEF Shims
<1> HIDE DEF W
<1>3. \A x \in Int : FromThere([s EXCEPT !.fake = x], s) BY <1>1, <1>2 DEF FromThere
<1>4. \A x \in Int : FromThere([s EXCEPT !.real = x], s) BY <1>1, <1>2 DEF FromThere
<1>5. \A x \in MoveRates : FromThere([s EXCEPT !.M = x], s) BY <1>1, <1>2 DEF FromThere
<1>6. \A x \in Nat \ {0} : FromThere([s EXCEPT !.D = x], s) BY <1>1, <1>2 DEF FromThere
<1>7. \A x \in W : FromThere([s EXCEPT !.waiting = x], s) BY <1>1, <1>2 DEF FromThere
<1>8. QED BY <1>3, <1>4, <1>5, <1>6, <1>7 DEF W

\* An anchor between the last and now loses nothing, whatever the rate is from there on.
LEMMA AnchoredMeasures ==
  ASSUME NEW s, NEW v \in Int, NEW p \in Int, HasMeasured(s, v, p),
         NEW q \in Int, Most(s.anchor, s.read) <= q, q <= p
  PROVE  /\ Anchored(s, q) \in Shims
         /\ \A r : FromThere(r, Anchored(s, q)) => HasMeasured(r, v, p)
<1> DEFINE b == s.base + (q - s.anchor) * s.D
<1>1. s \in Shims /\ s.base \in Int /\ s.anchor \in Int /\ s.read \in Int /\ s.D \in Nat
  BY DEF HasMeasured, Shims
<1>2. b \in Int /\ b = PerfAt(s, q) BY <1>1 DEF PerfAt
<1>3. Anchored(s, q) = [[s EXCEPT !.base = b] EXCEPT !.anchor = q] BY <1>1 DEF Anchored, Shims
<1> HIDE DEF b
<1>4. [s EXCEPT !.base = b] \in Shims /\ [s EXCEPT !.base = b].base = b /\ [s EXCEPT !.base = b].read = s.read
  BY <1>1, <1>2 DEF Shims
<1>5. Anchored(s, q) \in Shims /\ Anchored(s, q).base = b /\ Anchored(s, q).read = s.read /\ Anchored(s, q).anchor = q
  BY <1>3, <1>4 DEF Shims
<1>6. v <= b
  <2>1. Most(s.anchor, s.read) \in Int BY <1>1 DEF Most
  <2>2. PerfAt(s, Most(s.anchor, s.read)) \in Int /\ PerfAt(s, Most(s.anchor, s.read)) <= PerfAt(s, q)
    BY <1>1, <2>1, PerfGoes
  <2>3. QED BY <1>2, <2>2 DEF HasMeasured
<1>7. ASSUME NEW r, FromThere(r, Anchored(s, q)) PROVE HasMeasured(r, v, p)
  <2>1. r \in Shims /\ r.base = b /\ r.anchor = q /\ r.read = s.read /\ r.D \in Nat
    BY <1>5, <1>7 DEF FromThere, Shims
  <2>2. r.read <= r.anchor /\ Most(r.anchor, r.read) = q BY <1>1, <2>1 DEF Most
  <2>3. PerfAt(r, q) = b
    <3>1. (q - q) * r.D = 0 BY <2>1
    <3>2. QED BY <1>2, <2>1, <3>1 DEF PerfAt
  <2>4. QED BY <1>1, <1>6, <2>1, <2>2, <2>3 DEF HasMeasured
<1>8. QED BY <1>5, <1>7

LEMMA SettledMeasures ==
  ASSUME NEW s, NEW v \in Int, NEW p \in Int, HasMeasured(s, v, p), NEW t \in Int
  PROVE  HasMeasured(ShimSettled(s, t, p), v, p)
<1> USE ClockNumbers
<1> DEFINE due == {c \in s.waiting : t >= c.at}  c == CHOOSE x \in due : TRUE  q == AnchorAt(s, t, p, c.at)
           fake == Least(s.fake + (c.at - s.real) * s.M, WALL_MAX)
<1>1. /\ s \in Shims /\ s.anchor \in Int /\ s.read \in Int /\ s.fake \in Int /\ s.real \in Int /\ s.M \in Nat
      /\ s.waiting \in Waiting /\ s.anchor <= p /\ s.read <= p
  BY DEF HasMeasured, Shims
<1>2. due # {} => c \in Changes /\ t >= c.at BY <1>1, WaitingAre
<1>3. due # {} => c.at \in Int /\ c.mult \in MoveRates /\ DurationRate(c.mult) \in Nat \ {0}
  <2>1. due # {} => c.at \in Int /\ c.mult \in MoveRates /\ c.mult \in Nat BY <1>2 DEF Changes
  <2>2. \A m \in Nat : DurationRate(m) \in Nat \ {0} BY DEF DurationRate, Most
  <2>3. QED BY <2>1, <2>2
<1>4. due # {} => q \in Int /\ Most(s.anchor, s.read) <= q /\ q <= p
  BY <1>1, <1>2, <1>3 DEF AnchorAt, Most
<1>5. due # {} => fake \in Int
  <2>1. due # {} => (c.at - s.real) * s.M \in Int BY <1>1, <1>3
  <2> DEFINE a == (c.at - s.real) * s.M
  <2> HIDE DEF a
  <2>2. due # {} => Least(s.fake + a, WALL_MAX) \in Int BY <1>1, <2>1 DEF Least, a
  <2>3. QED BY <2>2 DEF a
<1>6. ShimSettled(s, t, p) =
        IF due = {} THEN s
        ELSE [Anchored(s, q) EXCEPT !.waiting = {}, !.fake = fake, !.real = c.at, !.M = c.mult, !.D = DurationRate(c.mult)]
  BY DEF ShimSettled
<1> HIDE DEF due, c, q, fake
<1>7. CASE due = {} BY <1>6, <1>7
<1>8. CASE due # {}
  <2> DEFINE r0 == Anchored(s, q)  r1 == [r0 EXCEPT !.waiting = {}]  r2 == [r1 EXCEPT !.fake = fake]
             r3 == [r2 EXCEPT !.real = c.at]  r4 == [r3 EXCEPT !.M = c.mult]  r5 == [r4 EXCEPT !.D = DurationRate(c.mult)]
  <2>1. r0 \in Shims /\ \A r : FromThere(r, r0) => HasMeasured(r, v, p)
    BY <1>4, <1>8, AnchoredMeasures
  <2>2. ShimSettled(s, t, p) = r5 BY <1>6, <1>8
  <2> HIDE DEF r0
  <2>3. FromThere(r1, r0) BY <2>1, ShimsChange, WaitingAre
  <2> HIDE DEF r1
  <2>4. FromThere(r2, r1) BY <1>5, <1>8, <2>3, ShimsChange DEF FromThere
  <2> HIDE DEF r2
  <2>5. FromThere(r3, r2) BY <1>3, <1>8, <2>4, ShimsChange DEF FromThere
  <2> HIDE DEF r3
  <2>6. FromThere(r4, r3) BY <1>3, <1>8, <2>5, ShimsChange DEF FromThere
  <2> HIDE DEF r4
  <2>7. FromThere(r5, r4) BY <1>3, <1>8, <2>6, ShimsChange DEF FromThere
  <2> HIDE DEF r5
  <2>8. FromThere(r5, r0) BY <2>3, <2>4, <2>5, <2>6, <2>7 DEF FromThere
  <2>9. QED BY <2>1, <2>2, <2>8
<1>9. QED BY <1>7, <1>8

\* What measured v has measured it from there too, where the rate is the same or the anchor last.
LEMMA ScheduledMeasures ==
  ASSUME NEW s, NEW v \in Int, NEW p \in Int, HasMeasured(s, v, p), NEW t \in Int, NEW next \in Changes
  PROVE  HasMeasured(ShimScheduled(s, t, p, next), v, p)
<1> DEFINE r == ShimSettled(s, t, p)  w == {[next EXCEPT !.at = Most(next.at, t)]}  u == [r EXCEPT !.waiting = w]
<1>1. HasMeasured(r, v, p) BY SettledMeasures
<1>2. w \in Waiting BY WaitingAre DEF Changes, Most
<1>3. ShimScheduled(s, t, p, next) = ShimSettled(u, t, p) BY DEF ShimScheduled
<1> HIDE DEF r, w
<1>4. u \in Shims /\ u.base = r.base /\ u.anchor = r.anchor /\ u.read = r.read /\ u.D = r.D
  <2>1. FromThere(u, r) BY <1>1, <1>2, ShimsChange DEF HasMeasured
  <2>2. u.D = r.D BY <1>1 DEF HasMeasured, Shims
  <2>3. QED BY <2>1, <2>2 DEF FromThere
<1> HIDE DEF u
<1>5. HasMeasured(u, v, p) BY <1>1, <1>4 DEF HasMeasured, PerfAt
<1>6. QED BY <1>3, <1>5, SettledMeasures

LEMMA SetMeasures ==
  ASSUME NEW s, NEW v \in Int, NEW p \in Int, HasMeasured(s, v, p), NEW t \in Int, NEW o \in Origins
  PROVE  HasMeasured(ShimSet(s, t, p, o), v, p)
<1> DEFINE r == ShimSettled(s, t, p)  r0 == Anchored(r, p)  r1 == [r0 EXCEPT !.fake = o.fake]
           r2 == [r1 EXCEPT !.real = o.real]  r3 == [r2 EXCEPT !.M = o.mult]
           r4 == [r3 EXCEPT !.D = DurationRate(o.mult)]  r5 == [r4 EXCEPT !.waiting = o.waiting]
<1>1. HasMeasured(r, v, p) BY SettledMeasures
<1>2. o.fake \in Int /\ o.real \in Int /\ o.mult \in MoveRates /\ o.waiting \in Waiting /\ DurationRate(o.mult) \in Nat \ {0}
  <2>1. o.fake \in Int /\ o.real \in Int /\ o.mult \in MoveRates /\ o.waiting \in Waiting /\ o.mult \in Nat
    BY ClockNumbers DEF Origins
  <2>2. \A m \in Nat : DurationRate(m) \in Nat \ {0} BY DEF DurationRate, Most
  <2>3. QED BY <2>1, <2>2
<1>3. ShimSet(s, t, p, o) = ShimSettled(r5, t, p) BY DEF ShimSet
<1> HIDE DEF r
<1>4. r0 \in Shims /\ \A x : FromThere(x, r0) => HasMeasured(x, v, p)
  <2>1. Most(r.anchor, r.read) <= p BY <1>1 DEF HasMeasured, Most
  <2>2. QED BY <1>1, <2>1, AnchoredMeasures
<1> HIDE DEF r0
<1>5. FromThere(r1, r0) BY <1>2, <1>4, ShimsChange
<1> HIDE DEF r1
<1>6. FromThere(r2, r1) BY <1>2, <1>5, ShimsChange DEF FromThere
<1> HIDE DEF r2
<1>7. FromThere(r3, r2) BY <1>2, <1>6, ShimsChange DEF FromThere
<1> HIDE DEF r3
<1>8. FromThere(r4, r3) BY <1>2, <1>7, ShimsChange DEF FromThere
<1> HIDE DEF r4
<1>9. FromThere(r5, r4) BY <1>2, <1>8, ShimsChange DEF FromThere
<1> HIDE DEF r5
<1>10. FromThere(r5, r0) BY <1>5, <1>6, <1>7, <1>8, <1>9 DEF FromThere
<1>11. QED BY <1>3, <1>4, <1>10, SettledMeasures

PageMoves == WholeMoves \cup RateChanges

\* What the panel gives the page is a move.
LEMMA OriginsAre ==
  ASSUME NEW p \in Panels, known \in Int, NEW by \in Int
  PROVE  /\ ShimOrigin(p) \in Origins
         /\ [ShimOrigin(p) EXCEPT !.real = p.seg.real0 + by,
                                  !.waiting = {[next EXCEPT !.at = @ + by] : next \in p.scheduled}] \in Origins
<1> DEFINE W == Waiting  w == {ForPages(next) : next \in p.scheduled}
           u == {[next EXCEPT !.at = @ + by] : next \in p.scheduled}
           o == [fake |-> p.seg.fake0, real |-> p.seg.real0 + known, mult |-> p.seg.mult, waiting |-> w]
<1>1. p.seg.fake0 \in Int /\ p.seg.real0 \in Int /\ p.seg.mult \in MoveRates /\ p.scheduled \in Waiting
  BY ClockNumbers DEF Panels, Segments
<1>2. w \in W /\ u \in W
  <2>1. \A next \in Changes : ForPages(next) \in Changes BY DEF ForPages, Changes
  <2>2. \A next \in Changes : [next EXCEPT !.at = @ + by] \in Changes BY DEF Changes
  <2>3. w \in SUBSET Changes /\ u \in SUBSET Changes BY <1>1, <2>1, <2>2, WaitingAre
  <2>4. \A x, y \in p.scheduled : x = y BY <1>1 DEF Waiting
  <2>5. (\A x, y \in w : x = y) /\ (\A x, y \in u : x = y) BY <2>4
  <2>6. QED BY <2>3, <2>5 DEF Waiting
<1>3. ShimOrigin(p) = o BY DEF ShimOrigin
<1>4. \A x : x \in Origins <=> x \in [fake : Int, real : Int, mult : MoveRates, waiting : W]
  BY DEF Origins
<1> HIDE DEF w, u, W
<1>5. o \in [fake : Int, real : Int, mult : MoveRates, waiting : W] BY <1>1, <1>2
<1>6. [[o EXCEPT !.real = p.seg.real0 + by] EXCEPT !.waiting = u] \in [fake : Int, real : Int, mult : MoveRates, waiting : W]
  <2> DEFINE there == [o EXCEPT !.real = p.seg.real0 + by]
  <2>1. p.seg.real0 + by \in Int BY <1>1
  <2> HIDE DEF o
  <2>2. there \in [fake : Int, real : Int, mult : MoveRates, waiting : W] BY <1>5, <2>1
  <2> HIDE DEF there
  <2>3. [there EXCEPT !.waiting = u] \in [fake : Int, real : Int, mult : MoveRates, waiting : W]
    BY <1>2, <2>2
  <2>4. QED BY <2>3 DEF there
<1>7. [o EXCEPT !.real = p.seg.real0 + by, !.waiting = u] = [[o EXCEPT !.real = p.seg.real0 + by] EXCEPT !.waiting = u]
  OBVIOUS
<1> HIDE DEF o
<1>8. QED BY <1>3, <1>4, <1>5, <1>6, <1>7 DEF u

LEMMA PageSteps ==
  ASSUME PanelInv, PanelInv', PageInv, [ClockNext]_clockVars
  PROVE  PageInv' /\ [PerfGoesOn]_clockVars
<1> USE ClockNumbers
<1>1. /\ axis \in Int /\ offset \in Int /\ known \in Int /\ slept \in Int /\ perfRead \in Int
      /\ SystemClock \in Int /\ Monotonic \in Int /\ Monotonic = axis + slept
      /\ onTheWay \in Seq(PageMoves) /\ panel \in Panels
  BY PanelIs DEF PanelInv, PageInv, SystemClock, Monotonic, PageMoves
<1>2. HasMeasured(shim, perfRead, Monotonic) BY DEF PageInv, HasMeasured
\* With the page's clock left alone, and its monotonic one not taken back.
<1>3. ASSUME shim' = shim, perfRead' = perfRead, axis' \in Int, slept' \in Int, axis + slept <= axis' + slept',
             onTheWay' \in Seq(PageMoves)
      PROVE  PageInv' /\ PerfGoesOn
  <2>1. shim \in Shims /\ shim.anchor \in Int /\ shim.read \in Int BY DEF PageInv, Shims
  <2>2. Monotonic' = axis' + slept' /\ Monotonic' \in Int BY <1>3 DEF Monotonic
  <2>3. shim.anchor <= Monotonic' /\ shim.read <= Monotonic'
    <3>1. shim.anchor <= Monotonic /\ shim.read <= Monotonic BY <1>2 DEF HasMeasured
    <3>2. Monotonic <= Monotonic' /\ Monotonic \in Int BY <1>1, <1>3, <2>2
    <3>3. QED BY <2>1, <2>2, <3>1, <3>2
  <2>4. PageInv' BY <1>1, <1>2, <1>3, <2>1, <2>2, <2>3 DEF PageInv, HasMeasured, PerfAt, PageMoves
  <2>5. PerfGoesOn BY <1>1, <1>3 DEF PerfGoesOn
  <2>6. QED BY <2>4, <2>5
<1>4. CASE Passes BY <1>1, <1>3, <1>4 DEF Passes
<1>5. CASE Shifts
  <2>1. PICK by \in Corrections : slept' \in {slept} \cup (IF by > 0 THEN {slept + by} ELSE {})
    BY <1>5 DEF Shifts
  <2>2. by \in Int BY <2>1
  <2>3. slept' \in Int /\ slept <= slept' BY <1>1, <2>1, <2>2
  <2>4. shim' = shim /\ perfRead' = perfRead /\ axis' = axis /\ onTheWay' = onTheWay
    BY <1>5 DEF Shifts
  <2>5. axis' \in Int /\ axis + slept <= axis' + slept' /\ onTheWay' \in Seq(PageMoves)
    <3>1. onTheWay' \in Seq(PageMoves) BY <1>1, <2>4
    <3>2. axis' = axis /\ axis \in Int /\ slept \in Int /\ slept' \in Int /\ slept <= slept'
      BY <1>1, <2>3, <2>4
    <3>3. axis + slept <= axis + slept'
      <4>1. \A a, b, c \in Int : b <= c => a + b <= a + c OBVIOUS
      <4>2. QED BY <3>2, <4>1
    <3>4. QED BY <3>1, <3>2, <3>3
  <2>6. QED BY <1>3, <2>3, <2>4, <2>5
<1>6. ASSUME NEW move \in PageMoves, onTheWay' = Append(onTheWay, move) PROVE onTheWay' \in Seq(PageMoves)
  BY <1>1, <1>6
<1>7. CASE \E m \in MoveRates : SetsRate(m)
  <2>1. PICK m \in MoveRates : SetsRate(m) BY <1>7
  <2> DEFINE next == [at |-> Instant, mult |-> m]  move == [kind |-> "schedule", next |-> ForPages(next), offset |-> known]
  <2>2. Instant \in Int
    <3> DEFINE waiting == {next0 \in panel.scheduled : axis < next0.at}
    <3>1. \A next0 \in waiting : next0.at \in Int BY <1>1, WaitingAre DEF Panels
    <3>2. waiting # {} => (CHOOSE x \in waiting : TRUE) \in waiting OBVIOUS
    <3>3. Instant = IF waiting = {} THEN axis + RATE_CHANGE_DELAY ELSE (CHOOSE x \in waiting : TRUE).at
      BY DEF Instant
    <3> HIDE DEF waiting
    <3>4. QED BY <1>1, <3>1, <3>2, <3>3
  <2>3. ForPages(next) \in Changes BY <1>1, <2>2 DEF ForPages, Changes
  <2>4. onTheWay' = Append(onTheWay, move) /\ UNCHANGED <<axis, slept, shim, perfRead>>
    BY <2>1 DEF SetsRate, Given
  <2> HIDE DEF next
  <2>5. move \in PageMoves BY <1>1, <2>3 DEF PageMoves, RateChanges
  <2>6. QED BY <1>1, <1>3, <1>6, <2>4, <2>5
<1>8. CASE \E to \in MoveTargets : JumpsTo(to)
  <2>1. PICK to \in MoveTargets : JumpsTo(to) BY <1>8
  <2> DEFINE move == [kind |-> "set", origin |-> ShimOrigin(panel'), offset |-> known]
  <2>2. onTheWay' = Append(onTheWay, move) /\ UNCHANGED <<axis, slept, shim, perfRead>>
    BY <2>1 DEF JumpsTo, Given, WholeClock
  <2>3. panel' \in Panels BY DEF PanelInv, Panels
  <2>4. ShimOrigin(panel') \in Origins BY <1>1, <2>3, OriginsAre
  <2>5. move \in PageMoves BY <1>1, <2>4 DEF PageMoves, WholeMoves
  <2>6. QED BY <1>1, <1>3, <1>6, <2>2, <2>5
<1>9. CASE Turns
  <2>1. UNCHANGED <<axis, slept, shim, perfRead>> BY <1>9 DEF Turns
  <2> DEFINE origin == [ShimOrigin(panel) EXCEPT !.real = panel.seg.real0 + offset,
                          !.waiting = {[next EXCEPT !.at = @ + offset] : next \in panel.scheduled}]
             move == [kind |-> "set", origin |-> origin, offset |-> offset]
  <2>2. onTheWay' = onTheWay \/ onTheWay' = Append(onTheWay, move) BY <1>9 DEF Turns, Given
  <2>3. origin \in Origins BY <1>1, OriginsAre
  <2> HIDE DEF origin
  <2>4. move \in PageMoves BY <1>1, <2>3 DEF PageMoves, WholeMoves
  <2>5. onTheWay' \in Seq(PageMoves) BY <1>1, <1>6, <2>2, <2>4
  <2>6. QED BY <1>1, <1>3, <2>1, <2>5
<1>10. CASE TakesMove
  <2> DEFINE move == Head(onTheWay)
  <2>1. onTheWay # <<>> /\ onTheWay' = Tail(onTheWay) /\ UNCHANGED <<axis, slept, perfRead>>
        /\ \/ move.kind = "set" /\ shim' = ShimSet(shim, SystemClock, Monotonic, move.origin)
           \/ move.kind = "schedule" /\ shim' = ShimScheduled(shim, SystemClock, Monotonic, move.next)
    BY <1>10 DEF TakesMove
  <2>2. move \in PageMoves /\ onTheWay' \in Seq(PageMoves) BY <1>1, <2>1
  <2>3. (move.kind = "set" => move.origin \in Origins) /\ (move.kind = "schedule" => move.next \in Changes)
    BY <2>2 DEF PageMoves, WholeMoves, RateChanges
  <2> HIDE DEF move
  <2>4. HasMeasured(shim', perfRead, Monotonic)
    BY <1>1, <1>2, <2>1, <2>3, SetMeasures, ScheduledMeasures
  <2>5. PageInv' BY <1>1, <2>1, <2>2, <2>4 DEF PageInv, HasMeasured, Monotonic, PerfAt, PageMoves
  <2>6. PerfGoesOn BY <1>1, <2>1 DEF PerfGoesOn
  <2>7. QED BY <2>5, <2>6
<1>11. CASE ReadsPerf
  <2> DEFINE r == ShimNow  p == Monotonic
  <2>1. HasMeasured(r, perfRead, p) BY <1>1, <1>2, SettledMeasures DEF ShimNow
  <2>2. perfRead' = PerfAt(r, p) /\ shim' = [r EXCEPT !.read = p] /\ UNCHANGED <<axis, slept, onTheWay>>
    BY <1>11 DEF ReadsPerf, PerfNow, PerfAt
  <2> HIDE DEF r
  <2>3. r \in Shims /\ r.anchor \in Int /\ r.read \in Int /\ Most(r.anchor, r.read) \in Int /\ Most(r.anchor, r.read) <= p
    BY <1>1, <2>1 DEF HasMeasured, Shims, Most
  <2>4. PerfAt(r, Most(r.anchor, r.read)) \in Int /\ PerfAt(r, Most(r.anchor, r.read)) <= PerfAt(r, p) /\ PerfAt(r, p) \in Int
    BY <1>1, <2>3, PerfGoes
  <2>5. perfRead <= perfRead' /\ perfRead' \in Int BY <1>1, <2>1, <2>2, <2>4 DEF HasMeasured
  <2>6. shim' \in Shims /\ shim'.base = r.base /\ shim'.anchor = r.anchor /\ shim'.D = r.D /\ shim'.read = p
    BY <1>1, <2>2, <2>3 DEF Shims
  <2>7. Most(shim'.anchor, shim'.read) = p /\ PerfAt(shim', p) = PerfAt(r, p)
    BY <1>1, <2>1, <2>3, <2>6 DEF Most, PerfAt, HasMeasured
  <2>8. shim'.anchor <= p /\ shim'.read <= p /\ perfRead' <= PerfAt(shim', Most(shim'.anchor, shim'.read))
    BY <1>1, <2>1, <2>2, <2>4, <2>6, <2>7 DEF HasMeasured
  <2>9. PageInv' BY <1>1, <2>2, <2>5, <2>6, <2>8 DEF PageInv, Monotonic, PerfAt, PageMoves
  <2>10. PerfGoesOn BY <1>1, <2>5 DEF PerfGoesOn
  <2>11. QED BY <2>9, <2>10
<1>12. CASE UNCHANGED clockVars BY <1>1, <1>3, <1>12 DEF clockVars
<1>13. QED BY <1>4, <1>5, <1>7, <1>8, <1>9, <1>10, <1>11, <1>12 DEF ClockNext

LEMMA ClockStarts == ClockInit => ClockInv
<1> SUFFICES ASSUME ClockInit PROVE ClockInv OBVIOUS
<1> USE ClockNumbers
<1>1. PICK fake \in MoveTargets, m \in MoveRates :
          /\ panel = [seg |-> [fake0 |-> fake, real0 |-> 0, mult |-> m, acc |-> 0, dur0 |-> 0], scheduled |-> {}]
          /\ shim = [fake |-> fake, real |-> 0, M |-> m, D |-> DurationRate(m), waiting |-> {},
                     base |-> 0, anchor |-> 0, read |-> 0]
  BY DEF ClockInit
<1>2. fake \in Int /\ m \in Nat /\ DurationRate(m) \in Nat \ {0} BY DEF DurationRate, Most
<1>3. /\ axis = 0 /\ offset = 0 /\ slept = 0 /\ known = 0 /\ lived = 0 /\ perfRead = 0 /\ onTheWay = <<>>
  BY DEF ClockInit
<1>4. panel.seg \in Segments /\ panel.scheduled = {} /\ panel = [seg |-> panel.seg, scheduled |-> panel.scheduled]
      /\ panel.seg.acc = 0 /\ panel.seg.dur0 = 0 /\ panel.seg.mult = m
  BY <1>1, <1>2 DEF Segments
<1>5. Elapsed = 0
  <2>1. SegmentNow = panel.seg BY <1>4 DEF SegmentNow, Due
  <2>2. (0 - 0) * m = 0 BY <1>2
  <2>3. QED BY <1>3, <1>4, <2>1, <2>2 DEF Elapsed, ElapsedAt
<1>6. PanelInv BY <1>3, <1>4, <1>5, WaitingAre DEF PanelInv, Panels
<1>7. shim \in Shims /\ shim.base = 0 /\ shim.anchor = 0 /\ shim.read = 0 /\ shim.D \in Nat
  <2>1. {} \in Waiting BY WaitingAre
  <2> DEFINE W == Waiting
  <2>2. \A r : r \in [fake : Int, real : Int, M : MoveRates, D : Nat \ {0}, waiting : W, base : Int, anchor : Int, read : Int] => r \in Shims
    BY DEF Shims
  <2> HIDE DEF W
  <2>3. shim \in [fake : Int, real : Int, M : MoveRates, D : Nat \ {0}, waiting : W, base : Int, anchor : Int, read : Int]
    BY <1>1, <1>2, <2>1 DEF W
  <2>4. QED BY <1>1, <1>2, <2>2, <2>3
<1>8. PerfAt(shim, Most(shim.anchor, shim.read)) = 0
  <2>1. Most(shim.anchor, shim.read) = 0 /\ (0 - 0) * shim.D = 0 BY <1>7 DEF Most
  <2>2. QED BY <1>7, <2>1 DEF PerfAt
<1>9. PageInv BY <1>3, <1>7, <1>8 DEF PageInv, Monotonic
<1>10. QED BY <1>6, <1>9 DEF ClockInv

\* performance.now never steps back, whatever the page is given, however late, and whoever reads
\* first, across sleeps and corrections of the system clock (rule 3, the shim of
\* cdp/session.rs); and only a jump steps the panel's wall (cli cdp_clock.rs).
THEOREM ClockHolds == ChromiumSpec => ClockForward
<1>1. ChromiumInit => ClockInv BY ClockStarts DEF ChromiumInit
<1>2. ClockInv /\ [ChromiumNext]_chromiumVars =>
        ClockInv' /\ [subject = "clock" => PerfGoesOn /\ WallIsMovedByJumps]_clockVars
  <2> SUFFICES ASSUME ClockInv, [ChromiumNext]_chromiumVars
      PROVE ClockInv' /\ [subject = "clock" => PerfGoesOn /\ WallIsMovedByJumps]_clockVars
    OBVIOUS
  <2>1. [ClockNext]_clockVars BY DEF ChromiumNext, Moves, chromiumVars
  <2>2. PanelInv' /\ WallIsMovedByJumps BY <2>1, PanelSteps DEF ClockInv
  <2>3. PageInv' /\ [PerfGoesOn]_clockVars BY <2>1, <2>2, PageSteps DEF ClockInv
  <2>4. QED BY <2>2, <2>3 DEF ClockInv
<1>3. QED BY <1>1, <1>2, PTL DEF ChromiumSpec, ClockForward

\* The elapsed time of a session is the sum of the rates it ran at, however its changes are
\* scheduled, replaced and crossed by jumps (cli cdp_clock.rs).
THEOREM ElapsedHolds == ChromiumSpec => []ElapsedIsLived
<1>1. ChromiumInit => ClockInv BY ClockStarts DEF ChromiumInit
<1>2. ClockInv /\ [ChromiumNext]_chromiumVars => ClockInv'
  <2> SUFFICES ASSUME ClockInv, [ChromiumNext]_chromiumVars PROVE ClockInv' OBVIOUS
  <2>1. [ClockNext]_clockVars BY DEF ChromiumNext, Moves, chromiumVars
  <2>2. QED BY <2>1, PanelSteps, PageSteps DEF ClockInv
<1>3. ClockInv => ElapsedIsLived BY DEF ClockInv, PanelInv, ElapsedIsLived
<1>4. QED BY <1>1, <1>2, <1>3, PTL DEF ChromiumSpec

-----------------------------------------------------------------------------
(* What the page shows of the panel's clock.                               *)

Shifted(w, by) == {[at |-> c.at + by, mult |-> c.mult] : c \in w}
Later(p, t) == {c \in p.scheduled : t < c.at}

\* The whole clock p, on a system clock that stands by ahead.
Origin(p, by) ==
    [fake |-> p.seg.fake0, real |-> p.seg.real0 + by, mult |-> p.seg.mult, waiting |-> Shifted(p.scheduled, by)]

Shows(s, seg, w, by) ==
    s.fake = seg.fake0 /\ s.real = seg.real0 + by /\ s.M = seg.mult /\ s.waiting = Shifted(w, by)

\* The page runs on p: as it was given, or with its change taken.
Matches(s, p, by, t) ==
    \/ Shows(s, p.seg, p.scheduled, by)
    \/ \E c \in p.scheduled : c.at <= t /\ Shows(s, ContinuedAt(p.seg, c), {}, by)

SegmentIn(seg, t) == 0 <= seg.fake0 /\ seg.fake0 <= WALL_MAX /\ seg.real0 <= t
PanelIn(p, t) == SegmentIn(p.seg, t) /\ \A c \in p.scheduled : p.seg.real0 <= c.at

\* The command that move brings made q of p, at some instant up to t.
Leads(p, q, move, t) ==
    \/ move.kind = "set" /\ move.origin = Origin(q, move.offset)
    \/ /\ move.kind = "schedule"
       /\ \E a \in Int, next \in Changes :
            /\ a <= t /\ a <= next.at
            /\ q = [seg |-> SegmentOf(p, a), scheduled |-> {next}]
            /\ move.next = [at |-> next.at + move.offset, mult |-> next.mult]
            /\ \A c \in p.scheduled : c.at <= a \/ c.at = next.at

LEMMA ShimsKeep ==
  ASSUME NEW s \in Shims, NEW x
  PROVE  /\ [s EXCEPT !.fake = x].fake = x /\ [s EXCEPT !.fake = x].real = s.real
         /\ [s EXCEPT !.fake = x].M = s.M /\ [s EXCEPT !.fake = x].waiting = s.waiting
         /\ [s EXCEPT !.real = x].real = x /\ [s EXCEPT !.real = x].fake = s.fake
         /\ [s EXCEPT !.real = x].M = s.M /\ [s EXCEPT !.real = x].waiting = s.waiting
         /\ [s EXCEPT !.M = x].M = x /\ [s EXCEPT !.M = x].fake = s.fake
         /\ [s EXCEPT !.M = x].real = s.real /\ [s EXCEPT !.M = x].waiting = s.waiting
         /\ [s EXCEPT !.D = x].M = s.M /\ [s EXCEPT !.D = x].fake = s.fake
         /\ [s EXCEPT !.D = x].real = s.real /\ [s EXCEPT !.D = x].waiting = s.waiting
         /\ [s EXCEPT !.waiting = x].waiting = x /\ [s EXCEPT !.waiting = x].fake = s.fake
         /\ [s EXCEPT !.waiting = x].real = s.real /\ [s EXCEPT !.waiting = x].M = s.M
BY DEF Shims

\* What settling does.
LEMMA SettledIs ==
  ASSUME NEW s, NEW v \in Int, NEW p \in Int, HasMeasured(s, v, p), NEW t \in Int, NEW r, r = ShimSettled(s, t, p)
  PROVE  \/ (\A c \in s.waiting : t < c.at) /\ r = s
         \/ \E c \in s.waiting :
              /\ t >= c.at /\ r.fake = Least(s.fake + (c.at - s.real) * s.M, WALL_MAX)
              /\ r.real = c.at /\ r.M = c.mult /\ r.waiting = {}
<1> DEFINE due == {c \in s.waiting : t >= c.at}  c == CHOOSE x \in due : TRUE  q == AnchorAt(s, t, p, c.at)
           fake == Least(s.fake + (c.at - s.real) * s.M, WALL_MAX)
<1>1. /\ s \in Shims /\ s.anchor \in Int /\ s.read \in Int /\ s.fake \in Int /\ s.real \in Int /\ s.M \in Nat
      /\ s.waiting \in Waiting /\ s.anchor <= p /\ s.read <= p
  BY ClockNumbers DEF HasMeasured, Shims
<1>2. due # {} => c \in s.waiting /\ c \in Changes /\ t >= c.at /\ c.at \in Int BY <1>1, WaitingAre
<1>3. due # {} => c.at \in Int /\ c.mult \in MoveRates /\ DurationRate(c.mult) \in Nat \ {0}
  <2>1. due # {} => c.at \in Int /\ c.mult \in MoveRates /\ c.mult \in Nat
    BY <1>2, ClockNumbers DEF Changes
  <2>2. \A m \in Nat : DurationRate(m) \in Nat \ {0} BY DEF DurationRate, Most
  <2>3. QED BY <2>1, <2>2
<1>4. due # {} => q \in Int /\ Most(s.anchor, s.read) <= q /\ q <= p
  BY <1>1, <1>2, <1>3 DEF AnchorAt, Most
<1>5. due # {} => fake \in Int
  <2> DEFINE a == (c.at - s.real) * s.M
  <2>1. due # {} => a \in Int BY <1>1, <1>3
  <2> HIDE DEF a
  <2>2. due # {} => Least(s.fake + a, WALL_MAX) \in Int BY <1>1, <2>1, ClockNumbers DEF Least
  <2>3. QED BY <2>2 DEF a
<1>6. r = IF due = {} THEN s
          ELSE [Anchored(s, q) EXCEPT !.waiting = {}, !.fake = fake, !.real = c.at, !.M = c.mult, !.D = DurationRate(c.mult)]
  BY DEF ShimSettled
<1>7. due = {} => \A x \in s.waiting : t < x.at BY <1>1, WaitingAre
<1> HIDE DEF due, c, q
<1>8. CASE due = {} BY <1>6, <1>7, <1>8
<1>9. CASE due # {}
  <2> DEFINE r0 == Anchored(s, q)  r1 == [r0 EXCEPT !.waiting = {}]  r2 == [r1 EXCEPT !.fake = fake]
             r3 == [r2 EXCEPT !.real = c.at]  r4 == [r3 EXCEPT !.M = c.mult]  r5 == [r4 EXCEPT !.D = DurationRate(c.mult)]
  <2>1. r0 \in Shims BY <1>4, <1>9, AnchoredMeasures
  <2>2. r = r5 BY <1>6, <1>9
  <2> HIDE DEF r0, fake
  <2>3. r1 \in Shims /\ r1.waiting = {} BY <2>1, ShimsChange, ShimsKeep, WaitingAre DEF FromThere
  <2> HIDE DEF r1
  <2>4. r2 \in Shims /\ r2.waiting = {} /\ r2.fake = fake
    <3>1. r2 \in Shims BY <1>5, <1>9, <2>3, ShimsChange DEF FromThere
    <3>2. QED BY <2>3, <3>1, ShimsKeep
  <2> HIDE DEF r2
  <2>5. r3 \in Shims /\ r3.waiting = {} /\ r3.fake = fake /\ r3.real = c.at
    <3>1. r3 \in Shims BY <1>3, <1>9, <2>4, ShimsChange DEF FromThere
    <3>2. QED BY <2>4, <3>1, ShimsKeep
  <2> HIDE DEF r3
  <2>6. r4 \in Shims /\ r4.waiting = {} /\ r4.fake = fake /\ r4.real = c.at /\ r4.M = c.mult
    BY <1>3, <1>9, <2>5, ShimsChange, ShimsKeep DEF FromThere
  <2> HIDE DEF r4
  <2>7. r5.waiting = {} /\ r5.fake = fake /\ r5.real = c.at /\ r5.M = c.mult BY <2>6, ShimsKeep
  <2> HIDE DEF r5
  <2>8. QED BY <1>2, <1>9, <2>2, <2>7 DEF fake
<1>10. QED BY <1>8, <1>9

LEMMA ScheduledIs ==
  ASSUME NEW s, NEW v \in Int, NEW p \in Int, HasMeasured(s, v, p), NEW t \in Int, NEW next \in Changes,
         NEW r, r = ShimSettled(s, t, p)
  PROVE  \E u : /\ HasMeasured(u, v, p) /\ ShimScheduled(s, t, p, next) = ShimSettled(u, t, p)
                /\ u.fake = r.fake /\ u.real = r.real /\ u.M = r.M
                /\ u.waiting = {[at |-> Most(next.at, t), mult |-> next.mult]}
<1> DEFINE w == {[next EXCEPT !.at = Most(next.at, t)]}  u == [r EXCEPT !.waiting = w]
<1>1. HasMeasured(r, v, p) BY SettledMeasures
<1>2. w \in Waiting /\ w = {[at |-> Most(next.at, t), mult |-> next.mult]}
  BY WaitingAre DEF Changes, Most
<1>3. ShimScheduled(s, t, p, next) = ShimSettled(u, t, p) BY DEF ShimScheduled
<1> HIDE DEF w
<1>4. u \in Shims /\ u.base = r.base /\ u.anchor = r.anchor /\ u.read = r.read /\ u.D = r.D
      /\ u.fake = r.fake /\ u.real = r.real /\ u.M = r.M /\ u.waiting = w
  <2>1. FromThere(u, r) BY <1>1, <1>2, ShimsChange DEF HasMeasured
  <2>2. u.D = r.D BY <1>1 DEF HasMeasured, Shims
  <2>3. u.fake = r.fake /\ u.real = r.real /\ u.M = r.M /\ u.waiting = w
    BY <1>1, ShimsKeep DEF HasMeasured
  <2>4. QED BY <2>1, <2>2, <2>3 DEF FromThere
<1> HIDE DEF u
<1>5. HasMeasured(u, v, p) BY <1>1, <1>4 DEF HasMeasured, PerfAt
<1>6. QED BY <1>2, <1>3, <1>4, <1>5

LEMMA SetIs ==
  ASSUME NEW s, NEW v \in Int, NEW p \in Int, HasMeasured(s, v, p), NEW t \in Int, NEW o \in Origins
  PROVE  \E u : /\ HasMeasured(u, v, p) /\ ShimSet(s, t, p, o) = ShimSettled(u, t, p)
                /\ u.fake = o.fake /\ u.real = o.real /\ u.M = o.mult /\ u.waiting = o.waiting
<1> DEFINE r == ShimSettled(s, t, p)  r0 == Anchored(r, p)  r1 == [r0 EXCEPT !.fake = o.fake]
           r2 == [r1 EXCEPT !.real = o.real]  r3 == [r2 EXCEPT !.M = o.mult]
           r4 == [r3 EXCEPT !.D = DurationRate(o.mult)]  r5 == [r4 EXCEPT !.waiting = o.waiting]
<1>1. HasMeasured(r, v, p) BY SettledMeasures
<1>2. o.fake \in Int /\ o.real \in Int /\ o.mult \in MoveRates /\ o.waiting \in Waiting /\ DurationRate(o.mult) \in Nat \ {0}
  <2>1. o.fake \in Int /\ o.real \in Int /\ o.mult \in MoveRates /\ o.waiting \in Waiting /\ o.mult \in Nat
    BY ClockNumbers DEF Origins
  <2>2. \A m \in Nat : DurationRate(m) \in Nat \ {0} BY DEF DurationRate, Most
  <2>3. QED BY <2>1, <2>2
<1>3. ShimSet(s, t, p, o) = ShimSettled(r5, t, p) BY DEF ShimSet
<1> HIDE DEF r
<1>4. r0 \in Shims /\ \A x : FromThere(x, r0) => HasMeasured(x, v, p)
  <2>1. Most(r.anchor, r.read) <= p BY <1>1 DEF HasMeasured, Most
  <2>2. QED BY <1>1, <2>1, AnchoredMeasures
<1> HIDE DEF r0
<1>5. FromThere(r1, r0) /\ r1.fake = o.fake
  <2>1. FromThere(r1, r0) BY <1>2, <1>4, ShimsChange
  <2>2. r1.fake = o.fake BY <1>4, ShimsKeep
  <2>3. QED BY <2>1, <2>2
<1> HIDE DEF r1
<1>6. FromThere(r2, r1) /\ r2.fake = o.fake /\ r2.real = o.real
  BY <1>2, <1>5, ShimsChange, ShimsKeep DEF FromThere
<1> HIDE DEF r2
<1>7. FromThere(r3, r2) /\ r3.fake = o.fake /\ r3.real = o.real /\ r3.M = o.mult
  BY <1>2, <1>6, ShimsChange, ShimsKeep DEF FromThere
<1> HIDE DEF r3
<1>8. FromThere(r4, r3) /\ r4.fake = o.fake /\ r4.real = o.real /\ r4.M = o.mult
  BY <1>2, <1>7, ShimsChange, ShimsKeep DEF FromThere
<1> HIDE DEF r4
<1>9. FromThere(r5, r4) /\ r5.fake = o.fake /\ r5.real = o.real /\ r5.M = o.mult /\ r5.waiting = o.waiting
  BY <1>2, <1>8, ShimsChange, ShimsKeep DEF FromThere
<1> HIDE DEF r5
<1>10. FromThere(r5, r0) BY <1>5, <1>6, <1>7, <1>8, <1>9 DEF FromThere
<1>11. QED BY <1>3, <1>4, <1>9, <1>10

\* A wall shown is the wall.
LEMMA ShownWall ==
  ASSUME NEW seg \in Segments, NEW t \in Int, SegmentIn(seg, t), NEW by \in Int, NEW real, NEW x,
         real = seg.real0 + by, x = t + by
  PROVE  Least(seg.fake0 + (x - real) * seg.mult, WALL_MAX) = WallAt(seg, t)
<1>1. seg.fake0 \in Int /\ seg.real0 \in Int /\ seg.mult \in Nat /\ WALL_MAX \in Nat
  BY ClockNumbers DEF Segments
<1>2. x - real = t - seg.real0 /\ t - seg.real0 \in Nat BY <1>1 DEF SegmentIn
<1> DEFINE a == (t - seg.real0) * seg.mult
<1>3. a \in Nat
  <2>1. \A m, n \in Nat : m * n \in Nat OBVIOUS
  <2>2. QED BY <1>1, <1>2, <2>1
<1>4. (x - real) * seg.mult = a BY <1>2
<1> HIDE DEF a
<1>5. Least(seg.fake0 + a, WALL_MAX) = Most(0, Least(seg.fake0 + a, WALL_MAX))
  <2>1. 0 <= seg.fake0 BY DEF SegmentIn
  <2>2. \A m, n \in Nat : m + n \in Int /\ 0 <= m + n OBVIOUS
  <2>3. seg.fake0 + a \in Int /\ 0 <= seg.fake0 + a BY <1>1, <1>3, <2>1, <2>2
  <2>4. \A y \in Int : 0 <= y => Least(y, WALL_MAX) = Most(0, Least(y, WALL_MAX))
    BY <1>1 DEF Least, Most
  <2>5. QED BY <2>3, <2>4
<1>6. QED BY <1>4, <1>5 DEF WallAt, a

\* The segment of a clock in range is in range.
LEMMA SegmentInRange ==
  ASSUME NEW p \in Panels, NEW t \in Int, PanelIn(p, t)
  PROVE  SegmentIn(SegmentOf(p, t), t)
<1>1. p.seg \in Segments BY DEF Panels
<1>2. CASE SegmentOf(p, t) = p.seg BY <1>2 DEF PanelIn
<1>3. ASSUME NEW next \in p.scheduled, t >= next.at, SegmentOf(p, t) = ContinuedAt(p.seg, next)
      PROVE  SegmentIn(SegmentOf(p, t), t)
  <2>1. next.at \in Int BY WaitingAre DEF Panels
  <2>2. WallAt(p.seg, next.at) \in Int /\ 0 <= WallAt(p.seg, next.at) /\ WallAt(p.seg, next.at) <= WALL_MAX
    BY <1>1, <2>1, WallGoesOn
  <2>3. SegmentOf(p, t).fake0 = WallAt(p.seg, next.at) /\ SegmentOf(p, t).real0 = next.at
    BY <1>3 DEF ContinuedAt
  <2>4. next.at <= t BY <1>3, <2>1
  <2>5. QED BY <2>2, <2>3, <2>4 DEF SegmentIn
<1>4. QED BY <1>2, <1>3, SegmentIs

LEMMA ShiftedAre ==
  ASSUME NEW w, NEW by
  PROVE  /\ Shifted({}, by) = {} /\ (Shifted(w, by) = {} => w = {})
         /\ \A c : Shifted({c}, by) = {[at |-> c.at + by, mult |-> c.mult]}
  BY DEF Shifted

\* A page that runs on p runs on it when it has settled, and then shows it.
LEMMA ShownSettles ==
  ASSUME NEW p \in Panels, NEW by \in Int, NEW t \in Int, PanelIn(p, t),
         NEW s, NEW v \in Int, NEW q \in Int, HasMeasured(s, v, q), Matches(s, p, by, t),
         NEW x, x = t + by, NEW r, r = ShimSettled(s, x, q)
  PROVE  Shows(r, SegmentOf(p, t), Later(p, t), by) /\ Matches(r, p, by, t)
<1>1. x \in Int /\ p.seg \in Segments /\ p.scheduled \in Waiting BY DEF Panels
<1>2. \A c \in p.scheduled : c.at \in Int /\ p.scheduled = {c} BY <1>1, WaitingAre DEF Waiting
<1>3. \/ (\A c \in s.waiting : x < c.at) /\ r = s
      \/ \E c \in s.waiting :
              /\ x >= c.at /\ r.fake = Least(s.fake + (c.at - s.real) * s.M, WALL_MAX)
              /\ r.real = c.at /\ r.M = c.mult /\ r.waiting = {}
  BY <1>1, SettledIs
<1>4. \A c \in p.scheduled : c.at <= t => Later(p, t) = {} /\ SegmentOf(p, t) = ContinuedAt(p.seg, c)
  <2>1. TAKE c \in p.scheduled
  <2>2. HAVE c.at <= t
  <2>3. ~(t < c.at) /\ p.scheduled = {c} BY <1>2, <2>2
  <2>4. Later(p, t) = {} BY <2>3 DEF Later
  <2>5. QED BY <2>3, <2>4, SegmentIs
<1>5. ASSUME NEW c \in p.scheduled, c.at <= t, Shows(r, ContinuedAt(p.seg, c), {}, by)
      PROVE  Shows(r, SegmentOf(p, t), Later(p, t), by) /\ Matches(r, p, by, t)
  BY <1>4, <1>5 DEF Matches
<1>6. ASSUME NEW c \in p.scheduled, c.at <= t, Shows(s, ContinuedAt(p.seg, c), {}, by)
      PROVE  Shows(r, SegmentOf(p, t), Later(p, t), by) /\ Matches(r, p, by, t)
  <2>1. s.waiting = {} BY <1>6, ShiftedAre DEF Shows
  <2>2. r = s BY <1>3, <2>1
  <2>3. QED BY <1>5, <1>6, <2>2
<1>7. CASE Shows(s, p.seg, p.scheduled, by)
  <2>1. s.fake = p.seg.fake0 /\ s.real = p.seg.real0 + by /\ s.M = p.seg.mult /\ s.waiting = Shifted(p.scheduled, by)
    BY <1>7 DEF Shows
  <2>2. CASE (\A c \in s.waiting : x < c.at) /\ r = s
    <3>1. \A c \in p.scheduled : x < c.at + by
      <4>1. TAKE c \in p.scheduled
      <4> DEFINE d == [at |-> c.at + by, mult |-> c.mult]
      <4>2. d \in s.waiting BY <2>1 DEF Shifted
      <4>3. d.at = c.at + by OBVIOUS
      <4>4. QED BY <2>2, <4>2, <4>3
    <3>2. \A c \in p.scheduled : t < c.at BY <1>2, <3>1
    <3>3. Later(p, t) = p.scheduled BY <3>2 DEF Later
    <3>4. SegmentOf(p, t) = p.seg BY <1>2, <3>2, SegmentIs
    <3>5. QED BY <1>7, <2>2, <3>3, <3>4 DEF Matches
  <2>3. ASSUME NEW d \in s.waiting, x >= d.at, r.fake = Least(s.fake + (d.at - s.real) * s.M, WALL_MAX),
               r.real = d.at, r.M = d.mult, r.waiting = {}
        PROVE  Shows(r, SegmentOf(p, t), Later(p, t), by) /\ Matches(r, p, by, t)
    <3>1. PICK c \in p.scheduled : d = [at |-> c.at + by, mult |-> c.mult] BY <2>1 DEF Shifted
    <3>2. d.at = c.at + by /\ d.mult = c.mult /\ c.at \in Int BY <1>2, <3>1
    <3>3. c.at <= t BY <2>3, <3>2
    <3>4. SegmentIn(p.seg, c.at) BY DEF PanelIn, SegmentIn
    <3>5. r.fake = WallAt(p.seg, c.at) BY <1>1, <2>1, <2>3, <3>2, <3>4, ShownWall
    <3>6. Shows(r, ContinuedAt(p.seg, c), {}, by)
      BY <2>3, <3>2, <3>5, ShiftedAre DEF Shows, ContinuedAt
    <3>7. QED BY <1>5, <3>3, <3>6
  <2>4. QED BY <1>3, <2>2, <2>3
<1>8. QED BY <1>6, <1>7 DEF Matches

\* A page given the whole clock p runs on it.
LEMMA SetMatches ==
  ASSUME NEW p \in Panels, NEW by \in Int, NEW t \in Int, PanelIn(p, t),
         NEW s, NEW v \in Int, NEW q \in Int, HasMeasured(s, v, q), Origin(p, by) \in Origins, NEW x, x = t + by
  PROVE  Matches(ShimSet(s, x, q, Origin(p, by)), p, by, t)
<1>1. x \in Int OBVIOUS
<1>2. PICK u : /\ HasMeasured(u, v, q) /\ ShimSet(s, x, q, Origin(p, by)) = ShimSettled(u, x, q)
               /\ u.fake = Origin(p, by).fake /\ u.real = Origin(p, by).real
               /\ u.M = Origin(p, by).mult /\ u.waiting = Origin(p, by).waiting
  <2>1. \A y \in Int, o \in Origins :
           \E u : /\ HasMeasured(u, v, q) /\ ShimSet(s, y, q, o) = ShimSettled(u, y, q)
                  /\ u.fake = o.fake /\ u.real = o.real /\ u.M = o.mult /\ u.waiting = o.waiting
    BY SetIs
  <2>2. QED BY <1>1, <2>1
<1>3. Matches(u, p, by, t) BY <1>2 DEF Matches, Shows, Origin
<1>4. QED BY <1>2, <1>3, ShownSettles

\* A whole clock with nothing waiting is shown as it was given.
LEMMA SetStands ==
  ASSUME NEW s, NEW v \in Int, NEW q \in Int, HasMeasured(s, v, q), NEW x \in Int, NEW o \in Origins, o.waiting = {},
         NEW r, r = ShimSet(s, x, q, o)
  PROVE  r.fake = o.fake /\ r.real = o.real /\ r.M = o.mult /\ r.waiting = {}
<1>1. PICK u : /\ HasMeasured(u, v, q) /\ r = ShimSettled(u, x, q)
               /\ u.fake = o.fake /\ u.real = o.real /\ u.M = o.mult /\ u.waiting = o.waiting
  BY SetIs
<1>2. r = u BY <1>1, SettledIs
<1>3. QED BY <1>1, <1>2

\* A rate change that comes in time leads a page on p to q.
LEMMA ScheduleMatches ==
  ASSUME NEW p \in Panels, NEW by \in Int, NEW t \in Int, PanelIn(p, t),
         NEW s, NEW v \in Int, NEW q \in Int, HasMeasured(s, v, q), Matches(s, p, by, t), NEW x, x = t + by,
         NEW a \in Int, a <= t, NEW next \in Changes, a <= next.at, t <= next.at,
         \A c \in p.scheduled : c.at <= a \/ c.at = next.at,
         NEW n, n = [seg |-> SegmentOf(p, a), scheduled |-> {next}], n \in Panels, PanelIn(n, t),
         NEW c0, c0 = [at |-> next.at + by, mult |-> next.mult]
  PROVE  Matches(ShimScheduled(s, x, q, c0), n, by, t)
<1>1. x \in Int /\ p.seg \in Segments /\ p.scheduled \in Waiting /\ next.at \in Int
  BY DEF Panels, Changes
<1>2. \A c \in p.scheduled : c.at \in Int /\ p.scheduled = {c} BY <1>1, WaitingAre DEF Waiting
<1>3. c0 \in Changes /\ c0.at = next.at + by /\ c0.mult = next.mult /\ Most(c0.at, x) = next.at + by
  BY <1>1 DEF Changes, Most
<1>10. PICK r : r = ShimSettled(s, x, q) OBVIOUS
<1>4. Shows(r, SegmentOf(p, t), Later(p, t), by) BY <1>10, ShownSettles
<1>5. PICK u : /\ HasMeasured(u, v, q) /\ ShimScheduled(s, x, q, c0) = ShimSettled(u, x, q)
               /\ u.fake = r.fake /\ u.real = r.real /\ u.M = r.M
               /\ u.waiting = {[at |-> Most(c0.at, x), mult |-> c0.mult]}
  BY <1>1, <1>3, <1>10, ScheduledIs
<1>6. u.waiting = Shifted({next}, by) BY <1>3, <1>5, ShiftedAre
<1>7. CASE SegmentOf(p, t) = SegmentOf(p, a)
  <2>1. Shows(u, n.seg, n.scheduled, by) BY <1>4, <1>5, <1>6, <1>7 DEF Shows
  <2>2. Matches(u, n, by, t) BY <2>1 DEF Matches
  <2>3. QED BY <1>5, <2>2, ShownSettles
<1>8. CASE SegmentOf(p, t) # SegmentOf(p, a)
  <2>1. PICK c \in p.scheduled : t >= c.at /\ SegmentOf(p, t) = ContinuedAt(p.seg, c) /\ SegmentOf(p, a) = p.seg /\ a < c.at
    <3>1. \/ (\A c \in p.scheduled : t < c.at) /\ SegmentOf(p, t) = p.seg
          \/ \E c \in p.scheduled : p.scheduled = {c} /\ t >= c.at /\ SegmentOf(p, t) = ContinuedAt(p.seg, c)
      BY SegmentIs
    <3>2. \/ (\A c \in p.scheduled : a < c.at) /\ SegmentOf(p, a) = p.seg
          \/ \E c \in p.scheduled : p.scheduled = {c} /\ a >= c.at /\ SegmentOf(p, a) = ContinuedAt(p.seg, c)
      BY SegmentIs
    <3>3. ASSUME NEW c \in p.scheduled, p.scheduled = {c}, a >= c.at, SegmentOf(p, a) = ContinuedAt(p.seg, c) PROVE FALSE
      <4>1. t >= c.at /\ ~(t < c.at) BY <1>2, <3>3
      <4>2. QED BY <1>8, <3>1, <3>3, <4>1
    <3>4. QED BY <1>8, <3>1, <3>2, <3>3
  <2>2. c.at = next.at /\ t = next.at BY <1>1, <1>2, <2>1
  <2>3. u.fake = WallAt(p.seg, t) /\ u.real = t + by
    BY <1>4, <1>5, <2>1, <2>2 DEF Shows, ContinuedAt
  <2>11. PICK z : z = ShimSettled(u, x, q) OBVIOUS
  <2> DEFINE d == [at |-> next.at + by, mult |-> next.mult]
  <2>4. u.waiting = {d} /\ d.at = x /\ d.mult = next.mult BY <1>6, <2>2, ShiftedAre
  <2>5. \/ (\A y \in u.waiting : x < y.at) /\ z = u
        \/ \E y \in u.waiting :
              /\ x >= y.at /\ z.fake = Least(u.fake + (y.at - u.real) * u.M, WALL_MAX)
              /\ z.real = y.at /\ z.M = y.mult /\ z.waiting = {}
    <3>1. HasMeasured(u, v, q) BY <1>5
    <3>2. QED BY <1>1, <2>11, <3>1, SettledIs
  <2> HIDE DEF d
  <2>6. /\ z.fake = Least(u.fake + (x - u.real) * u.M, WALL_MAX)
        /\ z.real = x /\ z.M = next.mult /\ z.waiting = {}
    BY <1>1, <2>4, <2>5
  <2>7. z.fake = WallAt(p.seg, t)
    <3>1. u.M \in Nat /\ x - u.real = 0 /\ WALL_MAX \in Nat
      <4>1. u.M \in MoveRates BY <1>5 DEF HasMeasured, Shims
      <4>2. (t + by) - (t + by) = 0 OBVIOUS
      <4>3. QED BY <2>3, <4>1, <4>2, ClockNumbers
    <3>2. WallAt(p.seg, t) \in Int /\ WallAt(p.seg, t) <= WALL_MAX BY <1>1, WallGoesOn
    <3>3. (x - u.real) * u.M = 0 BY <3>1
    <3>4. u.fake + 0 = u.fake /\ Least(u.fake, WALL_MAX) = u.fake BY <2>3, <3>1, <3>2 DEF Least
    <3>5. QED BY <2>3, <2>6, <3>3, <3>4
  <2>8. Shows(z, ContinuedAt(n.seg, next), {}, by)
    BY <2>1, <2>2, <2>6, <2>7, ShiftedAre DEF Shows, ContinuedAt
  <2>9. next.at <= t /\ next \in n.scheduled BY <1>1, <2>2
  <2>10. QED BY <1>5, <2>8, <2>9, <2>11 DEF Matches
<1>9. QED BY <1>7, <1>8

-----------------------------------------------------------------------------
(* The clocks of the panel on the way to a page.                           *)

\* From the clock the page has taken to the panel's now, as the moves lead.
Way(h, way, p, t) ==
    /\ h \in Seq(Panels) /\ Len(h) = Len(way) + 1 /\ h[Len(h)] = p
    /\ \A i \in 1..Len(h) : PanelIn(h[i], t)
    /\ \A i \in 1..Len(way) : Leads(h[i], h[i + 1], way[i], t)

\* What the page took of the clock p: all of it while the system clock stood still, and without
\* a rate change its segment.
TakenUp(p) ==
    /\ steady /\ ~apart => Matches(shim, p, offset, axis)
    /\ ~rated => p.scheduled = {} /\ shim.waiting = {} /\ shim.fake = p.seg.fake0 /\ shim.M = p.seg.mult
    /\ ~rated /\ onTheWay = <<>> => shim.real = p.seg.real0 + pushed

WayInv ==
    /\ pushed \in Int
    /\ onTheWay # <<>> => onTheWay[Len(onTheWay)].offset = pushed
    /\ \E h : Way(h, onTheWay, panel, axis) /\ TakenUp(h[1])

\* The panel's clock in range, as time goes by.
LEMMA PanelStaysIn ==
  ASSUME NEW p \in Panels, NEW t \in Int, NEW u \in Int, t <= u, PanelIn(p, t)
  PROVE  PanelIn(p, u)
<1>1. p.seg.real0 \in Int BY DEF Panels, Segments
<1>2. QED BY <1>1 DEF PanelIn, SegmentIn

LEMMA LeadsOn ==
  ASSUME NEW p, NEW q, NEW move, NEW t \in Int, NEW u \in Int, t <= u, Leads(p, q, move, t)
  PROVE  Leads(p, q, move, u)
<1>1. \A a \in Int : a <= t => a <= u OBVIOUS
<1>2. QED BY <1>1 DEF Leads

\* The way as time goes by,
LEMMA WayStays ==
  ASSUME NEW h, NEW way \in Seq(PageMoves), NEW p, NEW t \in Int, NEW u \in Int, t <= u, Way(h, way, p, t)
  PROVE  Way(h, way, p, u)
<1>1. \A i \in 1..Len(h) : h[i] \in Panels BY DEF Way
<1>2. \A i \in 1..Len(h) : PanelIn(h[i], u) BY <1>1, PanelStaysIn DEF Way
<1>3. \A i \in 1..Len(way) : Leads(h[i], h[i + 1], way[i], u) BY LeadsOn DEF Way
<1>4. QED BY <1>2, <1>3 DEF Way

\* as the panel gives the page a move,
LEMMA WayGrows ==
  ASSUME NEW h, NEW way \in Seq(PageMoves), NEW p, NEW t \in Int, Way(h, way, p, t),
         NEW q \in Panels, PanelIn(q, t), NEW move \in PageMoves, Leads(p, q, move, t)
  PROVE  Way(Append(h, q), Append(way, move), q, t) /\ Append(h, q)[1] = h[1]
<1> DEFINE g == Append(h, q)  w == Append(way, move)
<1>1. /\ h \in Seq(Panels) /\ Len(h) \in Nat /\ Len(way) \in Nat /\ Len(h) = Len(way) + 1 /\ h[Len(h)] = p
  BY DEF Way
<1>2. /\ g \in Seq(Panels) /\ Len(g) = Len(h) + 1 /\ g[Len(g)] = q /\ \A i \in 1..Len(h) : g[i] = h[i]
  BY <1>1
<1>3. /\ Len(w) = Len(way) + 1 /\ w[Len(w)] = move /\ \A i \in 1..Len(way) : w[i] = way[i] OBVIOUS
<1> HIDE DEF g, w
<1>4. \A i \in 1..Len(g) : PanelIn(g[i], t)
  <2>1. TAKE i \in 1..Len(g)
  <2>2. i = Len(g) \/ i \in 1..Len(h) BY <1>1, <1>2
  <2>3. QED BY <1>2, <2>2 DEF Way
<1>5. \A i \in 1..Len(w) : Leads(g[i], g[i + 1], w[i], t)
  <2>1. TAKE i \in 1..Len(w)
  <2>2. CASE i = Len(w)
    <3>1. i = Len(h) /\ i + 1 = Len(g) /\ i \in 1..Len(h) BY <1>1, <1>2, <1>3, <2>2
    <3>2. g[i] = p /\ g[i + 1] = q /\ w[i] = move BY <1>1, <1>2, <1>3, <2>2, <3>1
    <3>3. QED BY <3>2
  <2>3. CASE i # Len(w)
    <3>1. i \in 1..Len(way) /\ i \in 1..Len(h) /\ i + 1 \in 1..Len(h) BY <1>1, <1>3, <2>3
    <3>2. g[i] = h[i] /\ g[i + 1] = h[i + 1] /\ w[i] = way[i] BY <1>2, <1>3, <3>1
    <3>3. QED BY <3>1, <3>2 DEF Way
  <2>4. QED BY <2>2, <2>3
<1>6. g[1] = h[1] /\ Len(g) = Len(w) + 1 BY <1>1, <1>2, <1>3
<1>7. QED BY <1>2, <1>4, <1>5, <1>6 DEF Way, g, w

\* and as the page takes the first in line.
LEMMA WayShrinks ==
  ASSUME NEW h, NEW way \in Seq(PageMoves), way # <<>>, NEW p, NEW t \in Int, Way(h, way, p, t)
  PROVE  /\ Way(Tail(h), Tail(way), p, t) /\ Tail(h)[1] = h[2]
         /\ h[1] \in Panels /\ PanelIn(h[1], t) /\ h[2] \in Panels /\ PanelIn(h[2], t)
         /\ Leads(h[1], h[2], Head(way), t)
         /\ Tail(way) = <<>> => way[Len(way)] = Head(way)
         /\ Tail(way) # <<>> => Tail(way)[Len(Tail(way))] = way[Len(way)]
<1> DEFINE g == Tail(h)  w == Tail(way)
<1>1. /\ h \in Seq(Panels) /\ Len(h) \in Nat /\ Len(way) \in Nat \ {0} /\ Len(h) = Len(way) + 1 /\ h[Len(h)] = p
  BY EmptySeq DEF Way
<1>2. /\ g \in Seq(Panels) /\ Len(g) = Len(h) - 1 /\ \A i \in 1..Len(g) : g[i] = h[i + 1]
  <2>1. h # <<>> BY <1>1
  <2>2. QED BY <1>1, <2>1, HeadTailProperties
<1>3. /\ w \in Seq(PageMoves) /\ Len(w) = Len(way) - 1 /\ (\A i \in 1..Len(w) : w[i] = way[i + 1]) /\ Head(way) = way[1]
  BY HeadTailProperties
<1> HIDE DEF g, w
<1>4. \A i \in 1..Len(g) : PanelIn(g[i], t)
  <2>1. TAKE i \in 1..Len(g)
  <2>2. i + 1 \in 1..Len(h) /\ g[i] = h[i + 1] BY <1>1, <1>2
  <2>3. QED BY <2>2 DEF Way
<1>5. \A i \in 1..Len(w) : Leads(g[i], g[i + 1], w[i], t)
  <2>1. TAKE i \in 1..Len(w)
  <2>2. i \in 1..Len(g) /\ i + 1 \in 1..Len(g) /\ i + 1 \in 1..Len(way) BY <1>1, <1>2, <1>3
  <2>3. g[i] = h[i + 1] /\ g[i + 1] = h[(i + 1) + 1] /\ w[i] = way[i + 1] BY <1>2, <1>3, <2>2
  <2>4. Leads(h[i + 1], h[(i + 1) + 1], way[i + 1], t) BY <2>2 DEF Way
  <2>5. QED BY <2>3, <2>4
<1>6. g[Len(g)] = p
  <2>1. Len(g) \in 1..Len(g) /\ Len(g) + 1 = Len(h) BY <1>1, <1>2
  <2>2. QED BY <1>1, <1>2, <2>1
<1>7. Way(g, w, p, t)
  <2>1. Len(g) = Len(w) + 1 BY <1>1, <1>2, <1>3
  <2>2. QED BY <1>2, <1>4, <1>5, <1>6, <2>1 DEF Way
<1>8. g[1] = h[2]
  <2>1. 1 \in 1..Len(g) /\ 1 + 1 = 2 BY <1>1, <1>2
  <2>2. QED BY <1>2, <2>1
<1>9. 1 \in 1..Len(h) /\ 2 \in 1..Len(h) /\ 1 \in 1..Len(way) BY <1>1
<1>10. h[1] \in Panels /\ PanelIn(h[1], t) /\ h[2] \in Panels /\ PanelIn(h[2], t) /\ Leads(h[1], h[2], Head(way), t)
  <2>1. h[1] \in Panels /\ h[2] \in Panels BY <1>1, <1>9
  <2>2. PanelIn(h[1], t) /\ PanelIn(h[2], t) BY <1>9 DEF Way
  <2>3. Leads(h[1], h[1 + 1], way[1], t) BY <1>9 DEF Way
  <2>4. QED BY <1>3, <2>1, <2>2, <2>3
<1>11. w = <<>> => way[Len(way)] = Head(way)
  <2>1. w = <<>> => Len(w) = 0 OBVIOUS
  <2>2. w = <<>> => Len(way) = 1 BY <1>1, <1>3, <2>1
  <2>3. QED BY <1>3, <2>2
<1>12. w # <<>> => w[Len(w)] = way[Len(way)]
  <2>1. w # <<>> => Len(w) \in 1..Len(w) /\ Len(w) + 1 = Len(way) BY <1>1, <1>3, EmptySeq
  <2>2. QED BY <1>3, <2>1
<1>13. QED BY <1>7, <1>8, <1>10, <1>11, <1>12 DEF g, w

\* Settling on the way to a reading changes nothing of what the page runs on.
LEMMA TakenSettles ==
  ASSUME NEW p \in Panels, NEW t \in Int, PanelIn(p, t), NEW by \in Int, NEW x, x = t + by,
         NEW s, NEW v \in Int, NEW q \in Int, HasMeasured(s, v, q),
         NEW r, r = ShimSettled(s, x, q),
         NEW z, z.waiting = r.waiting, z.fake = r.fake, z.M = r.M, z.real = r.real
  PROVE  /\ Matches(s, p, by, t) => Matches(z, p, by, t)
         /\ s.waiting = {} => z.waiting = {} /\ z.fake = s.fake /\ z.M = s.M /\ z.real = s.real
<1>1. HasMeasured(r, v, q) /\ x \in Int BY SettledMeasures
<1>3. Matches(s, p, by, t) => Matches(r, p, by, t) BY ShownSettles
<1>4. Matches(r, p, by, t) => Matches(z, p, by, t) BY DEF Matches, Shows
<1>5. s.waiting = {} => r = s BY <1>1, SettledIs
<1>6. QED BY <1>3, <1>4, <1>5

\* A page that runs on p and takes the move that leads to q runs on q, if it comes in time.
LEMMA LeadsMatch ==
  ASSUME NEW p \in Panels, NEW n \in Panels, NEW t \in Int, PanelIn(p, t), PanelIn(n, t), NEW by \in Int, NEW x, x = t + by,
         NEW s, NEW v \in Int, NEW q \in Int, HasMeasured(s, v, q), NEW move \in PageMoves, move.offset = by,
         Leads(p, n, move, t)
  PROVE  /\ move.kind = "set" => Matches(ShimSet(s, x, q, move.origin), n, by, t)
         /\ move.kind = "schedule" /\ x <= move.next.at /\ Matches(s, p, by, t)
              => Matches(ShimScheduled(s, x, q, move.next), n, by, t)
<1>1. CASE move.kind = "set"
  <2>1. move.origin = Origin(n, by) /\ move.origin \in Origins
    BY <1>1 DEF Leads, PageMoves, WholeMoves, RateChanges
  <2>2. Matches(ShimSet(s, x, q, Origin(n, by)), n, by, t) BY <2>1, SetMatches
  <2>3. QED BY <1>1, <2>1, <2>2
<1>2. CASE move.kind = "schedule" /\ x <= move.next.at /\ Matches(s, p, by, t)
  <2>1. PICK a \in Int, next \in Changes :
            /\ a <= t /\ a <= next.at
            /\ n = [seg |-> SegmentOf(p, a), scheduled |-> {next}]
            /\ move.next = [at |-> next.at + by, mult |-> next.mult]
            /\ \A c \in p.scheduled : c.at <= a \/ c.at = next.at
    BY <1>2 DEF Leads
  <2>2. t <= next.at
    <3>1. next.at \in Int /\ move.next.at = next.at + by BY <2>1 DEF Changes
    <3>2. t + by <= next.at + by BY <1>2, <3>1
    <3>3. QED BY <3>1, <3>2
  <2>3. PICK c0 : c0 = move.next OBVIOUS
  <2>4. Matches(ShimScheduled(s, x, q, c0), n, by, t) BY <1>2, <2>1, <2>2, <2>3, ScheduleMatches
  <2>5. QED BY <1>2, <2>3, <2>4
<1>3. QED BY <1>1, <1>2

\* The instant of a change that is set now.
LEMMA InstantIs ==
  ASSUME PanelInv
  PROVE  /\ Instant \in Int /\ axis <= Instant
         /\ \A c \in panel.scheduled : c.at <= axis \/ c.at = Instant
<1>1. panel \in Panels /\ axis \in Int BY PanelIs
<1> DEFINE waiting == {next \in panel.scheduled : axis < next.at}
<1>2. \A c \in panel.scheduled : c.at \in Int /\ panel.scheduled = {c}
  BY <1>1, WaitingAre DEF Panels, Waiting
<1>3. Instant = IF waiting = {} THEN axis + RATE_CHANGE_DELAY ELSE (CHOOSE x \in waiting : TRUE).at
  BY DEF Instant
<1>4. CASE waiting = {}
  <2>1. \A c \in panel.scheduled : c.at <= axis BY <1>1, <1>2, <1>4
  <2>2. axis + RATE_CHANGE_DELAY \in Int /\ axis <= axis + RATE_CHANGE_DELAY BY <1>1, ClockNumbers
  <2>3. QED BY <1>3, <1>4, <2>1, <2>2
<1>5. CASE waiting # {}
  <2>1. PICK c : c = CHOOSE x \in waiting : TRUE OBVIOUS
  <2>2. c \in waiting BY <1>5, <2>1
  <2>3. c \in panel.scheduled /\ axis < c.at /\ Instant = c.at BY <1>3, <1>5, <2>1, <2>2
  <2>4. QED BY <1>1, <1>2, <2>3
<1>6. QED BY <1>4, <1>5

\* The panel's clock after a command.
LEMMA PanelCommands ==
  ASSUME PanelInv, PanelIn(panel, axis), known \in Int
  PROVE  /\ \A m \in MoveRates : SetsRate(m) =>
              \E move : /\ onTheWay' = Append(onTheWay, move) /\ move.offset = known
                        /\ PanelIn(panel', axis) /\ Leads(panel, panel', move, axis)
         /\ \A to \in MoveTargets : JumpsTo(to) =>
              \E move : /\ onTheWay' = Append(onTheWay, move) /\ move.offset = known
                        /\ PanelIn(panel', axis) /\ Leads(panel, panel', move, axis)
<1>1. panel \in Panels /\ axis \in Int /\ SegmentNow = SegmentOf(panel, axis) /\ SegmentOf(panel, axis) \in Segments
  BY PanelIs
<1>2. SegmentIn(SegmentOf(panel, axis), axis) BY <1>1, SegmentInRange
<1>3. ASSUME NEW m \in MoveRates, SetsRate(m)
      PROVE  \E move : /\ onTheWay' = Append(onTheWay, move) /\ move.offset = known
                       /\ PanelIn(panel', axis) /\ Leads(panel, panel', move, axis)
  <2> DEFINE next == [at |-> Instant, mult |-> m]
             move == [kind |-> "schedule", next |-> [at |-> Instant + known, mult |-> m], offset |-> known]
  <2>1. next \in Changes /\ next.at = Instant /\ next.mult = m BY InstantIs DEF Changes
  <2>2. panel' = [PanelSettled EXCEPT !.scheduled = {next}] /\ onTheWay' = Append(onTheWay, move)
    BY <1>3 DEF SetsRate, Given, ForPages
  <2>3. panel' = [seg |-> SegmentOf(panel, axis), scheduled |-> {next}]
    BY <1>1, <2>2 DEF PanelSettled
  <2> HIDE DEF next
  <2>4. PanelIn(panel', axis)
    <3>1. SegmentOf(panel, axis).real0 \in Int /\ SegmentOf(panel, axis).real0 <= axis
      BY <1>1, <1>2 DEF Segments, SegmentIn
    <3>2. SegmentOf(panel, axis).real0 <= next.at BY <1>1, <2>1, <3>1, InstantIs
    <3>3. QED BY <1>2, <2>3, <3>2 DEF PanelIn
  <2>5. Leads(panel, panel', move, axis)
    <3>1. axis <= axis /\ axis <= next.at BY <1>1, <2>1, InstantIs
    <3>2. \A c \in panel.scheduled : c.at <= axis \/ c.at = next.at BY <2>1, InstantIs
    <3>3. move.kind = "schedule" /\ move.next = [at |-> next.at + move.offset, mult |-> next.mult]
      BY <2>1
    <3> HIDE DEF move
    <3>4. QED BY <1>1, <2>1, <2>3, <3>1, <3>2, <3>3 DEF Leads
  <2>6. QED BY <2>2, <2>4, <2>5
<1>4. ASSUME NEW to \in MoveTargets, JumpsTo(to)
      PROVE  \E move : /\ onTheWay' = Append(onTheWay, move) /\ move.offset = known
                       /\ PanelIn(panel', axis) /\ Leads(panel, panel', move, axis)
  <2> DEFINE left == panel.scheduled \ Due(panel)
  <2>11. PICK seg : seg = [SegmentNow EXCEPT !.fake0 = to, !.real0 = axis] OBVIOUS
  <2>1. panel' = Jumped(to) /\ onTheWay' = Append(onTheWay, WholeClock(Jumped(to)))
    BY <1>4 DEF JumpsTo, Given
  <2>2. Jumped(to) = [seg |-> seg, scheduled |-> left]
    <3>1. Jumped(to) = [seg |-> [SegmentNow EXCEPT !.fake0 = to, !.real0 = axis], scheduled |-> left]
      <4>1. PanelSettled = [seg |-> SegmentNow, scheduled |-> left] BY DEF PanelSettled
      <4> HIDE DEF left
      <4>2. \A p : [p EXCEPT !.seg.fake0 = to, !.seg.real0 = axis] = [p EXCEPT !.seg = [p.seg EXCEPT !.fake0 = to, !.real0 = axis]]
        OBVIOUS
      <4>3. Jumped(to) = [PanelSettled EXCEPT !.seg = [PanelSettled.seg EXCEPT !.fake0 = to, !.real0 = axis]]
        BY <4>2 DEF Jumped
      <4>4. PanelSettled.seg = SegmentNow BY <4>1
      <4>5. QED BY <4>1, <4>3, <4>4
    <3>2. QED BY <2>11, <3>1
  <2>3. \A c \in left : axis <= c.at BY <1>1, WaitingAre DEF Due, Panels
  <2> HIDE DEF left
  <2>4. panel'.seg.fake0 = to /\ panel'.seg.real0 = axis /\ panel'.scheduled = left
    <3>1. seg.fake0 = to /\ seg.real0 = axis
      <4>1. SegmentNow \in Segments BY <1>1
      <4> DEFINE there == [SegmentNow EXCEPT !.fake0 = to]
      <4>2. there \in Segments /\ there.fake0 = to BY <4>1, ClockNumbers DEF Segments
      <4>3. seg = [there EXCEPT !.real0 = axis] BY <2>11
      <4> HIDE DEF there
      <4>4. QED BY <4>2, <4>3 DEF Segments
    <3>2. QED BY <2>1, <2>2, <3>1
  <2>5. PanelIn(panel', axis)
    <3>1. 0 <= to /\ to <= WALL_MAX /\ axis <= axis BY <1>1, ClockNumbers
    <3>2. QED BY <2>3, <2>4, <3>1 DEF PanelIn, SegmentIn
  <2> DEFINE move == WholeClock(panel')
  <2>6. move.kind = "set" /\ move.offset = known /\ move.origin = ShimOrigin(panel')
    BY DEF WholeClock
  <2>7. ShimOrigin(panel') = Origin(panel', known) BY DEF ShimOrigin, Origin, Shifted, ForPages
  <2>8. Leads(panel, panel', move, axis) BY <2>6, <2>7 DEF Leads
  <2>9. onTheWay' = Append(onTheWay, move) BY <2>1
  <2> HIDE DEF move
  <2>10. QED BY <2>5, <2>6, <2>8, <2>9
<1>5. QED BY <1>3, <1>4

\* The whole clock a turn gives.
LEMMA TurnLeads ==
  ASSUME PanelInv, Turns, offset \in Int
  PROVE  \/ onTheWay' = onTheWay /\ pushed' = pushed
         \/ \E move : /\ onTheWay' = Append(onTheWay, move) /\ move.offset = offset /\ pushed' = offset
                      /\ Leads(panel, panel, move, axis)
<1>1. panel \in Panels BY PanelIs
<1> DEFINE w == {[next EXCEPT !.at = @ + offset] : next \in panel.scheduled}
           origin == [ShimOrigin(panel) EXCEPT !.real = panel.seg.real0 + offset, !.waiting = w]
           move == [kind |-> "set", origin |-> origin, offset |-> offset]
<1>2. \/ onTheWay' = onTheWay /\ pushed' = pushed
      \/ onTheWay' = Append(onTheWay, move) /\ pushed' = offset
  BY DEF Turns, Given
<1>3. w = Shifted(panel.scheduled, offset)
  <2>1. \A next \in panel.scheduled : [next EXCEPT !.at = @ + offset] = [at |-> next.at + offset, mult |-> next.mult]
    <3>1. \A next \in panel.scheduled : next \in Changes BY <1>1, WaitingAre DEF Panels
    <3>2. \A next \in Changes : [next EXCEPT !.at = @ + offset] = [at |-> next.at + offset, mult |-> next.mult]
      BY DEF Changes
    <3>3. QED BY <3>1, <3>2
  <2>2. QED BY <2>1 DEF Shifted
<1> HIDE DEF w
<1>4. origin = Origin(panel, offset)
  <2>6. PICK f, x, y, m, u : f = panel.seg.fake0 /\ x = panel.seg.real0 + known /\ y = panel.seg.real0 + offset
                             /\ m = panel.seg.mult /\ u = {ForPages(next) : next \in panel.scheduled}
    OBVIOUS
  <2> DEFINE o == [fake |-> f, real |-> x, mult |-> m, waiting |-> u]
  <2>1. ShimOrigin(panel) = o BY <2>6 DEF ShimOrigin
  <2> DEFINE there == [o EXCEPT !.real = y]
  <2>2. there = [fake |-> f, real |-> y, mult |-> m, waiting |-> u] OBVIOUS
  <2>3. origin = [there EXCEPT !.waiting = w] BY <2>1, <2>6
  <2> HIDE DEF there, o
  <2>4. [there EXCEPT !.waiting = w] = [fake |-> f, real |-> y, mult |-> m, waiting |-> w] BY <2>2
  <2>5. QED BY <1>3, <2>3, <2>4, <2>6 DEF Origin
<1> HIDE DEF origin
<1>5. move.kind = "set" /\ move.origin = Origin(panel, move.offset) /\ move.offset = offset BY <1>4
<1> HIDE DEF move
<1>6. Leads(panel, panel, move, axis) BY <1>5 DEF Leads
<1>7. QED BY <1>2, <1>5, <1>6

LEMMA WayStarts == ClockInit => WayInv
<1> SUFFICES ASSUME ClockInit PROVE WayInv OBVIOUS
<1> USE ClockNumbers
<1>1. PICK fake \in MoveTargets, m \in MoveRates :
          /\ panel = [seg |-> [fake0 |-> fake, real0 |-> 0, mult |-> m, acc |-> 0, dur0 |-> 0], scheduled |-> {}]
          /\ shim = [fake |-> fake, real |-> 0, M |-> m, D |-> DurationRate(m), waiting |-> {},
                     base |-> 0, anchor |-> 0, read |-> 0]
  BY DEF ClockInit
<1>2. axis = 0 /\ offset = 0 /\ pushed = 0 /\ onTheWay = <<>> BY DEF ClockInit
<1>3. panel \in Panels BY ClockStarts DEF ClockInv, PanelInv
<1>4. panel.seg.fake0 = fake /\ panel.seg.real0 = 0 /\ panel.seg.mult = m /\ panel.scheduled = {}
  BY <1>1
<1>5. shim.fake = fake /\ shim.real = 0 /\ shim.M = m /\ shim.waiting = {} BY <1>1
<1>6. TakenUp(panel)
  <2>1. Matches(shim, panel, offset, axis)
    <3>1. Shows(shim, panel.seg, panel.scheduled, offset) BY <1>2, <1>4, <1>5, ShiftedAre DEF Shows
    <3>2. QED BY <3>1 DEF Matches
  <2>2. shim.real = panel.seg.real0 + pushed BY <1>2, <1>4, <1>5
  <2>3. QED BY <1>4, <1>5, <2>1, <2>2 DEF TakenUp
<1> DEFINE h == <<panel>>
<1>7. Way(h, onTheWay, panel, axis)
  <2>1. h \in Seq(Panels) /\ Len(h) = 1 /\ h[1] = panel /\ Len(onTheWay) = 0 BY <1>2, <1>3
  <2>2. PanelIn(panel, axis) BY <1>2, <1>4 DEF PanelIn, SegmentIn
  <2> HIDE DEF h
  <2>3. \A i \in 1..Len(h) : i = 1 BY <2>1
  <2>4. \A i \in 1..Len(onTheWay) : FALSE BY <2>1
  <2>5. Len(h) = Len(onTheWay) + 1 /\ h[Len(h)] = panel BY <2>1
  <2>6. QED BY <2>1, <2>2, <2>3, <2>4, <2>5 DEF Way
<1>8. h[1] = panel OBVIOUS
<1> HIDE DEF h
<1>9. QED BY <1>2, <1>6, <1>7, <1>8 DEF WayInv

LEMMA WaySteps ==
  ASSUME ClockInv, ClockInv', WayInv, [ClockNext]_clockVars
  PROVE  WayInv'
<1> USE ClockNumbers
<1>1. /\ axis \in Int /\ offset \in Int /\ known \in Int /\ pushed \in Int /\ panel \in Panels /\ panel' \in Panels
      /\ SystemClock = axis + offset /\ Monotonic \in Int /\ perfRead \in Int
      /\ onTheWay \in Seq(PageMoves) /\ onTheWay' \in Seq(PageMoves) /\ axis' \in Int
      /\ HasMeasured(shim, perfRead, Monotonic)
  <2>1. PanelInv /\ PanelInv' /\ PageInv /\ PageInv' BY DEF ClockInv
  <2>2. axis \in Int /\ panel \in Panels /\ panel' \in Panels /\ axis' \in Int BY <2>1 DEF PanelInv
  <2>3. offset \in Int /\ known \in Int /\ pushed \in Int BY <2>1 DEF PanelInv, WayInv
  <2>4. slept \in Int /\ perfRead \in Int /\ onTheWay \in Seq(PageMoves) /\ onTheWay' \in Seq(PageMoves)
    BY <2>1 DEF PageInv, PageMoves
  <2>5. HasMeasured(shim, perfRead, Monotonic) BY <2>1 DEF PageInv, HasMeasured
  <2>6. QED BY <2>2, <2>3, <2>4, <2>5 DEF SystemClock, Monotonic
<1>2. PICK h : Way(h, onTheWay, panel, axis) /\ TakenUp(h[1]) BY DEF WayInv
<1>3. /\ h \in Seq(Panels) /\ Len(h) \in Nat /\ Len(h) = Len(onTheWay) + 1 /\ Len(onTheWay) \in Nat /\ h[Len(h)] = panel
      /\ h[1] \in Panels /\ PanelIn(h[1], axis) /\ PanelIn(panel, axis)
  <2>1. h \in Seq(Panels) /\ Len(h) \in Nat /\ Len(h) = Len(onTheWay) + 1 /\ Len(onTheWay) \in Nat /\ h[Len(h)] = panel
    BY <1>1, <1>2 DEF Way
  <2>2. 1 \in 1..Len(h) /\ Len(h) \in 1..Len(h) BY <2>1
  <2>3. h[1] \in Panels BY <2>1, <2>2
  <2>4. QED BY <1>2, <2>1, <2>2, <2>3 DEF Way
\* The last move given stands on what was pushed.
<1>4. ASSUME onTheWay' = onTheWay, pushed' = pushed
      PROVE  pushed' \in Int /\ (onTheWay' # <<>> => onTheWay'[Len(onTheWay')].offset = pushed')
  BY <1>1, <1>4 DEF WayInv
<1>5. ASSUME NEW move, onTheWay' = Append(onTheWay, move), move.offset = pushed', pushed' \in Int
      PROVE  /\ pushed' \in Int /\ (onTheWay' # <<>> => onTheWay'[Len(onTheWay')].offset = pushed')
             /\ onTheWay' # <<>> /\ move \in PageMoves
  <2>1. Len(onTheWay') = Len(onTheWay) + 1 /\ onTheWay'[Len(onTheWay) + 1] = move BY <1>1, <1>5
  <2>2. Len(onTheWay) + 1 \in 1..Len(onTheWay') BY <1>3, <2>1
  <2>3. onTheWay' # <<>> BY <1>3, <2>1, <2>2
  <2>4. move \in PageMoves BY <1>1, <2>1, <2>2
  <2>5. QED BY <1>5, <2>1, <2>3, <2>4
\* With what the page runs on and the panel left alone.
<1>6. ASSUME UNCHANGED <<panel, onTheWay, pushed, shim, rated>>, axis <= axis',
             (steady' /\ ~apart') => steady /\ ~apart /\ Matches(shim, h[1], offset, axis) /\ offset' = offset
      PROVE  WayInv'
  <2>1. Way(h, onTheWay', panel', axis') BY <1>1, <1>2, <1>6, WayStays
  <2>2. TakenUp(h[1])'
    <3>1. ASSUME steady', ~apart' PROVE Matches(shim, h[1], offset, axis')
      <4>1. Matches(shim, h[1], offset, axis) BY <1>6, <3>1
      <4>2. \A c \in h[1].scheduled : c.at \in Int BY <1>3, WaitingAre DEF Panels
      <4>3. \A c \in h[1].scheduled : c.at <= axis => c.at <= axis' BY <1>1, <1>6, <4>2
      <4>4. QED BY <4>1, <4>3 DEF Matches
    <3>2. steady' /\ ~apart' => Matches(shim', h[1], offset', axis') BY <1>6, <3>1
    <3>3. QED BY <1>2, <1>6, <3>2 DEF TakenUp
  <2>3. QED BY <1>4, <1>6, <2>1, <2>2 DEF WayInv
\* With what the page runs on left alone and a move given.
<1>7. ASSUME NEW move, onTheWay' = Append(onTheWay, move), move.offset = pushed', pushed' \in Int,
             PanelIn(panel', axis), Leads(panel, panel', move, axis), UNCHANGED <<axis, offset, shim, apart, steady, rated>>
      PROVE  WayInv'
  <2>1. move \in PageMoves /\ onTheWay' # <<>> BY <1>5, <1>7
  <2>2. PICK g : g = Append(h, panel') OBVIOUS
  <2>3. Way(g, onTheWay', panel', axis') /\ g[1] = h[1] BY <1>1, <1>2, <1>7, <2>1, <2>2, WayGrows
  <2>4. TakenUp(h[1])' BY <1>2, <1>7, <2>1 DEF TakenUp
  <2>5. TakenUp(g[1])' BY <2>3, <2>4
  <2>6. QED BY <1>5, <1>7, <2>3, <2>5 DEF WayInv
<1>8. CASE Passes
  <2>1. axis <= axis' /\ UNCHANGED <<panel, onTheWay, pushed, shim, rated, offset, apart, steady>>
    BY <1>1, <1>8 DEF Passes
  <2>2. QED BY <1>2, <1>6, <2>1 DEF TakenUp
<1>9. CASE Shifts BY <1>1, <1>6, <1>9 DEF Shifts
<1>10. CASE \E m \in MoveRates : SetsRate(m)
  <2>1. PICK m \in MoveRates : SetsRate(m) BY <1>10
  <2>2. PICK move : /\ onTheWay' = Append(onTheWay, move) /\ move.offset = known
                    /\ PanelIn(panel', axis) /\ Leads(panel, panel', move, axis)
    BY <1>1, <1>3, <2>1, PanelCommands DEF ClockInv
  <2>3. pushed' = known /\ UNCHANGED <<axis, offset, shim, apart, steady, rated>>
    BY <2>1 DEF SetsRate, Given
  <2>4. QED BY <1>1, <1>7, <2>2, <2>3
<1>11. CASE \E to \in MoveTargets : JumpsTo(to)
  <2>1. PICK to \in MoveTargets : JumpsTo(to) BY <1>11
  <2>2. PICK move : /\ onTheWay' = Append(onTheWay, move) /\ move.offset = known
                    /\ PanelIn(panel', axis) /\ Leads(panel, panel', move, axis)
    BY <1>1, <1>3, <2>1, PanelCommands DEF ClockInv
  <2>3. pushed' = known /\ UNCHANGED <<axis, offset, shim, apart, steady, rated>>
    BY <2>1 DEF JumpsTo, Given
  <2>4. QED BY <1>1, <1>7, <2>2, <2>3
<1>12. CASE Turns
  <2>1. UNCHANGED <<axis, offset, panel, shim, apart, steady, rated>> BY <1>12 DEF Turns
  <2>2. \/ onTheWay' = onTheWay /\ pushed' = pushed
        \/ \E move : /\ onTheWay' = Append(onTheWay, move) /\ move.offset = offset /\ pushed' = offset
                     /\ Leads(panel, panel, move, axis)
    BY <1>1, <1>12, TurnLeads DEF ClockInv
  <2>3. CASE onTheWay' = onTheWay /\ pushed' = pushed
    <3>1. axis <= axis' BY <1>1, <2>1
    <3>2. QED BY <1>2, <1>6, <2>1, <2>3, <3>1 DEF TakenUp
  <2>4. ASSUME NEW move, onTheWay' = Append(onTheWay, move), move.offset = offset, pushed' = offset,
               Leads(panel, panel, move, axis)
        PROVE  WayInv'
    BY <1>1, <1>3, <1>7, <2>1, <2>4
  <2>5. QED BY <2>2, <2>3, <2>4
<1>13. CASE TakesMove
  <2>1. PICK move : move = Head(onTheWay) OBVIOUS
  <2>2. /\ onTheWay # <<>> /\ onTheWay' = Tail(onTheWay) /\ UNCHANGED <<axis, offset, panel, pushed>>
        /\ \/ /\ move.kind = "set" /\ shim' = ShimSet(shim, SystemClock, Monotonic, move.origin)
              /\ apart' = FALSE /\ steady' = (offset = move.offset) /\ rated' = (move.origin.waiting # {})
           \/ /\ move.kind = "schedule" /\ shim' = ShimScheduled(shim, SystemClock, Monotonic, move.next)
              /\ apart' = (apart \/ SystemClock > move.next.at) /\ steady' = (steady /\ offset = move.offset) /\ rated' = TRUE
    BY <1>13, <2>1 DEF TakesMove
  <2>3. PICK g : g = Tail(h) OBVIOUS
  <2>4. PICK p : p = h[1] OBVIOUS
  <2>5. PICK q : q = h[2] OBVIOUS
  <2>6. /\ Way(g, onTheWay', panel, axis) /\ g[1] = q /\ p \in Panels /\ PanelIn(p, axis) /\ q \in Panels /\ PanelIn(q, axis)
        /\ Leads(p, q, move, axis)
        /\ (onTheWay' = <<>> => move = onTheWay[Len(onTheWay)])
        /\ (onTheWay' # <<>> => onTheWay'[Len(onTheWay')] = onTheWay[Len(onTheWay)])
    BY <1>1, <1>2, <2>1, <2>2, <2>3, <2>4, <2>5, WayShrinks
  <2>7. onTheWay[Len(onTheWay)].offset = pushed BY <2>2 DEF WayInv
  <2>8. move \in PageMoves BY <1>1, <2>1, <2>2
  <2>9. ASSUME steady', ~apart' PROVE Matches(shim', q, offset', axis')
    <3>1. offset = move.offset BY <2>2, <2>9
    <3>2. PICK x : x = axis + offset OBVIOUS
    <3>3. /\ move.kind = "set" => Matches(ShimSet(shim, x, Monotonic, move.origin), q, offset, axis)
          /\ move.kind = "schedule" /\ x <= move.next.at /\ Matches(shim, p, offset, axis)
               => Matches(ShimScheduled(shim, x, Monotonic, move.next), q, offset, axis)
      BY <1>1, <2>6, <2>8, <3>1, <3>2, LeadsMatch
    <3>4. CASE move.kind = "set" /\ shim' = ShimSet(shim, SystemClock, Monotonic, move.origin)
      BY <1>1, <2>2, <3>2, <3>3, <3>4
    <3>5. CASE /\ move.kind = "schedule" /\ shim' = ShimScheduled(shim, SystemClock, Monotonic, move.next)
               /\ apart' = (apart \/ SystemClock > move.next.at) /\ steady' = (steady /\ offset = move.offset)
      <4>1. steady /\ ~apart /\ ~(SystemClock > move.next.at) BY <2>9, <3>5
      <4>2. Matches(shim, p, offset, axis) BY <1>2, <2>4, <4>1 DEF TakenUp
      <4>3. move.next.at \in Int BY <2>8, <3>5 DEF PageMoves, WholeMoves, RateChanges, Changes
      <4>4. x <= move.next.at /\ x = SystemClock BY <1>1, <3>2, <4>1, <4>3
      <4>5. QED BY <2>2, <3>3, <3>5, <4>2, <4>4
    <3>6. QED BY <2>2, <3>4, <3>5
  <2>10. ASSUME ~rated'
         PROVE  /\ q.scheduled = {} /\ shim'.waiting = {} /\ shim'.fake = q.seg.fake0 /\ shim'.M = q.seg.mult
                /\ (onTheWay' = <<>> => shim'.real = q.seg.real0 + pushed')
    <3>1. move.kind = "set" /\ shim' = ShimSet(shim, SystemClock, Monotonic, move.origin) /\ move.origin.waiting = {}
      BY <2>2, <2>10
    <3>2. move.origin = Origin(q, move.offset) /\ move.origin \in Origins
      BY <2>6, <2>8, <3>1 DEF Leads, PageMoves, WholeMoves, RateChanges
    <3>3. SystemClock \in Int BY <1>1
    <3>4. shim'.fake = move.origin.fake /\ shim'.real = move.origin.real /\ shim'.M = move.origin.mult /\ shim'.waiting = {}
      BY <1>1, <3>1, <3>2, <3>3, SetStands
    <3>5. move.origin.fake = q.seg.fake0 /\ move.origin.real = q.seg.real0 + move.offset /\ move.origin.mult = q.seg.mult
          /\ Shifted(q.scheduled, move.offset) = {}
      BY <3>1, <3>2 DEF Origin
    <3>6. q.scheduled = {} BY <3>5, ShiftedAre
    <3>7. onTheWay' = <<>> => move.offset = pushed' BY <2>2, <2>6, <2>7
    <3>8. QED BY <3>4, <3>5, <3>6, <3>7
  <2>11. TakenUp(q)' BY <2>9, <2>10 DEF TakenUp
  <2>12. TakenUp(g[1])' BY <2>6, <2>11
  <2>13. pushed' \in Int /\ (onTheWay' # <<>> => onTheWay'[Len(onTheWay')].offset = pushed')
    BY <1>1, <2>2, <2>6, <2>7
  <2>14. Way(g, onTheWay', panel', axis') BY <2>2, <2>6
  <2>15. QED BY <2>12, <2>13, <2>14 DEF WayInv
<1>14. CASE ReadsPerf
  <2>1. PICK r : r = ShimSettled(shim, SystemClock, Monotonic) OBVIOUS
  <2>2. shim' = [r EXCEPT !.read = Monotonic] /\ UNCHANGED <<axis, offset, panel, pushed, onTheWay, apart, steady, rated>>
    BY <1>14, <2>1 DEF ReadsPerf, ShimNow
  <2>3. PICK p : p = h[1] OBVIOUS
  <2>4. /\ Matches(shim, p, offset, axis) => Matches(shim', p, offset, axis)
        /\ shim.waiting = {} => shim'.waiting = {} /\ shim'.fake = shim.fake /\ shim'.M = shim.M /\ shim'.real = shim.real
    <3>1. PICK z : z = [r EXCEPT !.read = Monotonic] OBVIOUS
    <3>2. p \in Panels /\ PanelIn(p, axis) BY <1>3, <2>3
    <3>3. PICK x : x = axis + offset OBVIOUS
    <3>4. r = ShimSettled(shim, x, Monotonic) BY <1>1, <2>1, <3>3
    <3>5. /\ Matches(shim, p, offset, axis) => Matches(z, p, offset, axis)
          /\ shim.waiting = {} => z.waiting = {} /\ z.fake = shim.fake /\ z.M = shim.M /\ z.real = shim.real
      <4>1. HasMeasured(shim, perfRead, Monotonic) /\ perfRead \in Int /\ Monotonic \in Int /\ offset \in Int /\ axis \in Int
        BY <1>1
      <4>2. r \in Shims BY <4>1, <3>3, <3>4, SettledMeasures DEF HasMeasured
      <4>3. z.waiting = r.waiting /\ z.fake = r.fake /\ z.M = r.M /\ z.real = r.real
        BY <3>1, <4>2 DEF Shims
      <4>4. QED BY <4>1, <4>3, <3>2, <3>3, <3>4, TakenSettles
    <3>6. QED BY <2>2, <3>1, <3>5
  <2>5. TakenUp(p) BY <1>2, <2>3
  <2>6. TakenUp(p)' BY <2>2, <2>4, <2>5 DEF TakenUp
  <2>7. TakenUp(h[1])' BY <2>3, <2>6
  <2>8. Way(h, onTheWay', panel', axis') BY <1>2, <2>2
  <2>9. QED BY <1>4, <2>2, <2>7, <2>8 DEF WayInv
<1>15. CASE UNCHANGED clockVars
  <2>1. axis <= axis' /\ UNCHANGED <<panel, onTheWay, pushed, shim, rated, offset, apart, steady>>
    BY <1>1, <1>15 DEF clockVars
  <2>2. QED BY <1>2, <1>6, <2>1 DEF TakenUp
<1>16. QED BY <1>8, <1>9, <1>10, <1>11, <1>12, <1>13, <1>14, <1>15 DEF ClockNext

\* What a page that has taken everything reads.
LEMMA PageReads ==
  ASSUME ClockInv, WayInv, Quiet
  PROVE  /\ TakenUp(panel) /\ PanelIn(panel, axis) /\ axis \in Int /\ offset \in Int /\ pushed \in Int /\ panel \in Panels
         /\ HasMeasured(shim, perfRead, Monotonic) /\ perfRead \in Int /\ Monotonic \in Int
         /\ FakeWall = WallAt(SegmentOf(panel, axis), axis) /\ SegmentNow = SegmentOf(panel, axis)
<1>1. PICK h : Way(h, onTheWay, panel, axis) /\ TakenUp(h[1]) BY DEF WayInv
<1>2. Len(onTheWay) = 0 BY DEF Quiet
<1>3. Len(h) = 1 /\ h[Len(h)] = panel BY <1>1, <1>2 DEF Way
<1>4. PanelIn(h[1], axis) BY <1>1, <1>3 DEF Way
<1>5. TakenUp(panel) /\ PanelIn(panel, axis) BY <1>1, <1>3, <1>4
<1>6. axis \in Int /\ panel \in Panels /\ FakeWall = WallAt(SegmentOf(panel, axis), axis) /\ SegmentNow = SegmentOf(panel, axis)
  BY PanelIs DEF ClockInv
<1>7. offset \in Int /\ pushed \in Int /\ slept \in Int /\ perfRead \in Int
  BY DEF ClockInv, PanelInv, PageInv, WayInv
<1>8. HasMeasured(shim, perfRead, Monotonic) BY DEF ClockInv, PageInv, HasMeasured
<1>9. QED BY <1>5, <1>6, <1>7, <1>8 DEF Monotonic

LEMMA PageIsPanel == ASSUME ClockInv, WayInv PROVE PageIsThePanel
<1> SUFFICES ASSUME Quiet, steady PROVE PageWall = FakeWall BY DEF PageIsThePanel
<1>1. /\ TakenUp(panel) /\ PanelIn(panel, axis) /\ axis \in Int /\ offset \in Int /\ panel \in Panels
      /\ HasMeasured(shim, perfRead, Monotonic) /\ perfRead \in Int /\ Monotonic \in Int
      /\ FakeWall = WallAt(SegmentOf(panel, axis), axis)
  BY PageReads
<1>2. ~apart BY DEF Quiet
<1>3. Matches(shim, panel, offset, axis) BY <1>1, <1>2 DEF TakenUp
<1>4. PICK x : x = axis + offset OBVIOUS
<1>5. PICK r : r = ShimSettled(shim, x, Monotonic) OBVIOUS
<1>6. SystemClock = x /\ ShimNow = r BY <1>4, <1>5 DEF SystemClock, ShimNow
<1>7. Shows(r, SegmentOf(panel, axis), Later(panel, axis), offset)
  BY <1>1, <1>3, <1>4, <1>5, ShownSettles
<1>8. SegmentIn(SegmentOf(panel, axis), axis) /\ SegmentOf(panel, axis) \in Segments
  BY <1>1, SegmentInRange, SegmentIs
<1>9. PageWall = Least(r.fake + (x - r.real) * r.M, WALL_MAX) BY <1>6 DEF PageWall
<1>10. PICK seg : seg = SegmentOf(panel, axis) OBVIOUS
<1>11. r.fake = seg.fake0 /\ r.real = seg.real0 + offset /\ r.M = seg.mult BY <1>7, <1>10 DEF Shows
<1>12. Least(seg.fake0 + (x - r.real) * seg.mult, WALL_MAX) = WallAt(seg, axis)
  BY <1>1, <1>4, <1>8, <1>10, <1>11, ShownWall
<1>13. QED BY <1>1, <1>9, <1>10, <1>11, <1>12

\* Two readings cut off at one end stand no further apart than uncut.
LEMMA CutNear ==
  ASSUME NEW x \in Nat, NEW d \in Int, NEW n \in Nat, Abs(d) <= n
  PROVE  Abs(Least(x + d, WALL_MAX) - Most(0, Least(x, WALL_MAX))) <= n
  BY ClockNumbers DEF Abs, Least, Most

LEMMA PagesNear == ASSUME ClockInv, WayInv PROVE KeptNear
<1> SUFFICES ASSUME Quiet, ~rated PROVE Abs(PageWall - FakeWall) <= DRIFT BY DEF KeptNear
<1>1. /\ TakenUp(panel) /\ PanelIn(panel, axis) /\ axis \in Int /\ offset \in Int /\ pushed \in Int /\ panel \in Panels
      /\ HasMeasured(shim, perfRead, Monotonic) /\ perfRead \in Int /\ Monotonic \in Int
      /\ FakeWall = WallAt(SegmentOf(panel, axis), axis) /\ SegmentNow = SegmentOf(panel, axis)
  BY PageReads
<1>2. onTheWay = <<>> /\ ~(Abs(Drift) > DRIFT) BY DEF Quiet, ResyncDue
<1>3. PICK seg : seg = panel.seg OBVIOUS
<1>4. panel.scheduled = {} /\ shim.waiting = {} /\ shim.fake = seg.fake0 /\ shim.M = seg.mult /\ shim.real = seg.real0 + pushed
  BY <1>1, <1>2, <1>3 DEF TakenUp
<1>5. SegmentOf(panel, axis) = seg BY <1>1, <1>3, <1>4, SegmentIs
<1>6. ShimNow = shim BY <1>4 DEF ShimNow, ShimSettled
<1>7. seg.fake0 \in Nat /\ seg.real0 \in Int /\ seg.mult \in Nat /\ seg.real0 <= axis
  <2>1. seg.fake0 \in Int /\ seg.real0 \in Int /\ seg.mult \in Nat
    BY <1>1, <1>3, ClockNumbers DEF Panels, Segments
  <2>2. 0 <= seg.fake0 /\ seg.real0 <= axis BY <1>1, <1>3 DEF PanelIn, SegmentIn
  <2>3. QED BY <2>1, <2>2
<1> DEFINE e == (axis - seg.real0) * seg.mult  d == (offset - pushed) * seg.mult
<1>8. e \in Nat /\ d \in Int
  <2>1. \A m, n \in Nat : m * n \in Nat OBVIOUS
  <2>2. \A m, n \in Int : m * n \in Int OBVIOUS
  <2>3. axis - seg.real0 \in Nat /\ offset - pushed \in Int BY <1>1, <1>7
  <2>4. QED BY <1>7, <2>1, <2>2, <2>3
<1>9. (SystemClock - shim.real) * seg.mult = e + d
  <2>1. SystemClock - shim.real = (axis - seg.real0) + (offset - pushed)
    BY <1>1, <1>4, <1>7 DEF SystemClock
  <2>2. \A x, y, m \in Int : (x + y) * m = x * m + y * m OBVIOUS
  <2>3. axis - seg.real0 \in Int /\ offset - pushed \in Int /\ seg.mult \in Int BY <1>1, <1>7
  <2>4. QED BY <2>1, <2>2, <2>3
<1>10. Drift = d BY <1>1, <1>5 DEF Drift
<1>11. PageWall = Least(seg.fake0 + (SystemClock - shim.real) * seg.mult, WALL_MAX)
  <2>1. PageWall = Least(shim.fake + (SystemClock - shim.real) * shim.M, WALL_MAX)
    BY <1>6 DEF PageWall
  <2> HIDE DEF e, d
  <2>3. shim.fake = seg.fake0 /\ shim.M = seg.mult BY <1>4
  <2>4. QED BY <2>1, <2>3
<1>12. FakeWall = Most(0, Least(seg.fake0 + e, WALL_MAX)) BY <1>1, <1>5 DEF WallAt
<1> HIDE DEF e, d
<1>13. PICK x \in Nat : x = seg.fake0 + e BY <1>7, <1>8
<1>14. seg.fake0 + (e + d) = x + d BY <1>7, <1>8, <1>13
<1>15. Abs(d) <= DRIFT /\ DRIFT \in Nat
  <2>1. DRIFT \in Nat BY CdpClockAssumption
  <2>2. Abs(d) \in Int BY <1>8 DEF Abs
  <2>3. QED BY <1>2, <1>10, <2>1, <2>2
<1>16. Abs(Least(x + d, WALL_MAX) - Most(0, Least(x, WALL_MAX))) <= DRIFT
  BY <1>8, <1>13, <1>15, CutNear
<1>17. QED BY <1>9, <1>11, <1>12, <1>13, <1>14, <1>16

LEMMA ClockTypes == ASSUME ClockInv, WayInv PROVE ClockTypeOK
<1>1. axis \in 0..LastInstant /\ {offset, slept, known, pushed} \subseteq Int /\ panel \in Panels /\ shim \in Shims
  BY DEF ClockInv, PanelInv, PageInv, WayInv
<1>2. \A w \in Waiting : Cardinality(w) <= 1
  <2>1. TAKE w \in Waiting
  <2>2. CASE w = {} BY <2>2, FS_EmptySet
  <2>3. CASE w # {}
    <3>1. PICK c : c \in w BY <2>3
    <3>2. w = {c} BY <3>1 DEF Waiting
    <3>3. QED
      <4>1. Cardinality({c}) = 1 BY FS_Singleton
      <4>2. QED BY <3>2, <4>1
  <2>4. QED BY <2>2, <2>3
<1>3. panel.scheduled \in Waiting /\ panel.seg.mult \in MoveRates BY <1>1 DEF Panels, Segments
<1>4. shim.waiting \in Waiting /\ shim.M \in MoveRates /\ shim.D \in Nat \ {0} BY <1>1 DEF Shims
<1>5. FakeWall \in 0..WALL_MAX
  <2>1. FakeWall = WallAt(SegmentOf(panel, axis), axis) /\ SegmentOf(panel, axis) \in Segments /\ axis \in Int
    BY PanelIs DEF ClockInv
  <2>2. FakeWall \in Int /\ 0 <= FakeWall /\ FakeWall <= WALL_MAX BY <2>1, WallGoesOn
  <2>3. QED BY <2>2, ClockNumbers
<1>6. shim.D >= 1 BY <1>4
<1>7. QED BY <1>1, <1>2, <1>3, <1>4, <1>5, <1>6 DEF ClockTypeOK

\* A page that took every move in time reads the panel's wall, and between rate changes stands no
\* more than the drift allowed from it, for any rates, targets, delays, sleeps and corrections:
\* the change that waits takes effect on both at one instant, one that replaced another and one
\* that a jump crossed included (cli cdp_clock.rs, WallWatch of cdp_session.rs, the shim).
THEOREM PagesHold == ChromiumSpec => []SoundPages
<1>1. ChromiumInit => ClockInv /\ WayInv BY ClockStarts, WayStarts DEF ChromiumInit
<1>2. ClockInv /\ WayInv /\ [ChromiumNext]_chromiumVars => ClockInv' /\ WayInv'
  <2> SUFFICES ASSUME ClockInv, WayInv, [ChromiumNext]_chromiumVars PROVE ClockInv' /\ WayInv'
    OBVIOUS
  <2>1. [ClockNext]_clockVars BY DEF ChromiumNext, Moves, chromiumVars
  <2>2. ClockInv' BY <2>1, PanelSteps, PageSteps DEF ClockInv
  <2>3. WayInv' BY <2>1, <2>2, WaySteps
  <2>4. QED BY <2>2, <2>3
<1>3. ClockInv /\ WayInv => SoundPages
  <2> SUFFICES ASSUME ClockInv, WayInv PROVE PagesKeepTheClock BY DEF SoundPages
  <2>1. ElapsedIsLived BY DEF ClockInv, PanelInv, ElapsedIsLived
  <2>2. QED BY <2>1, PageIsPanel, PagesNear, ClockTypes DEF PagesKeepTheClock
<1>4. QED BY <1>1, <1>2, <1>3, PTL DEF ChromiumSpec

-----------------------------------------------------------------------------
(* The requests to a context.                                              *)

AskKinds == {"hook", "unhook", "move", "counts", "release"}
Scripts == Clocks \cup {NoHook}
Asks == [for : AskKinds \cup {"gone"}, clock : Scripts]
Requests == [for : AskKinds, clock : Scripts]
Replies == [for : AskKinds \cup {"gone"}, clock : Scripts, says : {"ok", "error", "null", "late"}]
Contexts == [on : BOOLEAN, session : 0..MaxSessions, page : BOOLEAN, current : Scripts,
             unremoved : Seq(Clocks), counting : BOOLEAN, released : BOOLEAN, answer : BOOLEAN,
             awaiting : BOOLEAN]
Documents == [at : NoDocument..MaxMoves, apart : BOOLEAN]
Engines == [alive : BOOLEAN, hooks : Seq(Clocks), doc : Documents, loads : 0..MaxLoads]

ContextShape ==
    /\ newest \in Clocks /\ phase \in {"running", "letgo", "ending", "over"} /\ linked \in BOOLEAN
    /\ ctx \in Contexts /\ missed \subseteq 1..MaxSessions /\ engine \in Engines
    /\ toPage \in Seq(Requests) /\ fromPage \in Seq(Replies)
    /\ freed \in {"untold", "all", "some"}

\* The requests under way in the order in which the session asked them, the answered ones first.
\* A page that takes one leaves the line as it is.
Asked(a) == Ask(a.for, a.clock)
LineOf(from, to) == [i \in 1..Len(from) |-> Asked(from[i])] \o to
Line == LineOf(fromPage, toPage)

\* What a request on the line is by itself,
Fits(r) ==
    /\ r.for \in {"hook", "unhook", "move"} => r.clock \in Clocks
    /\ r.for \in {"hook", "move"} => r.clock <= newest
    /\ r.for = "hook" => ctx.page /\ (~ctx.released => ctx.current < r.clock)
    /\ r.for = "unhook" /\ ~ctx.released => r.clock < ctx.current
    /\ r.for = "release" => ctx.released
    /\ r.for = "counts" => ctx.counting

\* and q behind r: the clocks rise, a hook is back before its move is out, nothing moves a page
\* behind its release, and one count is asked at a time.
Follows(r, q) ==
    /\ r.for = q.for /\ r.for \in {"hook", "move"} => r.clock < q.clock
    /\ r.for = "move" /\ q.for = "hook" => r.clock < q.clock
    /\ r.for = "hook" /\ q.for = "move" => q.clock < r.clock
    /\ r.for = "release" => q.for # "move"
    /\ ~(r.for = "counts" /\ q.for = "counts")
Ordered(l) == \A i, j \in 1..Len(l) : i < j => Follows(l[i], l[j])
LineInv == Ordered(Line) /\ \A r \in Range(Line) : Fits(r)

\* The context is on the list from its attaching to the event of its end, which is the last there is.
ListedInv ==
    /\ ctx.on \/ (toPage = <<>> /\ fromPage = <<>>)
    /\ engine.alive => ctx.on /\ \A a \in Range(fromPage) : a.for # "gone"
    /\ ctx.on => ctx.session >= 1
    /\ ctx.awaiting => ctx.page
    /\ \A i \in 1..Len(fromPage) : fromPage[i].for = "gone" => i = Len(fromPage)
    /\ phase = "over" => toPage = <<>> /\ fromPage = <<>>

\* The hook the session counts on, and those it has to have removed.
CurrentInv ==
    /\ ctx.released => ctx.current = NoHook
    /\ ctx.on /\ ~ctx.released =>
          /\ ctx.current # NoHook <=> ctx.page
          /\ ctx.current <= newest
          /\ \A h \in Range(ctx.unremoved) : h < ctx.current

\* Where the session has a script of the page: the current one, one to be removed, one whose answer it
\* has not seen, one it asked to have removed.
Known(h) ==
    \/ h = ctx.current \/ h \in Range(ctx.unremoved)
    \/ \E a \in Range(fromPage) : a.for = "hook" /\ a.says = "ok" /\ a.clock = h
    \/ \E a \in Range(fromPage) : a.for = "unhook" /\ a.says # "ok" /\ a.clock = h
    \/ \E r \in Range(toPage) : r.for = "unhook" /\ r.clock = h
Rising(s) == \A i, j \in 1..Len(s) : i < j => s[i] < s[j]
HooksInv ==
    /\ engine.alive /\ (~linked \/ ~ctx.page) => engine.hooks = <<>>
    /\ Rising(engine.hooks)
    /\ engine.alive /\ phase # "over" => \A h \in Range(engine.hooks) : Known(h)
    /\ engine.alive => \A h \in Range(engine.hooks), r \in Range(toPage) : r.for = "hook" => h < r.clock
    /\ Driven /\ ctx.page /\ linked => ctx.current \in Range(engine.hooks)
    /\ Driven /\ linked => \A a \in Range(fromPage) : a.for = "hook" /\ a.says = "ok" => a.clock \in Range(engine.hooks)

\* The document, and whether it or what is under way is of the last clock.
DocumentInv ==
    /\ engine.alive /\ engine.doc.at = Released => ctx.released /\ \A r \in Range(toPage) : r.for # "move"
    /\ Driven => engine.doc.at # Bare
    /\ engine.alive /\ engine.doc.at = NoDocument => ctx.page
NewestUnderWay ==
    \/ \E r \in Range(Line) : r.for = "hook" /\ r.clock = newest
    \/ \E r \in Range(toPage) : r.for = "move" /\ r.clock = newest
OlderUnderWay ==
    \/ \E r \in Range(Line) : r.for = "hook" /\ r.clock < newest
    \/ \E r \in Range(toPage) : r.for = "move" /\ r.clock < newest
Refused(kind) == \E a \in Range(fromPage) : a.for = kind /\ a.clock = newest /\ a.says # "ok"
Followed ==
    /\ OlderUnderWay => NewestUnderWay
    /\ \/ engine.doc.at = newest \/ NewestUnderWay
       \/ ctx.page /\ engine.doc.at = NoDocument
       \/ ~ctx.page /\ Refused("move")
    /\ ctx.page /\ linked =>
          \/ Last(engine.hooks) = newest \/ Refused("hook")
          \/ \E r \in Range(toPage) : r.for = "hook" /\ r.clock = newest
FollowedInv == Driven /\ ~Said => Followed

FreedInv ==
    /\ freed # "untold" => phase \in {"ending", "over"}
    /\ freed = "all" /\ ctx.on => \A r \in Range(Line) : r.for # "hook"
    /\ freed = "all" /\ ctx.on /\ engine.alive => engine.hooks = <<>>

ContextInv ==
    /\ ContextShape /\ LineInv /\ ListedInv /\ CurrentInv
    /\ HooksInv /\ DocumentInv /\ FollowedInv /\ FreedInv

-----------------------------------------------------------------------------
LEMMA ContextNumbers ==
  /\ {MaxMoves, MaxLoads, MaxSessions} \subseteq Nat /\ RateMoves \subseteq 1..MaxMoves
  /\ NoHook = -1 /\ Released = -1 /\ Bare = -2 /\ NoDocument = -3 /\ Clocks = 0..MaxMoves
BY CdpRequestsAssumption DEF NoHook, Released, Bare, NoDocument, Clocks

\* What a sequence has, and has when something is put behind it or taken from its front.
LEMMA RangeHas ==
  ASSUME NEW S, NEW s \in Seq(S)
  PROVE  /\ Range(s) \subseteq S
         /\ \A x : x \in Range(s) <=> \E i \in 1..Len(s) : s[i] = x
         /\ s = <<>> <=> Range(s) = {}
<1>1. DOMAIN s = 1..Len(s) /\ Len(s) \in Nat /\ \A i \in 1..Len(s) : s[i] \in S
  BY ElementOfSeq, LenProperties
<1>2. \A x : x \in Range(s) <=> \E i \in 1..Len(s) : s[i] = x BY <1>1 DEF Range
<1>3. Range(s) \subseteq S BY <1>1, <1>2
<1>4. s = <<>> => Range(s) = {}
  <2>1. Len(<<>>) = 0 BY EmptySeq
  <2>2. QED BY <1>2, <2>1
<1>5. Range(s) = {} => s = <<>>
  <2>1. SUFFICES ASSUME s # <<>> PROVE s[1] \in Range(s) OBVIOUS
  <2>2. Len(s) # 0 BY <2>1, EmptySeq
  <2>3. QED BY <1>1, <1>2, <2>2
<1>6. QED BY <1>2, <1>3, <1>4, <1>5

LEMMA RangeHead ==
  ASSUME NEW S, NEW s \in Seq(S), s # <<>>
  PROVE  /\ Head(s) \in S /\ Tail(s) \in Seq(S) /\ Len(Tail(s)) = Len(s) - 1 /\ Len(s) >= 1
         /\ Head(s) = s[1] /\ \A i \in 1..Len(Tail(s)) : Tail(s)[i] = s[i + 1]
         /\ Range(s) = {Head(s)} \cup Range(Tail(s))
<1>1. /\ Head(s) \in S /\ Tail(s) \in Seq(S) /\ Len(Tail(s)) = Len(s) - 1
      /\ \A i \in 1..Len(Tail(s)) : Tail(s)[i] = s[i + 1]
  BY HeadTailProperties
<1>2. Len(s) \in Nat /\ Len(s) >= 1 BY LenProperties, EmptySeq
<1>3. Head(s) = s[1] OBVIOUS
<1>4. \A x : x \in Range(s) <=> \E i \in 1..Len(s) : s[i] = x BY RangeHas
<1>5. \A x : x \in Range(Tail(s)) <=> \E i \in 1..Len(Tail(s)) : Tail(s)[i] = x BY <1>1, RangeHas
<1>6. ASSUME NEW x \in Range(s) PROVE x = Head(s) \/ x \in Range(Tail(s))
  <2>1. PICK i \in 1..Len(s) : s[i] = x BY <1>4, <1>6
  <2>2. CASE i = 1 BY <1>3, <2>1, <2>2
  <2>3. CASE i # 1
    <3>1. i - 1 \in 1..Len(Tail(s)) /\ (i - 1) + 1 = i BY <1>1, <1>2, <2>3
    <3>2. QED BY <1>1, <1>5, <2>1, <3>1
  <2>4. QED BY <2>2, <2>3
<1>7. Head(s) \in Range(s) BY <1>2, <1>3, <1>4
<1>8. ASSUME NEW x \in Range(Tail(s)) PROVE x \in Range(s)
  <2>1. PICK i \in 1..Len(Tail(s)) : Tail(s)[i] = x BY <1>5, <1>8
  <2>2. i + 1 \in 1..Len(s) BY <1>1, <1>2
  <2>3. QED BY <1>1, <1>4, <2>1, <2>2
<1>9. QED BY <1>1, <1>2, <1>3, <1>6, <1>7, <1>8

LEMMA RangePut ==
  ASSUME NEW S, NEW s \in Seq(S), NEW e \in S
  PROVE  /\ Append(s, e) \in Seq(S) /\ Len(Append(s, e)) = Len(s) + 1
         /\ \A i \in 1..Len(s) : Append(s, e)[i] = s[i]
         /\ Append(s, e)[Len(s) + 1] = e
         /\ Range(Append(s, e)) = Range(s) \cup {e}
<1>1. /\ Append(s, e) \in Seq(S) /\ Len(Append(s, e)) = Len(s) + 1
      /\ \A i \in 1..Len(s) : Append(s, e)[i] = s[i]
      /\ Append(s, e)[Len(s) + 1] = e
  BY AppendProperties
<1>2. Len(s) \in Nat BY LenProperties
<1>3. \A x : x \in Range(s) <=> \E i \in 1..Len(s) : s[i] = x BY RangeHas
<1>4. \A x : x \in Range(Append(s, e)) <=> \E i \in 1..Len(s) + 1 : Append(s, e)[i] = x
  BY <1>1, RangeHas
<1>5. QED BY <1>1, <1>2, <1>3, <1>4

\* The line: what it has, and what leaves it as it is.
LEMMA LineIs ==
  ASSUME NEW f \in Seq(Replies), NEW t \in Seq(Requests)
  PROVE  /\ LineOf(f, t) \in Seq(Asks) /\ Len(LineOf(f, t)) = Len(f) + Len(t)
         /\ \A i \in 1..Len(f) : LineOf(f, t)[i] = Asked(f[i])
         /\ \A i \in 1..Len(t) : LineOf(f, t)[Len(f) + i] = t[i]
         /\ Range(LineOf(f, t)) = {Asked(a) : a \in Range(f)} \cup Range(t)
         /\ t \in Seq(Asks)
<1> DEFINE g == [i \in 1..Len(f) |-> Asked(f[i])]
<1>1. Len(f) \in Nat /\ \A i \in 1..Len(f) : f[i] \in Replies BY ElementOfSeq, LenProperties
<1>2. \A a \in Replies : Asked(a) \in Asks BY DEF Replies, Asks, Asked, Ask
<1>3. g \in Seq(Asks) /\ Len(g) = Len(f) BY <1>1, <1>2, IsASeq
<1>4. t \in Seq(Asks)
  <2>1. Requests \subseteq Asks BY DEF Requests, Asks
  <2>2. QED BY <2>1, SeqMonotonic
<1>5. LineOf(f, t) = g \o t BY DEF LineOf
<1>6. \A i \in 1..Len(f) : g[i] = Asked(f[i]) OBVIOUS
<1> HIDE DEF g
<1>7. /\ g \o t \in Seq(Asks)
      /\ Len(g \o t) = Len(g) + Len(t)
      /\ \A i \in 1..Len(g) + Len(t) : (g \o t)[i] = IF i <= Len(g) THEN g[i] ELSE t[i - Len(g)]
  BY <1>3, <1>4, ConcatProperties
<1>8. Len(t) \in Nat BY LenProperties
<1>9. \A i \in 1..Len(f) : (g \o t)[i] = Asked(f[i]) BY <1>1, <1>3, <1>6, <1>7, <1>8
<1>10. ASSUME NEW i \in 1..Len(t) PROVE (g \o t)[Len(f) + i] = t[i]
  <2>1. Len(f) + i \in 1..Len(g) + Len(t) /\ ~(Len(f) + i <= Len(g)) /\ (Len(f) + i) - Len(g) = i
    BY <1>1, <1>3, <1>8
  <2>2. QED BY <1>7, <2>1
<1>11. Range(g \o t) = Range(g) \cup Range(t) BY <1>3, <1>4, RangeConcatenation
<1>12. Range(g) = {Asked(a) : a \in Range(f)}
  <2>1. \A x : x \in Range(g) <=> \E i \in 1..Len(f) : g[i] = x BY <1>3, RangeHas
  <2>2. \A x : x \in Range(f) <=> \E i \in 1..Len(f) : f[i] = x BY RangeHas
  <2>3. QED BY <1>6, <2>1, <2>2
<1>13. QED BY <1>3, <1>4, <1>5, <1>7, <1>9, <1>10, <1>11, <1>12

\* An ask on the line is an answer's or one not taken.
LEMMA OnTheLine ==
  ASSUME NEW f \in Seq(Replies), NEW t \in Seq(Requests)
  PROVE  /\ \A r \in Range(t) : r \in Range(LineOf(f, t)) /\ r \in Requests
         /\ \A a \in Range(f) : Asked(a) \in Range(LineOf(f, t)) /\ a \in Replies /\ Asked(a).for = a.for /\ Asked(a).clock = a.clock
         /\ \A r \in Range(LineOf(f, t)) : r \in Asks /\ (r \in Range(t) \/ \E a \in Range(f) : r = Asked(a))
<1>1. /\ Range(LineOf(f, t)) = {Asked(a) : a \in Range(f)} \cup Range(t)
      /\ LineOf(f, t) \in Seq(Asks)
  BY LineIs
<1>2. Range(LineOf(f, t)) \subseteq Asks /\ Range(f) \subseteq Replies /\ Range(t) \subseteq Requests
  BY <1>1, RangeHas
<1>3. \A a : Asked(a).for = a.for /\ Asked(a).clock = a.clock BY DEF Asked, Ask
<1>4. QED BY <1>1, <1>2, <1>3

LEMMA LineTaken ==
  ASSUME NEW f \in Seq(Replies), NEW t \in Seq(Requests), t # <<>>,
         NEW a \in Replies, a.for = Head(t).for, a.clock = Head(t).clock
  PROVE  LineOf(Append(f, a), Tail(t)) = LineOf(f, t)
<1>1. /\ Head(t) \in Requests /\ Tail(t) \in Seq(Requests) /\ Len(Tail(t)) = Len(t) - 1 /\ Len(t) >= 1
      /\ Head(t) = t[1] /\ \A i \in 1..Len(Tail(t)) : Tail(t)[i] = t[i + 1]
  BY RangeHead
<1>2. /\ Append(f, a) \in Seq(Replies) /\ Len(Append(f, a)) = Len(f) + 1
      /\ \A i \in 1..Len(f) : Append(f, a)[i] = f[i]
      /\ Append(f, a)[Len(f) + 1] = a
  BY RangePut
<1>3. Len(f) \in Nat /\ Len(t) \in Nat BY LenProperties
<1>4. Asked(a) = t[1] BY <1>1 DEF Asked, Ask, Requests
<1>5. /\ LineOf(f, t) \in Seq(Asks) /\ Len(LineOf(f, t)) = Len(f) + Len(t)
      /\ \A i \in 1..Len(f) : LineOf(f, t)[i] = Asked(f[i])
      /\ \A i \in 1..Len(t) : LineOf(f, t)[Len(f) + i] = t[i]
  BY LineIs
<1> DEFINE g == Append(f, a)
           u == Tail(t)
<1>6. g \in Seq(Replies) /\ u \in Seq(Requests) /\ Len(g) = Len(f) + 1 /\ Len(u) = Len(t) - 1
  BY <1>1, <1>2
<1>7. /\ LineOf(g, u) \in Seq(Asks) /\ Len(LineOf(g, u)) = Len(g) + Len(u)
      /\ \A i \in 1..Len(g) : LineOf(g, u)[i] = Asked(g[i])
      /\ \A i \in 1..Len(u) : LineOf(g, u)[Len(g) + i] = u[i]
  BY <1>6, LineIs
<1>11. /\ \A i \in 1..Len(f) : g[i] = f[i]
       /\ g[Len(f) + 1] = a
       /\ \A i \in 1..Len(u) : u[i] = t[i + 1]
  BY <1>1, <1>2
<1>12. LineOf(Append(f, a), Tail(t)) = LineOf(g, u) OBVIOUS
<1> HIDE DEF g, u
<1>8. Len(LineOf(g, u)) = Len(LineOf(f, t)) BY <1>3, <1>5, <1>6, <1>7
<1>9. ASSUME NEW i \in 1..Len(f) + Len(t) PROVE LineOf(g, u)[i] = LineOf(f, t)[i]
  <2>1. CASE i <= Len(f)
    <3>1. i \in 1..Len(f) /\ i \in 1..Len(g) BY <1>3, <1>6, <2>1
    <3>2. QED BY <1>5, <1>7, <1>11, <3>1
  <2>2. CASE i = Len(f) + 1
    <3>1. LineOf(g, u)[i] = Asked(a) BY <1>3, <1>6, <1>7, <1>11, <2>2
    <3>2. LineOf(f, t)[i] = t[1] BY <1>1, <1>3, <1>5, <2>2
    <3>3. QED BY <1>4, <3>1, <3>2
  <2>3. CASE i > Len(f) + 1
    <3>1. PICK j \in 1..Len(u) : i = Len(g) + j /\ i = Len(f) + (j + 1) /\ j + 1 \in 1..Len(t)
      <4>1. i - Len(g) \in 1..Len(u) /\ i = Len(g) + (i - Len(g)) /\ i = Len(f) + ((i - Len(g)) + 1)
            /\ (i - Len(g)) + 1 \in 1..Len(t)
        BY <1>1, <1>3, <1>6, <2>3
      <4>2. QED BY <4>1
    <3>2. LineOf(g, u)[i] = u[j] /\ LineOf(f, t)[i] = t[j + 1] /\ u[j] = t[j + 1]
      BY <1>5, <1>7, <1>11, <3>1
    <3>3. QED BY <3>2
  <2>4. QED BY <1>3, <2>1, <2>2, <2>3
<1>10. QED BY <1>5, <1>7, <1>8, <1>9, <1>12, SeqEqual

LEMMA LineHandled ==
  ASSUME NEW f \in Seq(Replies), NEW t \in Seq(Requests), f # <<>>
  PROVE  /\ LineOf(f, t) # <<>> /\ Head(LineOf(f, t)) = Asked(Head(f))
         /\ LineOf(Tail(f), t) = Tail(LineOf(f, t))
<1>1. /\ Tail(f) \in Seq(Replies) /\ Len(Tail(f)) = Len(f) - 1 /\ Len(f) >= 1
      /\ Head(f) = f[1] /\ \A i \in 1..Len(Tail(f)) : Tail(f)[i] = f[i + 1]
  BY RangeHead
<1>2. Len(f) \in Nat /\ Len(t) \in Nat BY LenProperties
<1> DEFINE l == LineOf(f, t)
           m == LineOf(Tail(f), t)
<1>3. /\ l \in Seq(Asks) /\ Len(l) = Len(f) + Len(t)
      /\ \A i \in 1..Len(f) : l[i] = Asked(f[i])
      /\ \A i \in 1..Len(t) : l[Len(f) + i] = t[i]
  BY LineIs
<1>4. /\ m \in Seq(Asks) /\ Len(m) = (Len(f) - 1) + Len(t)
      /\ \A i \in 1..Len(f) - 1 : m[i] = Asked(Tail(f)[i])
      /\ \A i \in 1..Len(t) : m[(Len(f) - 1) + i] = t[i]
  <2>1. /\ m \in Seq(Asks) /\ Len(m) = Len(Tail(f)) + Len(t)
        /\ \A i \in 1..Len(Tail(f)) : m[i] = Asked(Tail(f)[i])
        /\ \A i \in 1..Len(t) : m[Len(Tail(f)) + i] = t[i]
    BY <1>1, LineIs
  <2>2. Len(Tail(f)) = Len(f) - 1 BY <1>1
  <2> HIDE DEF m
  <2>3. QED BY <2>1, <2>2
<1> HIDE DEF l, m
<1>5. l # <<>> BY <1>1, <1>2, <1>3, EmptySeq
<1>6. /\ Tail(l) \in Seq(Asks) /\ Len(Tail(l)) = Len(l) - 1 /\ Head(l) = l[1]
      /\ \A i \in 1..Len(Tail(l)) : Tail(l)[i] = l[i + 1]
  BY <1>3, <1>5, RangeHead
<1>7. Len(m) = Len(Tail(l)) BY <1>2, <1>3, <1>4, <1>6
<1>8. ASSUME NEW i \in 1..Len(m) PROVE m[i] = Tail(l)[i]
  <2>1. Tail(l)[i] = l[i + 1] BY <1>6, <1>7
  <2>2. CASE i <= Len(f) - 1
    <3>1. i \in 1..Len(f) - 1 /\ i + 1 \in 1..Len(f) /\ i \in 1..Len(Tail(f))
      BY <1>1, <1>2, <1>4, <2>2
    <3>2. m[i] = Asked(Tail(f)[i]) /\ l[i + 1] = Asked(f[i + 1]) /\ Tail(f)[i] = f[i + 1]
      BY <1>1, <1>3, <1>4, <3>1
    <3>3. QED BY <2>1, <3>2
  <2>3. CASE ~(i <= Len(f) - 1)
    <3>1. PICK j \in 1..Len(t) : i = (Len(f) - 1) + j /\ i + 1 = Len(f) + j
      <4>1. i - (Len(f) - 1) \in 1..Len(t) /\ i = (Len(f) - 1) + (i - (Len(f) - 1)) /\ i + 1 = Len(f) + (i - (Len(f) - 1))
        BY <1>1, <1>2, <1>4, <2>3
      <4>2. QED BY <4>1
    <3>2. m[i] = t[j] /\ l[i + 1] = t[j] BY <1>3, <1>4, <3>1
    <3>3. QED BY <2>1, <3>2
  <2>4. QED BY <2>2, <2>3
<1>9. m = Tail(l) BY <1>4, <1>6, <1>7, <1>8, SeqEqual
<1>10. Head(l) = Asked(Head(f)) BY <1>1, <1>2, <1>3, <1>6
<1>11. QED BY <1>5, <1>9, <1>10 DEF l, m

LEMMA LineSends ==
  ASSUME NEW f \in Seq(Replies), NEW t \in Seq(Requests), NEW s \in Seq(Requests)
  PROVE  LineOf(f, t \o s) = LineOf(f, t) \o s
<1> DEFINE g == [i \in 1..Len(f) |-> Asked(f[i])]
<1>1. Len(f) \in Nat /\ \A i \in 1..Len(f) : f[i] \in Replies BY ElementOfSeq, LenProperties
<1>2. \A a \in Replies : Asked(a) \in Asks BY DEF Replies, Asks, Asked, Ask
<1>3. g \in Seq(Asks) BY <1>1, <1>2, IsASeq
<1>4. t \in Seq(Asks) /\ s \in Seq(Asks) BY LineIs
<1>5. LineOf(f, t) = g \o t /\ LineOf(f, t \o s) = g \o (t \o s) BY DEF LineOf
<1> HIDE DEF g
<1>6. (g \o t) \o s = g \o (t \o s) BY <1>3, <1>4, ConcatAssociative
<1>7. QED BY <1>5, <1>6

\* The order, from the front and from behind.
LEMMA OrderedTail ==
  ASSUME NEW S, NEW l \in Seq(S), l # <<>>, Ordered(l)
  PROVE  Ordered(Tail(l)) /\ \A q \in Range(Tail(l)) : Follows(Head(l), q)
<1>1. /\ Tail(l) \in Seq(S) /\ Len(Tail(l)) = Len(l) - 1 /\ Len(l) >= 1 /\ Head(l) = l[1]
      /\ \A i \in 1..Len(Tail(l)) : Tail(l)[i] = l[i + 1]
  BY RangeHead
<1>2. Len(l) \in Nat BY LenProperties
<1>3. ASSUME NEW i \in 1..Len(Tail(l)), NEW j \in 1..Len(Tail(l)), i < j
      PROVE  Follows(Tail(l)[i], Tail(l)[j])
  <2>1. i + 1 \in 1..Len(l) /\ j + 1 \in 1..Len(l) /\ i + 1 < j + 1 BY <1>1, <1>2, <1>3
  <2>2. Follows(l[i + 1], l[j + 1]) BY <2>1 DEF Ordered
  <2>3. QED BY <1>1, <2>2
<1>4. ASSUME NEW q \in Range(Tail(l)) PROVE Follows(Head(l), q)
  <2>1. PICK j \in 1..Len(Tail(l)) : Tail(l)[j] = q BY <1>1, <1>4, RangeHas
  <2>2. 1 \in 1..Len(l) /\ j + 1 \in 1..Len(l) /\ 1 < j + 1 BY <1>1, <1>2
  <2>3. Follows(l[1], l[j + 1]) BY <2>2 DEF Ordered
  <2>4. QED BY <1>1, <2>1, <2>3
<1>5. QED BY <1>3, <1>4 DEF Ordered

LEMMA OrderedSends ==
  ASSUME NEW S, NEW l \in Seq(S), NEW s \in Seq(S), Ordered(l), Ordered(s),
         \A r \in Range(l), q \in Range(s) : Follows(r, q)
  PROVE  Ordered(l \o s)
<1>1. /\ Len(l \o s) = Len(l) + Len(s)
      /\ \A i \in 1..Len(l) + Len(s) : (l \o s)[i] = IF i <= Len(l) THEN l[i] ELSE s[i - Len(l)]
  BY ConcatProperties
<1>2. Len(l) \in Nat /\ Len(s) \in Nat BY LenProperties
<1>3. /\ \A i \in 1..Len(l) : l[i] \in Range(l)
      /\ \A i \in 1..Len(s) : s[i] \in Range(s)
  BY RangeHas
<1>4. SUFFICES ASSUME NEW i \in 1..Len(l) + Len(s), NEW j \in 1..Len(l) + Len(s), i < j
               PROVE  Follows((l \o s)[i], (l \o s)[j])
  BY <1>1 DEF Ordered
<1>5. CASE j <= Len(l)
  <2>1. i \in 1..Len(l) /\ j \in 1..Len(l) /\ i <= Len(l) BY <1>2, <1>4, <1>5
  <2>2. Follows(l[i], l[j]) BY <1>4, <2>1 DEF Ordered
  <2>3. QED BY <1>1, <1>5, <2>1, <2>2
<1>6. CASE i <= Len(l) /\ ~(j <= Len(l))
  <2>1. i \in 1..Len(l) /\ j - Len(l) \in 1..Len(s) BY <1>2, <1>4, <1>6
  <2>2. Follows(l[i], s[j - Len(l)]) BY <1>3, <2>1
  <2>3. QED BY <1>1, <1>6, <2>2
<1>7. CASE ~(i <= Len(l))
  <2>1. i - Len(l) \in 1..Len(s) /\ j - Len(l) \in 1..Len(s) /\ i - Len(l) < j - Len(l) /\ ~(j <= Len(l))
    BY <1>2, <1>4, <1>7
  <2>2. Follows(s[i - Len(l)], s[j - Len(l)]) BY <2>1 DEF Ordered
  <2>3. QED BY <1>1, <1>7, <2>1, <2>2
<1>8. QED BY <1>5, <1>6, <1>7

\* The new-document scripts, one put behind and one taken out.
LEMMA RisingPut ==
  ASSUME NEW h \in Seq(Clocks), NEW c \in Clocks, Rising(h), \A x \in Range(h) : x < c
  PROVE  Rising(Append(h, c)) /\ Last(Append(h, c)) = c
<1>1. /\ Len(Append(h, c)) = Len(h) + 1
      /\ \A i \in 1..Len(h) : Append(h, c)[i] = h[i]
      /\ Append(h, c)[Len(h) + 1] = c
  BY RangePut
<1>2. Len(h) \in Nat BY LenProperties
<1>3. \A i \in 1..Len(h) : h[i] \in Range(h) BY RangeHas
<1>4. ASSUME NEW i \in 1..Len(h) + 1, NEW j \in 1..Len(h) + 1, i < j
      PROVE  Append(h, c)[i] < Append(h, c)[j]
  <2>1. i \in 1..Len(h) BY <1>2, <1>4
  <2>2. CASE j = Len(h) + 1 BY <1>1, <1>3, <2>1, <2>2
  <2>3. CASE j # Len(h) + 1
    <3>1. j \in 1..Len(h) BY <1>2, <2>3
    <3>2. h[i] < h[j] BY <1>4, <2>1, <3>1 DEF Rising
    <3>3. QED BY <1>1, <2>1, <3>1, <3>2
  <2>4. QED BY <2>2, <2>3
<1>5. QED BY <1>1, <1>4 DEF Rising, Last

LEMMA RemoveIs ==
  ASSUME NEW h \in Seq(Clocks), NEW i \in 1..Len(h)
  PROVE  /\ RemoveAt(h, i) \in Seq(Clocks) /\ Len(RemoveAt(h, i)) = Len(h) - 1
         /\ \A k \in 1..Len(h) - 1 : RemoveAt(h, i)[k] = IF k < i THEN h[k] ELSE h[k + 1]
<1>1. Len(h) \in Nat /\ \A k \in 1..Len(h) : h[k] \in Clocks BY LenProperties, ElementOfSeq
<1> DEFINE s == SubSeq(h, 1, i - 1)
           t == SubSeq(h, i + 1, Len(h))
<1>2. /\ s \in Seq(Clocks) /\ Len(s) = i - 1
      /\ \A k \in 1..i - 1 : s[k] = h[k]
  <2>1. 1 \in Int /\ i - 1 \in Int /\ \A k \in 1..i - 1 : h[k] \in Clocks BY <1>1
  <2>2. /\ s \in Seq(Clocks)
        /\ Len(s) = IF 1 <= i - 1 THEN (i - 1) - 1 + 1 ELSE 0
        /\ \A k \in 1..(i - 1) - 1 + 1 : s[k] = h[1 + k - 1]
    BY <2>1, SubSeqProperties
  <2> HIDE DEF s
  <2>3. QED BY <1>1, <2>2
<1>3. /\ t \in Seq(Clocks) /\ Len(t) = Len(h) - i
      /\ \A k \in 1..Len(h) - i : t[k] = h[i + k]
  <2>1. i + 1 \in Int /\ Len(h) \in Int /\ \A k \in i + 1..Len(h) : h[k] \in Clocks BY <1>1
  <2>2. /\ t \in Seq(Clocks)
        /\ Len(t) = IF i + 1 <= Len(h) THEN Len(h) - (i + 1) + 1 ELSE 0
        /\ \A k \in 1..Len(h) - (i + 1) + 1 : t[k] = h[(i + 1) + k - 1]
    BY <2>1, SubSeqProperties
  <2> HIDE DEF t
  <2>3. QED BY <1>1, <2>2
<1>4. RemoveAt(h, i) = s \o t BY DEF RemoveAt
<1> HIDE DEF s, t
<1>5. /\ s \o t \in Seq(Clocks) /\ Len(s \o t) = Len(s) + Len(t)
      /\ \A k \in 1..Len(s) + Len(t) : (s \o t)[k] = IF k <= Len(s) THEN s[k] ELSE t[k - Len(s)]
  BY <1>2, <1>3, ConcatProperties
<1>6. ASSUME NEW k \in 1..Len(h) - 1
      PROVE  (s \o t)[k] = IF k < i THEN h[k] ELSE h[k + 1]
  <2>1. k \in 1..Len(s) + Len(t) BY <1>1, <1>2, <1>3
  <2>2. CASE k < i
    <3>1. k <= Len(s) /\ k \in 1..i - 1 BY <1>1, <1>2, <2>2
    <3>2. QED BY <1>2, <1>5, <2>1, <2>2, <3>1
  <2>3. CASE ~(k < i)
    <3>1. ~(k <= Len(s)) /\ k - Len(s) \in 1..Len(h) - i /\ i + (k - Len(s)) = k + 1
      BY <1>1, <1>2, <2>3
    <3>2. (s \o t)[k] = t[k - Len(s)] /\ t[k - Len(s)] = h[i + (k - Len(s))]
      BY <1>3, <1>5, <2>1, <3>1
    <3>3. QED BY <2>3, <3>1, <3>2
  <2>4. QED BY <2>2, <2>3
<1>7. QED BY <1>1, <1>2, <1>3, <1>4, <1>5, <1>6

LEMMA RisingRemove ==
  ASSUME NEW h \in Seq(Clocks), NEW i \in 1..Len(h), Rising(h)
  PROVE  /\ Rising(RemoveAt(h, i))
         /\ Range(RemoveAt(h, i)) = Range(h) \ {h[i]}
         /\ Last(h) # h[i] => Last(RemoveAt(h, i)) = Last(h)
<1>1. Len(h) \in Nat /\ \A k \in 1..Len(h) : h[k] \in Int
  BY LenProperties, ElementOfSeq, ContextNumbers
<1> DEFINE r == RemoveAt(h, i)
<1>2. /\ r \in Seq(Clocks) /\ Len(r) = Len(h) - 1
      /\ \A k \in 1..Len(h) - 1 : r[k] = IF k < i THEN h[k] ELSE h[k + 1]
  BY RemoveIs
<1> HIDE DEF r
<1>3. \A k, l \in 1..Len(h) : k < l => h[k] < h[l] BY DEF Rising
<1>4. ASSUME NEW k \in 1..Len(r), NEW l \in 1..Len(r), k < l
      PROVE  r[k] < r[l]
  <2>1. k \in 1..Len(h) /\ l \in 1..Len(h) /\ k + 1 \in 1..Len(h) /\ l + 1 \in 1..Len(h) /\ k < l + 1 /\ k + 1 < l + 1
    BY <1>1, <1>2, <1>4
  <2>2. h[k] < h[l] /\ h[k] < h[l + 1] /\ h[k + 1] < h[l + 1] BY <1>3, <1>4, <2>1
  <2>3. r[k] = (IF k < i THEN h[k] ELSE h[k + 1]) /\ r[l] = (IF l < i THEN h[l] ELSE h[l + 1])
    BY <1>2
  <2>4. k < i \/ ~(l < i) BY <1>1, <1>4, <2>1
  <2>5. QED BY <2>2, <2>3, <2>4
<1>5. \A x : x \in Range(h) <=> \E k \in 1..Len(h) : h[k] = x BY RangeHas
<1>6. \A x : x \in Range(r) <=> \E k \in 1..Len(r) : r[k] = x BY <1>2, RangeHas
<1>7. ASSUME NEW x \in Range(r) PROVE x \in Range(h) \ {h[i]}
  <2>1. PICK k \in 1..Len(r) : r[k] = x BY <1>6, <1>7
  <2>2. PICK l \in 1..Len(h) : x = h[l] /\ l # i
    <3>1. k \in 1..Len(h) /\ k + 1 \in 1..Len(h) /\ (k < i => k # i) /\ (~(k < i) => k + 1 # i)
      BY <1>1, <1>2
    <3>2. QED BY <1>2, <2>1, <3>1
  <2>3. h[l] # h[i] BY <1>1, <1>3, <2>2
  <2>4. QED BY <1>5, <2>2, <2>3
<1>8. ASSUME NEW x \in Range(h), x # h[i] PROVE x \in Range(r)
  <2>1. PICK l \in 1..Len(h) : h[l] = x BY <1>5, <1>8
  <2>2. l # i BY <1>8, <2>1
  <2>3. CASE l < i
    <3>1. l \in 1..Len(r) BY <1>1, <1>2, <2>3
    <3>2. r[l] = x BY <1>2, <2>1, <2>3, <3>1
    <3>3. QED BY <1>6, <3>1, <3>2
  <2>4. CASE ~(l < i)
    <3>1. l - 1 \in 1..Len(r) /\ ~(l - 1 < i) /\ (l - 1) + 1 = l BY <1>1, <1>2, <2>2, <2>4
    <3>2. r[l - 1] = x BY <1>2, <2>1, <3>1
    <3>3. QED BY <1>6, <3>1, <3>2
  <2>5. QED BY <2>3, <2>4
<1>9. ASSUME Last(h) # h[i] PROVE Last(r) = Last(h)
  <2>1. Last(h) = h[Len(h)] /\ Last(r) = r[Len(r)] BY DEF Last
  <2>2. i # Len(h) BY <1>9, <2>1
  <2>3. Len(r) \in 1..Len(h) - 1 /\ ~(Len(r) < i) /\ Len(r) + 1 = Len(h) BY <1>1, <1>2, <2>2
  <2>4. QED BY <1>2, <2>1, <2>3
<1>10. QED BY <1>4, <1>7, <1>8, <1>9 DEF Rising, r

-----------------------------------------------------------------------------
\* What the invariant says of the line, of what is asked and of what is answered.
LEMMA LineSays ==
  ASSUME ContextShape, LineInv
  PROVE  /\ Line \in Seq(Asks)
         /\ \A r \in Range(toPage) : r \in Range(Line) /\ r \in Requests /\ Fits(r)
         /\ \A a \in Range(fromPage) : a \in Replies /\ Asked(a) \in Range(Line) /\ Fits(Asked(a))
                                       /\ Asked(a).for = a.for /\ Asked(a).clock = a.clock
         /\ \A r \in Range(Line) : r \in Asks /\ Fits(r) /\ (r \in Range(toPage) \/ \E a \in Range(fromPage) : r = Asked(a))
<1>1. fromPage \in Seq(Replies) /\ toPage \in Seq(Requests) BY DEF ContextShape
<1>2. QED BY <1>1, LineIs, OnTheLine DEF LineInv, Line

LEMMA FlightIs ==
  ASSUME ContextShape, LineInv, NEW kinds
  PROVE  InFlight(kinds) <=> \E r \in Range(Line) : r.for \in kinds
<1>1. fromPage \in Seq(Replies) /\ toPage \in Seq(Requests) BY DEF ContextShape
<1>2. /\ DOMAIN fromPage = 1..Len(fromPage) /\ DOMAIN toPage = 1..Len(toPage)
      /\ \A x : x \in Range(fromPage) <=> \E i \in 1..Len(fromPage) : fromPage[i] = x
      /\ \A x : x \in Range(toPage) <=> \E i \in 1..Len(toPage) : toPage[i] = x
  BY <1>1, LenProperties, RangeHas
<1>3. InFlight(kinds) <=> (\E a \in Range(fromPage) : a.for \in kinds) \/ (\E r \in Range(toPage) : r.for \in kinds)
  BY <1>2 DEF InFlight
<1>4. QED BY <1>3, LineSays

\* A page's next document runs on the last clock, or the hook of it is under way.
LEMMA LoadedFits ==
  ASSUME ContextInv, Driven, ctx.page, linked
  PROVE  /\ engine.hooks # <<>> /\ Last(engine.hooks) \in Clocks
         /\ ~Said => Last(engine.hooks) = newest \/ \E r \in Range(Line) : r.for = "hook" /\ r.clock = newest
<1>1. engine.hooks \in Seq(Clocks) BY DEF ContextInv, ContextShape, Engines
<1>2. ctx.current \in Range(engine.hooks) BY DEF ContextInv, HooksInv
<1>3. engine.hooks # <<>> BY <1>1, <1>2, RangeHas
<1>4. Last(engine.hooks) \in Clocks
  <2>1. Len(engine.hooks) \in Nat /\ Len(engine.hooks) # 0 BY <1>1, <1>3, LenProperties, EmptySeq
  <2>2. QED BY <1>1, <2>1, ElementOfSeq DEF Last
<1>5. ASSUME ~Said PROVE Last(engine.hooks) = newest \/ \E r \in Range(Line) : r.for = "hook" /\ r.clock = newest
  <2>1. Last(engine.hooks) = newest \/ Refused("hook") \/ \E r \in Range(toPage) : r.for = "hook" /\ r.clock = newest
    BY <1>5 DEF ContextInv, FollowedInv, Followed
  <2>2. QED BY <2>1, LineSays DEF ContextInv, Refused
<1>6. QED BY <1>3, <1>4, <1>5

\* The document a page would load now.
LEMMA LoadedIs ==
  ASSUME ContextInv, engine.alive, ctx.page, Open
  PROVE  /\ Loaded \in Documents /\ Loaded.at \in Clocks \cup {Bare}
         /\ ctx.on /\ ~ctx.released => Loaded.at \in Clocks
         /\ ctx.on /\ ~ctx.released /\ ~Said => Loaded.at = newest \/ \E r \in Range(Line) : r.for = "hook" /\ r.clock = newest
<1>1. engine.hooks \in Seq(Clocks) /\ linked BY DEF ContextInv, ContextShape, Engines, Open
<1>2. Loaded = [at |-> IF engine.hooks = <<>> THEN Bare ELSE Last(engine.hooks), apart |-> FALSE]
  BY DEF Loaded, On
<1>3. engine.hooks # <<>> => Last(engine.hooks) \in Clocks
  <2>1. SUFFICES ASSUME engine.hooks # <<>> PROVE Last(engine.hooks) \in Clocks OBVIOUS
  <2>2. Len(engine.hooks) \in Nat /\ Len(engine.hooks) # 0 BY <1>1, <2>1, LenProperties, EmptySeq
  <2>3. QED BY <1>1, <2>2, ElementOfSeq DEF Last
<1>4. Loaded.at \in Clocks \cup {Bare} BY <1>2, <1>3
<1>5. Loaded \in Documents BY <1>2, <1>4, ContextNumbers DEF Documents
<1>6. ASSUME ctx.on, ~ctx.released
      PROVE  Loaded.at \in Clocks /\ (~Said => Loaded.at = newest \/ \E r \in Range(Line) : r.for = "hook" /\ r.clock = newest)
  <2>1. Driven BY <1>6 DEF Driven
  <2>2. QED BY <1>1, <1>2, <2>1, LoadedFits
<1>7. QED BY <1>4, <1>5, <1>6

LEMMA LoadKeeps ==
  ASSUME ContextInv, LoadsDocument
  PROVE  ContextInv'
<1>1. engine.alive /\ Open /\ ctx.page /\ engine.loads < MaxLoads BY DEF LoadsDocument
<1>2. /\ UNCHANGED <<newest, phase, linked, ctx, missed, freed, toPage, fromPage>>
      /\ engine' = [engine EXCEPT !.doc = Loaded, !.loads = @ + 1]
  BY DEF LoadsDocument, EngineSteps
<1>3. /\ Loaded \in Documents /\ Loaded.at \in Clocks \cup {Bare}
      /\ ctx.on /\ ~ctx.released => Loaded.at \in Clocks
      /\ ctx.on /\ ~ctx.released /\ ~Said => Loaded.at = newest \/ \E r \in Range(Line) : r.for = "hook" /\ r.clock = newest
  BY <1>1, LoadedIs
<1>4. /\ engine \in Engines /\ engine' \in Engines
      /\ engine'.alive = engine.alive /\ engine'.hooks = engine.hooks /\ engine'.doc = Loaded
  <2>1. engine \in Engines BY DEF ContextInv, ContextShape
  <2>2. engine.loads + 1 \in 0..MaxLoads BY <1>1, <2>1, ContextNumbers DEF Engines
  <2>3. QED BY <1>2, <1>3, <2>1, <2>2 DEF Engines
<1>5. Line' = Line /\ Driven' = Driven /\ Said' = Said /\ NewestUnderWay' = NewestUnderWay
  BY <1>2, <1>4 DEF Line, Driven, Said, NewestUnderWay
<1>6. ContextShape' BY <1>2, <1>4 DEF ContextInv, ContextShape
<1>7. LineInv' BY <1>2, <1>5 DEF ContextInv, LineInv, Fits
<1>8. ListedInv' /\ CurrentInv' BY <1>2, <1>4 DEF ContextInv, ListedInv, CurrentInv
<1>9. HooksInv' BY <1>2, <1>4, <1>5 DEF ContextInv, HooksInv, Known
<1>10. DocumentInv'
  <2>1. Driven => ctx.on /\ ~ctx.released BY DEF Driven
  <2>2. QED BY <1>1, <1>2, <1>3, <1>4, <1>5, <2>1, ContextNumbers DEF DocumentInv
<1>11. FollowedInv'
  <2>1. SUFFICES ASSUME Driven, ~Said PROVE Followed' BY <1>5 DEF FollowedInv
  <2>2. Loaded.at = newest \/ NewestUnderWay BY <1>3, <2>1 DEF Driven, NewestUnderWay
  <2>3. Followed BY <2>1 DEF ContextInv, FollowedInv
  <2>4. QED BY <1>2, <1>4, <1>5, <2>2, <2>3 DEF Followed, OlderUnderWay, Refused
<1>12. FreedInv' BY <1>2, <1>4, <1>5 DEF ContextInv, FreedInv
<1>13. QED BY <1>6, <1>7, <1>8, <1>9, <1>10, <1>11, <1>12 DEF ContextInv

\* A target that goes leaves its answers and the event of its end.
LEMMA GoneKeeps ==
  ASSUME ContextInv, GoesAway
  PROVE  ContextInv'
<1> DEFINE gone == [for |-> "gone", clock |-> NoHook, says |-> "ok"]
<1>1. /\ engine.alive /\ phase # "over" /\ UNCHANGED <<newest, phase, linked, ctx, missed, freed>>
      /\ engine' = [engine EXCEPT !.alive = FALSE] /\ toPage' = <<>> /\ fromPage' = Append(fromPage, gone)
  BY DEF GoesAway, EngineSteps, Open
<1>2. engine' \in Engines /\ ~engine'.alive /\ engine'.hooks = engine.hooks
  <2>1. engine \in Engines BY DEF ContextInv, ContextShape
  <2>2. QED BY <1>1, <2>1 DEF Engines
<1>3. fromPage \in Seq(Replies) /\ toPage \in Seq(Requests) /\ gone \in Replies
  BY DEF ContextInv, ContextShape, Replies, Scripts
<1>4. /\ fromPage' \in Seq(Replies) /\ Len(fromPage') = Len(fromPage) + 1
      /\ \A i \in 1..Len(fromPage) : fromPage'[i] = fromPage[i]
      /\ Range(fromPage') = Range(fromPage) \cup {gone}
  BY <1>1, <1>3, RangePut
<1>5. toPage' \in Seq(Requests) /\ Range(toPage') = {} /\ Len(toPage') = 0
  <2>1. toPage' \in Seq(Requests) /\ Len(toPage') = 0 BY <1>1, EmptySeq
  <2>2. QED BY <1>1, <2>1, RangeHas
<1> HIDE DEF gone
<1>6. ctx.on /\ \A a \in Range(fromPage) : a.for # "gone" BY <1>1 DEF ContextInv, ListedInv
<1>7. ~Driven' BY <1>2 DEF Driven
<1>8. Asked(gone).for = "gone" /\ gone.for = "gone" BY DEF Asked, Ask, gone
<1>9. ContextShape' BY <1>1, <1>2, <1>4, <1>5 DEF ContextInv, ContextShape
<1>10. LineInv'
  <2>1. /\ Len(Line') = Len(fromPage) + 1
        /\ \A i \in 1..Len(fromPage) + 1 : Line'[i] = Asked(fromPage'[i])
        /\ Range(Line') = {Asked(a) : a \in Range(fromPage) \cup {gone}}
    <3>1. /\ Len(Line') = Len(fromPage') + Len(toPage')
          /\ \A i \in 1..Len(fromPage') : Line'[i] = Asked(fromPage'[i])
          /\ Range(Line') = {Asked(a) : a \in Range(fromPage')} \cup Range(toPage')
      BY <1>4, <1>5, LineIs DEF Line
    <3>2. Len(fromPage) \in Nat BY <1>3, LenProperties
    <3>3. Len(fromPage') + Len(toPage') = Len(fromPage) + 1 BY <1>4, <1>5, <3>2
    <3>4. QED BY <1>4, <1>5, <3>1, <3>3
  <2>2. Len(Line) = Len(fromPage) + Len(toPage) /\ \A i \in 1..Len(fromPage) : Line[i] = Asked(fromPage[i])
    BY <1>3, LineIs DEF Line
  <2>3. Len(fromPage) \in Nat /\ Len(toPage) \in Nat BY <1>3, LenProperties
  <2>4. Line'[Len(fromPage) + 1] = Asked(gone) BY <1>1, <1>3, <2>1, <2>3, RangePut
  <2>5. ASSUME NEW i \in 1..Len(fromPage) + 1, NEW j \in 1..Len(fromPage) + 1, i < j
        PROVE  Follows(Line'[i], Line'[j])
    <3>1. i \in 1..Len(fromPage) /\ Line'[i] = Line[i] BY <1>4, <2>1, <2>2, <2>3, <2>5
    <3>2. CASE j = Len(fromPage) + 1 BY <1>8, <2>4, <3>2 DEF Follows
    <3>3. CASE j # Len(fromPage) + 1
      <4>1. j \in 1..Len(fromPage) /\ Line'[j] = Line[j] BY <1>4, <2>1, <2>2, <2>3, <3>3
      <4>2. i \in 1..Len(Line) /\ j \in 1..Len(Line) BY <2>2, <2>3, <3>1, <4>1
      <4>3. Follows(Line[i], Line[j]) BY <2>5, <4>2 DEF ContextInv, LineInv, Ordered
      <4>4. QED BY <3>1, <4>1, <4>3
    <3>4. QED BY <3>2, <3>3
  <2>6. ASSUME NEW r \in Range(Line') PROVE Fits(r)'
    <3>1. \/ r = Asked(gone)
          \/ \E a \in Range(fromPage) : r = Asked(a)
      BY <2>1
    <3>2. CASE r = Asked(gone) BY <1>8, <3>2 DEF Fits
    <3>3. CASE \E a \in Range(fromPage) : r = Asked(a)
      <4>1. Fits(r) BY <3>3, LineSays DEF ContextInv
      <4>2. QED BY <1>1, <4>1 DEF Fits
    <3>4. QED BY <3>1, <3>2, <3>3
  <2>7. Ordered(Line)' BY <2>1, <2>5 DEF Ordered
  <2>8. QED BY <2>6, <2>7 DEF LineInv
<1>11. ListedInv'
  <2>1. \A i \in 1..Len(fromPage) : fromPage[i].for # "gone" BY <1>3, <1>6, RangeHas
  <2>2. \A i \in 1..Len(fromPage') : fromPage'[i].for = "gone" => i = Len(fromPage')
    <3>1. Len(fromPage) \in Nat BY <1>3, LenProperties
    <3>2. QED BY <1>4, <2>1, <3>1
  <2>3. QED BY <1>1, <1>2, <1>6, <2>2 DEF ContextInv, ListedInv
<1>12. CurrentInv' BY <1>1 DEF ContextInv, CurrentInv
<1>13. HooksInv' /\ DocumentInv' /\ FollowedInv'
  BY <1>1, <1>2, <1>7 DEF ContextInv, HooksInv, DocumentInv, FollowedInv
<1>14. FreedInv'
  <2>1. Range(Line') = {Asked(a) : a \in Range(fromPage) \cup {gone}} BY <1>4, <1>5, LineIs DEF Line
  <2>2. ASSUME freed = "all", ctx.on, NEW r \in Range(Line') PROVE r.for # "hook"
    <3>1. \/ r = Asked(gone)
          \/ \E a \in Range(fromPage) : r = Asked(a)
      BY <2>1
    <3>2. \A q \in Range(Line) : q.for # "hook" BY <2>2 DEF ContextInv, FreedInv
    <3>3. QED BY <1>8, <3>1, <3>2, LineSays DEF ContextInv
  <2>3. QED BY <1>1, <1>2, <2>2 DEF ContextInv, FreedInv
<1>15. QED BY <1>9, <1>10, <1>11, <1>12, <1>13, <1>14 DEF ContextInv

LEMMA BreakKeeps ==
  ASSUME ContextInv, Breaks
  PROVE  ContextInv'
<1>1. /\ ~linked' /\ engine' = [engine EXCEPT !.hooks = <<>>]
      /\ UNCHANGED <<newest, phase, ctx, missed, toPage, fromPage, freed>>
  BY DEF Breaks
<1>2. engine' \in Engines /\ engine'.alive = engine.alive /\ engine'.hooks = <<>> /\ engine'.doc = engine.doc
  <2>1. engine \in Engines /\ <<>> \in Seq(Clocks) BY EmptySeq DEF ContextInv, ContextShape
  <2>2. QED BY <1>1, <2>1 DEF Engines
<1>3. Line' = Line /\ Driven' = Driven /\ Said' = Said /\ NewestUnderWay' = NewestUnderWay /\ OlderUnderWay' = OlderUnderWay
  BY <1>1, <1>2 DEF Line, Driven, Said, NewestUnderWay, OlderUnderWay
<1>4. Range(engine'.hooks) = {} /\ Len(engine'.hooks) = 0
  <2>1. engine'.hooks \in Seq(Clocks) BY <1>2 DEF Engines
  <2>2. QED BY <1>2, <2>1, RangeHas, EmptySeq
<1>5. linked' = FALSE BY DEF Breaks
<1>6. ContextShape' BY <1>1, <1>2, <1>5 DEF ContextInv, ContextShape
<1>7. LineInv' BY <1>1, <1>3 DEF ContextInv, LineInv, Fits
<1>8. ListedInv' /\ CurrentInv' BY <1>1, <1>2 DEF ContextInv, ListedInv, CurrentInv
<1>9. HooksInv' BY <1>2, <1>4, <1>5 DEF HooksInv, Rising
<1>10. DocumentInv' BY <1>1, <1>2, <1>3 DEF ContextInv, DocumentInv
<1>11. FollowedInv' BY <1>1, <1>2, <1>3 DEF ContextInv, FollowedInv, Followed, Refused
<1>12. FreedInv' BY <1>1, <1>2, <1>3 DEF ContextInv, FreedInv
<1>13. QED BY <1>6, <1>7, <1>8, <1>9, <1>10, <1>11, <1>12 DEF ContextInv

\* What a page does with the request first in line.
TakenAs(r, word, e) ==
    \/ r.for = "hook" /\ word = "ok" /\ e = [engine EXCEPT !.hooks = Append(@, r.clock)]
    \/ r.for \in {"hook", "unhook"} /\ word = "error" /\ e = engine
    \/ /\ r.for = "unhook" /\ word = "ok"
       /\ \E i \in 1..Len(engine.hooks) : engine.hooks[i] = r.clock /\ e = [engine EXCEPT !.hooks = RemoveAt(@, i)]
    \/ r.for \in {"move", "release", "counts"} /\ engine.doc.at = NoDocument /\ word = "error" /\ e = engine
    \/ /\ r.for \in {"move", "release", "counts"} /\ ctx.page /\ word = "error" /\ engine.loads < MaxLoads
       /\ e = [engine EXCEPT !.doc = Loaded, !.loads = @ + 1]
    \/ /\ r.for \in {"move", "release", "counts"} /\ ~ctx.page /\ word = "error" /\ e = engine
    \/ r.for = "counts" /\ word \in {"ok", "null"} /\ e = engine
    \/ /\ r.for \in {"move", "release"} /\ engine.doc.at # NoDocument /\ engine.doc.at < Released
       /\ word = "ok" /\ e = engine
    \/ r.for = "release" /\ engine.doc.at >= Released /\ word = "ok" /\ e = [engine EXCEPT !.doc = On(Released)]
    \/ /\ r.for = "move" /\ engine.doc.at >= Released /\ word \in {"ok", "late"}
       /\ \E late \in BOOLEAN : e = [engine EXCEPT !.doc = Moved(@, r.clock, late)]

LEMMA TakesIs ==
  ASSUME ContextInv, Takes
  PROVE  /\ engine.alive /\ linked /\ phase # "over" /\ toPage # <<>> /\ toPage' = Tail(toPage)
         /\ UNCHANGED <<newest, phase, linked, ctx, missed, freed>>
         /\ \E word \in {"ok", "error", "null", "late"} :
               /\ TakenAs(Head(toPage), word, engine')
               /\ fromPage' = Append(fromPage, [for |-> Head(toPage).for, clock |-> Head(toPage).clock, says |-> word])
<1>1. /\ engine.alive /\ Open /\ toPage # <<>> /\ toPage' = Tail(toPage) /\ EngineSteps BY DEF Takes
<1>2. engine \in Engines /\ engine.hooks \in Seq(Clocks) /\ engine.doc \in Documents /\ engine.doc.at \in Int
      /\ Released \in Int
  BY ContextNumbers DEF ContextInv, ContextShape, Engines, Documents
<1>3. DOMAIN engine.hooks = 1..Len(engine.hooks) BY <1>2, LenProperties
<1>4. ~(engine.doc.at >= Released) => engine.doc.at < Released BY <1>2
<1> DEFINE r == Head(toPage)
           Says(word, e) == /\ engine' = e
                            /\ fromPage' = Append(fromPage, [for |-> r.for, clock |-> r.clock, says |-> word])
<1>5. SUFFICES \E word \in {"ok", "error", "null", "late"} : TakenAs(r, word, engine') /\ Says(word, engine')
  BY <1>1 DEF Open, EngineSteps
<1>6. \/ /\ r.for = "hook"
         /\ \/ Says("ok", [engine EXCEPT !.hooks = Append(@, r.clock)])
            \/ Says("error", engine)
      \/ /\ r.for = "unhook"
         /\ \/ \E i \in DOMAIN engine.hooks :
                  engine.hooks[i] = r.clock /\ Says("ok", [engine EXCEPT !.hooks = RemoveAt(@, i)])
            \/ Says("error", engine)
      \/ /\ r.for \in {"move", "release", "counts"} /\ engine.doc.at = NoDocument
         /\ Says("error", engine)
      \/ /\ r.for \in {"move", "release", "counts"} /\ ctx.page /\ engine.loads < MaxLoads
         /\ Says("error", [engine EXCEPT !.doc = Loaded, !.loads = @ + 1])
      \/ /\ r.for \in {"move", "release", "counts"} /\ ~ctx.page /\ Says("error", engine)
      \/ /\ r.for = "counts" /\ Says(IF engine.doc.at >= Released THEN "ok" ELSE "null", engine)
      \/ /\ r.for \in {"move", "release"} /\ engine.doc.at # NoDocument /\ ~(engine.doc.at >= Released)
         /\ Says("ok", engine)
      \/ /\ r.for = "release" /\ engine.doc.at >= Released
         /\ Says("ok", [engine EXCEPT !.doc = On(Released)])
      \/ /\ r.for = "move" /\ engine.doc.at >= Released
         /\ \E late \in BOOLEAN : Says(IF late THEN "late" ELSE "ok", [engine EXCEPT !.doc = Moved(@, r.clock, late)])
  BY DEF Takes
<1>7. CASE r.for = "hook" /\ Says("ok", [engine EXCEPT !.hooks = Append(@, r.clock)])
  BY <1>7 DEF TakenAs
<1>8. CASE r.for \in {"hook", "unhook"} /\ Says("error", engine) BY <1>8 DEF TakenAs
<1>9. CASE /\ r.for = "unhook"
           /\ \E i \in DOMAIN engine.hooks :
                 engine.hooks[i] = r.clock /\ Says("ok", [engine EXCEPT !.hooks = RemoveAt(@, i)])
  BY <1>3, <1>9 DEF TakenAs
<1>10. CASE r.for \in {"move", "release", "counts"} /\ engine.doc.at = NoDocument /\ Says("error", engine)
  BY <1>10 DEF TakenAs
<1>11. CASE /\ r.for \in {"move", "release", "counts"} /\ ctx.page /\ engine.loads < MaxLoads
            /\ Says("error", [engine EXCEPT !.doc = Loaded, !.loads = @ + 1])
  BY <1>11 DEF TakenAs
<1>12. CASE r.for \in {"move", "release", "counts"} /\ ~ctx.page /\ Says("error", engine)
  BY <1>12 DEF TakenAs
<1>13. CASE r.for = "counts" /\ Says(IF engine.doc.at >= Released THEN "ok" ELSE "null", engine)
  BY <1>13 DEF TakenAs
<1>14. CASE /\ r.for \in {"move", "release"} /\ engine.doc.at # NoDocument /\ ~(engine.doc.at >= Released)
            /\ Says("ok", engine)
  BY <1>4, <1>14 DEF TakenAs
<1>15. CASE r.for = "release" /\ engine.doc.at >= Released /\ Says("ok", [engine EXCEPT !.doc = On(Released)])
  BY <1>15 DEF TakenAs
<1>16. CASE /\ r.for = "move" /\ engine.doc.at >= Released
            /\ \E late \in BOOLEAN : Says(IF late THEN "late" ELSE "ok", [engine EXCEPT !.doc = Moved(@, r.clock, late)])
  BY <1>16 DEF TakenAs
<1>17. QED BY <1>6, <1>7, <1>8, <1>9, <1>10, <1>11, <1>12, <1>13, <1>14, <1>15, <1>16

\* What a page that takes a request comes to be, of the scripts and of the document.
ScriptsTaken(r, word, e) ==
    \/ r.for = "hook" /\ word = "ok" /\ e.hooks = Append(engine.hooks, r.clock)
    \/ /\ r.for = "unhook" /\ word = "ok"
       /\ \E i \in 1..Len(engine.hooks) : engine.hooks[i] = r.clock /\ e.hooks = RemoveAt(engine.hooks, i)
    \/ (r.for \in {"hook", "unhook"} => word # "ok") /\ e.hooks = engine.hooks
DocumentTaken(r, word, e) ==
    \/ e.doc = engine.doc /\ r.for # "move"
    \/ r.for \in {"move", "release", "counts"} /\ ctx.page /\ e.doc = Loaded
    \/ r.for = "release" /\ e.doc.at = Released
    \/ r.for = "move" /\ engine.doc.at >= Released /\ e.doc.at = r.clock
    \/ r.for = "move" /\ engine.doc.at < Released /\ engine.doc.at # NoDocument /\ e.doc = engine.doc
    \/ r.for = "move" /\ engine.doc.at = NoDocument /\ e.doc = engine.doc
    \/ r.for = "move" /\ ~ctx.page /\ word = "error" /\ e.doc = engine.doc

LEMMA TakenIs ==
  ASSUME ContextInv, engine.alive, Open, NEW r \in Requests, Fits(r), NEW word, NEW e, TakenAs(r, word, e)
  PROVE  /\ e \in Engines /\ e.alive
         /\ ScriptsTaken(r, word, e) /\ DocumentTaken(r, word, e)
<1> USE DEF ScriptsTaken, DocumentTaken
<1>1. /\ engine \in Engines /\ engine.hooks \in Seq(Clocks) /\ engine.doc \in Documents /\ engine.loads \in 0..MaxLoads
      /\ newest \in Clocks
  BY DEF ContextInv, ContextShape, Engines
<1>2. r.clock \in Clocks \/ r.for \notin {"hook", "move"} BY DEF Fits
<1>3. CASE r.for = "hook" /\ word = "ok" /\ e = [engine EXCEPT !.hooks = Append(@, r.clock)]
  <2>1. Append(engine.hooks, r.clock) \in Seq(Clocks) BY <1>1, <1>2, <1>3, RangePut
  <2>2. e \in Engines /\ e.alive = engine.alive /\ e.hooks = Append(engine.hooks, r.clock) /\ e.doc = engine.doc
    BY <1>1, <1>3, <2>1 DEF Engines
  <2>3. QED BY <1>3, <2>2
<1>4. CASE /\ r.for = "unhook" /\ word = "ok"
           /\ \E i \in 1..Len(engine.hooks) : engine.hooks[i] = r.clock /\ e = [engine EXCEPT !.hooks = RemoveAt(@, i)]
  <2>1. PICK i \in 1..Len(engine.hooks) : engine.hooks[i] = r.clock /\ e = [engine EXCEPT !.hooks = RemoveAt(@, i)]
    BY <1>4
  <2>2. RemoveAt(engine.hooks, i) \in Seq(Clocks) BY <1>1, RemoveIs
  <2>3. e \in Engines /\ e.alive = engine.alive /\ e.hooks = RemoveAt(engine.hooks, i) /\ e.doc = engine.doc
    BY <1>1, <2>1, <2>2 DEF Engines
  <2>4. QED BY <1>4, <2>1, <2>3
<1>5. CASE /\ r.for \in {"move", "release", "counts"} /\ ctx.page /\ word = "error" /\ engine.loads < MaxLoads
           /\ e = [engine EXCEPT !.doc = Loaded, !.loads = @ + 1]
  <2>1. Loaded \in Documents BY <1>5, LoadedIs
  <2>2. engine.loads + 1 \in 0..MaxLoads BY <1>1, <1>5, ContextNumbers
  <2>3. e \in Engines /\ e.alive = engine.alive /\ e.hooks = engine.hooks /\ e.doc = Loaded
    BY <1>1, <1>5, <2>1, <2>2 DEF Engines
  <2>4. QED BY <1>5, <2>3
<1>6. CASE r.for = "release" /\ engine.doc.at >= Released /\ word = "ok" /\ e = [engine EXCEPT !.doc = On(Released)]
  <2>1. On(Released) \in Documents /\ On(Released).at = Released BY ContextNumbers DEF On, Documents
  <2>2. e \in Engines /\ e.alive = engine.alive /\ e.hooks = engine.hooks /\ e.doc = On(Released)
    BY <1>1, <1>6, <2>1 DEF Engines
  <2>3. QED BY <1>6, <2>1, <2>2
<1>7. CASE /\ r.for = "move" /\ engine.doc.at >= Released /\ word \in {"ok", "late"}
           /\ \E late \in BOOLEAN : e = [engine EXCEPT !.doc = Moved(@, r.clock, late)]
  <2>1. PICK late \in BOOLEAN : e = [engine EXCEPT !.doc = Moved(@, r.clock, late)] BY <1>7
  <2>2. Moved(engine.doc, r.clock, late) \in Documents /\ Moved(engine.doc, r.clock, late).at = r.clock
    <3>1. r.clock \in NoDocument..MaxMoves BY <1>2, <1>7, ContextNumbers
    <3>2. engine.doc.apart \in BOOLEAN BY <1>1 DEF Documents
    <3>3. On(r.clock) \in Documents /\ On(r.clock).at = r.clock BY <3>1 DEF On, Documents
    <3>4. QED BY <3>1, <3>2, <3>3 DEF Moved, Documents
  <2>3. e \in Engines /\ e.alive = engine.alive /\ e.hooks = engine.hooks /\ e.doc = Moved(engine.doc, r.clock, late)
    BY <1>1, <2>1, <2>2 DEF Engines
  <2>4. QED BY <1>7, <2>2, <2>3
<1>8. CASE e = engine /\ (r.for \in {"hook", "unhook"} => word # "ok") /\ r.for # "move"
  BY <1>1, <1>8
<1>9. CASE r.for = "move" /\ engine.doc.at = NoDocument /\ e = engine BY <1>1, <1>9
<1>10. CASE r.for = "move" /\ ~ctx.page /\ word = "error" /\ e = engine BY <1>1, <1>10
<1>11. CASE r.for = "move" /\ engine.doc.at # NoDocument /\ engine.doc.at < Released /\ e = engine
  BY <1>1, <1>11
<1>12. QED BY <1>3, <1>4, <1>5, <1>6, <1>7, <1>8, <1>9, <1>10, <1>11 DEF TakenAs

\* The line stays as it is: the head of what is asked becomes the last of what is answered.
PassedBy(r, a) ==
    /\ Fits(r) /\ a.for = r.for /\ a.clock = r.clock /\ TakenAs(r, a.says, engine')
    /\ fromPage' \in Seq(Replies) /\ toPage' \in Seq(Requests) /\ fromPage' = Append(fromPage, a)
    /\ Range(fromPage') = Range(fromPage) \cup {a} /\ Range(toPage) = Range(toPage') \cup {r}
    /\ Line' = Line
    /\ \A q \in Range(toPage') : Follows(r, q)
    /\ \A b \in Range(fromPage) : Follows(Asked(b), r)

LEMMA TakesPass ==
  ASSUME ContextInv, Takes
  PROVE  \E r \in Requests, a \in Replies : PassedBy(r, a)
<1> USE DEF PassedBy
<1>1. fromPage \in Seq(Replies) /\ toPage \in Seq(Requests) /\ toPage # <<>> /\ toPage' = Tail(toPage)
  BY TakesIs DEF ContextInv, ContextShape
<1>2. PICK word \in {"ok", "error", "null", "late"} :
         /\ TakenAs(Head(toPage), word, engine')
         /\ fromPage' = Append(fromPage, [for |-> Head(toPage).for, clock |-> Head(toPage).clock, says |-> word])
  BY TakesIs
<1> DEFINE r == Head(toPage)
           a == [for |-> r.for, clock |-> r.clock, says |-> word]
<1>3. /\ r \in Requests /\ toPage' \in Seq(Requests) /\ Len(toPage') = Len(toPage) - 1 /\ Len(toPage) >= 1
      /\ r = toPage[1] /\ \A i \in 1..Len(toPage') : toPage'[i] = toPage[i + 1]
      /\ Range(toPage) = {r} \cup Range(toPage')
  BY <1>1, RangeHead
<1>4. a \in Replies /\ a.for = r.for /\ a.clock = r.clock /\ a.says = word
  BY <1>3 DEF Replies, Requests
<1>5. fromPage' = Append(fromPage, a) BY <1>2
<1> HIDE DEF a
<1>6. fromPage' \in Seq(Replies) /\ Range(fromPage') = Range(fromPage) \cup {a}
  BY <1>1, <1>4, <1>5, RangePut
<1>7. Line' = Line BY <1>1, <1>4, <1>5, LineTaken DEF Line
<1>8. /\ Len(Line) = Len(fromPage) + Len(toPage)
      /\ \A i \in 1..Len(fromPage) : Line[i] = Asked(fromPage[i])
      /\ \A i \in 1..Len(toPage) : Line[Len(fromPage) + i] = toPage[i]
  BY <1>1, LineIs DEF Line
<1>9. Len(fromPage) \in Nat /\ Len(toPage) \in Nat BY <1>1, LenProperties
<1>10. Ordered(Line) BY DEF ContextInv, LineInv
<1>11. ASSUME NEW q \in Range(toPage') PROVE Follows(r, q)
  <2>1. PICK i \in 1..Len(toPage') : toPage'[i] = q BY <1>3, RangeHas
  <2>2. /\ Len(fromPage) + 1 \in 1..Len(Line) /\ Len(fromPage) + (i + 1) \in 1..Len(Line)
        /\ Len(fromPage) + 1 < Len(fromPage) + (i + 1) /\ 1 \in 1..Len(toPage) /\ i + 1 \in 1..Len(toPage)
    BY <1>3, <1>8, <1>9
  <2>3. Follows(Line[Len(fromPage) + 1], Line[Len(fromPage) + (i + 1)]) BY <1>10, <2>2 DEF Ordered
  <2>4. QED BY <1>3, <1>8, <2>1, <2>2, <2>3
<1>12. ASSUME NEW b \in Range(fromPage) PROVE Follows(Asked(b), r)
  <2>1. PICK i \in 1..Len(fromPage) : fromPage[i] = b BY <1>1, RangeHas
  <2>2. i \in 1..Len(Line) /\ Len(fromPage) + 1 \in 1..Len(Line) /\ i < Len(fromPage) + 1 /\ 1 \in 1..Len(toPage)
    BY <1>3, <1>8, <1>9
  <2>3. Follows(Line[i], Line[Len(fromPage) + 1]) BY <1>10, <2>2 DEF Ordered
  <2>4. QED BY <1>3, <1>8, <2>1, <2>2, <2>3
<1>13. Fits(r) BY <1>3, LineSays DEF ContextInv
<1>14. QED BY <1>2, <1>3, <1>4, <1>5, <1>6, <1>7, <1>11, <1>12, <1>13

\* The scripts, as a page takes a request of them.
LEMMA TakesHooks ==
  ASSUME ContextInv, Takes
  PROVE  HooksInv' /\ FreedInv'
<1>1. /\ engine.alive /\ linked /\ phase # "over" /\ Open
      /\ UNCHANGED <<newest, phase, linked, ctx, missed, freed>>
  BY TakesIs DEF Takes
<1> USE DEF PassedBy
<1>2. PICK r \in Requests, a \in Replies : PassedBy(r, a) BY TakesPass
<1>3. /\ engine' \in Engines /\ engine'.alive
      /\ ScriptsTaken(r, a.says, engine')
  BY <1>1, <1>2, TakenIs
<1> USE DEF ScriptsTaken
<1>4. engine.hooks \in Seq(Clocks) /\ Rising(engine.hooks) /\ ctx.on
  BY <1>1 DEF ContextInv, ContextShape, Engines, HooksInv, ListedInv
<1>5. /\ ~ctx.page => engine.hooks = <<>>
      /\ \A h \in Range(engine.hooks) : Known(h)
      /\ \A h \in Range(engine.hooks), q \in Range(toPage) : q.for = "hook" => h < q.clock
      /\ Driven /\ ctx.page => ctx.current \in Range(engine.hooks)
      /\ Driven => \A b \in Range(fromPage) : b.for = "hook" /\ b.says = "ok" => b.clock \in Range(engine.hooks)
  BY <1>1 DEF ContextInv, HooksInv
<1>6. Driven' = Driven BY <1>1, <1>3 DEF Driven
<1>7. r \in Range(toPage) /\ r \in Range(Line) BY <1>2, LineSays DEF ContextInv
<1>8. freed = "all" => (\A q \in Range(Line) : q.for # "hook") /\ engine.hooks = <<>>
  BY <1>1, <1>4 DEF ContextInv, FreedInv
<1>9. CASE r.for = "hook" /\ a.says = "ok" /\ engine'.hooks = Append(engine.hooks, r.clock)
  <2>1. r.clock \in Clocks /\ ctx.page BY <1>2, <1>9 DEF Fits
  <2>2. \A h \in Range(engine.hooks) : h < r.clock BY <1>5, <1>7, <1>9
  <2>3. Range(engine'.hooks) = Range(engine.hooks) \cup {r.clock} BY <1>4, <1>9, <2>1, RangePut
  <2>4. Rising(engine'.hooks) BY <1>4, <1>9, <2>1, <2>2, RisingPut
  <2>5. ASSUME NEW h \in Range(engine'.hooks) PROVE Known(h)'
    <3>1. CASE h = r.clock BY <1>2, <1>9, <3>1 DEF Known
    <3>2. CASE h \in Range(engine.hooks)
      <4>1. Known(h) BY <1>5, <3>2
      <4>2. QED BY <1>1, <1>2, <1>9, <4>1 DEF Known
    <3>3. QED BY <2>3, <3>1, <3>2
  <2>6. ASSUME NEW h \in Range(engine'.hooks), NEW q \in Range(toPage'), q.for = "hook" PROVE h < q.clock
    <3>1. CASE h = r.clock BY <1>2, <1>9, <2>6, <3>1 DEF Follows
    <3>2. CASE h \in Range(engine.hooks) BY <1>2, <1>5, <2>6, <3>2
    <3>3. QED BY <2>3, <3>1, <3>2
  <2>7. freed # "all" BY <1>7, <1>8, <1>9
  <2>8. HooksInv' BY <1>1, <1>2, <1>5, <1>6, <2>1, <2>3, <2>4, <2>5, <2>6 DEF HooksInv
  <2>9. QED BY <1>1, <1>2, <2>7, <2>8 DEF ContextInv, FreedInv
<1>10. CASE /\ r.for = "unhook" /\ a.says = "ok"
            /\ \E i \in 1..Len(engine.hooks) : engine.hooks[i] = r.clock /\ engine'.hooks = RemoveAt(engine.hooks, i)
  <2>1. PICK i \in 1..Len(engine.hooks) : engine.hooks[i] = r.clock /\ engine'.hooks = RemoveAt(engine.hooks, i)
    BY <1>10
  <2>2. /\ Rising(engine'.hooks)
        /\ Range(engine'.hooks) = Range(engine.hooks) \ {r.clock}
    BY <1>4, <2>1, RisingRemove
  <2>3. engine.hooks # <<>> BY <2>1, EmptySeq
  <2>4. ASSUME NEW h \in Range(engine'.hooks) PROVE Known(h)'
    <3>1. Known(h) /\ h # r.clock BY <1>5, <2>2
    <3>2. QED BY <1>1, <1>2, <3>1 DEF Known
  <2>5. ASSUME Driven PROVE r.clock # ctx.current /\ \A b \in Range(fromPage) : b.for = "hook" => b.clock # r.clock
    <3>1. ~ctx.released /\ r.clock < ctx.current /\ r.clock \in Clocks
      BY <1>2, <1>10, <2>5 DEF Fits, Driven
    <3>2. ctx.current \in Scripts BY DEF ContextInv, ContextShape, Contexts
    <3>3. ASSUME NEW b \in Range(fromPage), b.for = "hook" PROVE ctx.current < b.clock /\ b.clock \in Clocks
      <4>1. Fits(Asked(b)) /\ Asked(b).for = b.for /\ Asked(b).clock = b.clock
        BY <3>3, LineSays DEF ContextInv
      <4>2. QED BY <3>1, <3>3, <4>1 DEF Fits
    <3>4. QED BY <3>1, <3>2, <3>3, ContextNumbers DEF Scripts
  <2>6. ctx.page BY <1>5, <2>3
  <2>7. Driven' /\ ctx'.page => ctx'.current \in Range(engine'.hooks)
    BY <1>1, <1>5, <1>6, <2>2, <2>5
  <2>8. Driven' => \A b \in Range(fromPage') : b.for = "hook" /\ b.says = "ok" => b.clock \in Range(engine'.hooks)
    BY <1>2, <1>5, <1>6, <1>10, <2>2, <2>5
  <2>9. HooksInv' BY <1>1, <1>2, <1>5, <2>2, <2>4, <2>6, <2>7, <2>8 DEF HooksInv
  <2>10. QED BY <1>1, <1>2, <1>8, <2>3, <2>9 DEF ContextInv, FreedInv
<1>11. CASE (r.for \in {"hook", "unhook"} => a.says # "ok") /\ engine'.hooks = engine.hooks
  <2>1. ASSUME NEW h \in Range(engine'.hooks) PROVE Known(h)'
    <3>1. Known(h) BY <1>5, <1>11, <2>1
    <3>2. QED BY <1>1, <1>2, <1>11, <3>1 DEF Known
  <2>2. HooksInv' BY <1>1, <1>2, <1>4, <1>5, <1>6, <1>11, <2>1 DEF HooksInv
  <2>3. QED BY <1>1, <1>2, <1>8, <1>11, <2>2 DEF ContextInv, FreedInv
<1>12. QED BY <1>3, <1>9, <1>10, <1>11

\* The document, and whether it follows the clock.
LEMMA TakesDocument ==
  ASSUME ContextInv, Takes
  PROVE  DocumentInv' /\ FollowedInv'
<1>1. /\ engine.alive /\ linked /\ phase # "over" /\ Open
      /\ UNCHANGED <<newest, phase, linked, ctx, missed, freed>>
  BY TakesIs DEF Takes
<1> USE DEF PassedBy
<1>2. PICK r \in Requests, a \in Replies : PassedBy(r, a) BY TakesPass
<1>3. /\ engine' \in Engines /\ engine'.alive
      /\ ScriptsTaken(r, a.says, engine') /\ DocumentTaken(r, a.says, engine')
  BY <1>1, <1>2, TakenIs
<1> USE DEF ScriptsTaken, DocumentTaken
<1>4. ctx.on /\ newest \in Int /\ engine.hooks \in Seq(Clocks) /\ engine.doc.at \in NoDocument..MaxMoves
  BY <1>1, ContextNumbers DEF ContextInv, ContextShape, Engines, Documents, ListedInv
<1>5. /\ engine.doc.at = Released => ctx.released /\ \A q \in Range(toPage) : q.for # "move"
      /\ Driven => engine.doc.at # Bare
      /\ engine.doc.at = NoDocument => ctx.page
  BY <1>1 DEF ContextInv, DocumentInv
<1>6. Driven' = Driven /\ Said' = Said /\ (Driven <=> ~ctx.released)
  BY <1>1, <1>3, <1>4 DEF Driven, Said
<1>7. r.for \in {"hook", "unhook", "move"} => r.clock \in Clocks BY <1>2 DEF Fits
<1>8. /\ ctx.page => Loaded.at \in Clocks \cup {Bare}
      /\ ctx.page /\ ~ctx.released => Loaded.at \in Clocks
      /\ ctx.page /\ ~ctx.released /\ ~Said => Loaded.at = newest \/ \E q \in Range(Line) : q.for = "hook" /\ q.clock = newest
  BY <1>1, <1>4, LoadedIs
<1>9. r \in Range(toPage) /\ r \in Range(Line) BY <1>2, LineSays DEF ContextInv
<1>10. DocumentInv'
  <2>1. \A h \in Clocks : h # Released /\ h # Bare /\ h # NoDocument /\ h >= Released
    BY ContextNumbers
  <2>2. Bare # Released /\ Bare # NoDocument /\ NoDocument # Released BY ContextNumbers
  <2>3. ASSUME engine'.doc.at = Released PROVE ctx.released /\ \A q \in Range(toPage') : q.for # "move"
    <3>1. CASE r.for = "release"
      <4>1. ctx.released /\ \A q \in Range(toPage') : q.for # "move" BY <1>2, <3>1 DEF Fits, Follows
      <4>2. QED BY <4>1
    <3>2. CASE r.for # "release"
      <4>1. engine.doc.at = Released BY <1>3, <1>7, <1>8, <2>1, <2>2, <2>3, <3>2
      <4>2. QED BY <1>2, <1>5, <4>1
    <3>3. QED BY <3>1, <3>2
  <2>4. ASSUME Driven PROVE engine'.doc.at # Bare BY <1>3, <1>5, <1>6, <1>7, <1>8, <2>1, <2>2, <2>4
  <2>5. ASSUME engine'.doc.at = NoDocument PROVE ctx.page
    BY <1>3, <1>5, <1>7, <1>8, <2>1, <2>2, <2>5
  <2>6. QED BY <1>1, <1>6, <2>3, <2>4, <2>5 DEF DocumentInv
<1>11. FollowedInv'
  <2>1. SUFFICES ASSUME Driven, ~Said PROVE Followed' BY <1>6 DEF FollowedInv
  <2>2. Followed /\ ~ctx.released BY <1>6, <2>1 DEF ContextInv, FollowedInv
  <2>3. \A q \in Range(toPage') : q \in Range(toPage) BY <1>2
  <2>4. OlderUnderWay' => OlderUnderWay BY <1>1, <1>2, <2>3 DEF OlderUnderWay
  <2>5. NewestUnderWay => NewestUnderWay' \/ (r.for = "move" /\ r.clock = newest)
    BY <1>1, <1>2 DEF NewestUnderWay
  <2>6. ASSUME r.for = "move", r.clock = newest PROVE ~OlderUnderWay'
    <3>1. ASSUME NEW q \in Range(toPage'), q.for = "move" PROVE ~(q.clock < newest)
      <4>1. newest < q.clock /\ q.clock \in Int
        <5>1. Fits(q) BY <2>3, <3>1, LineSays DEF ContextInv
        <5>2. QED BY <1>2, <2>6, <3>1, <5>1, ContextNumbers DEF Follows, Fits
      <4>2. QED BY <1>4, <4>1
    <3>2. ASSUME NEW q \in Range(Line), q.for = "hook" PROVE ~(q.clock < newest)
      <4>1. Fits(q) /\ (q \in Range(toPage) \/ \E b \in Range(fromPage) : q = Asked(b))
        BY LineSays DEF ContextInv
      <4>2. q \in Range(toPage) => q \in Range(toPage') BY <1>2, <2>6, <3>2
      <4>3. newest < q.clock
        <5>1. CASE q \in Range(toPage) BY <1>2, <2>6, <3>2, <4>2, <5>1 DEF Follows
        <5>2. CASE \E b \in Range(fromPage) : q = Asked(b) BY <1>2, <2>6, <3>2, <5>2 DEF Follows
        <5>3. QED BY <4>1, <5>1, <5>2
      <4>4. q.clock \in Int BY <3>2, <4>1, ContextNumbers DEF Fits
      <4>5. QED BY <1>4, <4>3, <4>4
    <3>3. QED BY <1>1, <1>2, <3>1, <3>2 DEF OlderUnderWay
  <2>7. ASSUME r.for = "move", r.clock = newest, NEW q \in Range(Line), q.for = "hook", q.clock = newest PROVE FALSE
    <3>1. q \in Range(toPage) \/ \E b \in Range(fromPage) : q = Asked(b) BY LineSays DEF ContextInv
    <3>2. newest < newest
      <4>1. CASE q \in Range(toPage)
        <5>1. q \in Range(toPage') BY <1>2, <2>7, <4>1
        <5>2. QED BY <1>2, <2>7, <5>1 DEF Follows
      <4>2. CASE \E b \in Range(fromPage) : q = Asked(b) BY <1>2, <2>7, <4>2 DEF Follows
      <4>3. QED BY <3>1, <4>1, <4>2
    <3>3. QED BY <1>4, <3>2
  <2>8. OlderUnderWay' => NewestUnderWay' BY <2>2, <2>4, <2>5, <2>6 DEF Followed
  <2>9. \/ engine'.doc.at = newest \/ NewestUnderWay'
        \/ ctx.page /\ engine'.doc.at = NoDocument
        \/ ~ctx.page /\ Refused("move")'
    <3>1. CASE engine'.doc = engine.doc /\ r.for # "move"
      <4>1. NewestUnderWay => NewestUnderWay' BY <2>5, <3>1
      <4>2. Refused("move") => Refused("move")' BY <1>1, <1>2 DEF Refused
      <4>3. QED BY <2>2, <3>1, <4>1, <4>2 DEF Followed
    <3>2. CASE ctx.page /\ engine'.doc = Loaded
      <4>1. CASE Loaded.at = newest BY <3>2, <4>1
      <4>2. CASE \E q \in Range(Line) : q.for = "hook" /\ q.clock = newest
        BY <1>1, <1>2, <4>2 DEF NewestUnderWay
      <4>3. QED BY <1>8, <2>1, <2>2, <3>2, <4>1, <4>2
    <3>3. CASE r.for = "release" BY <1>2, <2>2, <3>3 DEF Fits
    <3>4. CASE r.for = "move" /\ r.clock # newest
      <4>1. r.clock < newest BY <1>2, <1>4, <1>7, <3>4, ContextNumbers DEF Fits
      <4>2. OlderUnderWay BY <1>9, <3>4, <4>1 DEF OlderUnderWay
      <4>3. QED BY <2>2, <2>5, <3>4, <4>2 DEF Followed
    <3>5. CASE r.for = "move" /\ r.clock = newest /\ engine.doc.at >= Released /\ engine'.doc.at = r.clock
      BY <3>5
    <3>6. CASE engine.doc.at < Released /\ engine.doc.at # NoDocument
      <4>1. engine.doc.at = Bare BY <1>4, <3>6, ContextNumbers
      <4>2. QED BY <1>5, <2>1, <4>1
    <3>7. CASE engine.doc.at = NoDocument /\ engine'.doc = engine.doc BY <1>5, <3>7
    <3>8. CASE r.for = "move" /\ r.clock = newest /\ ~ctx.page /\ a.says = "error"
      BY <1>1, <1>2, <3>8 DEF Refused
    <3>9. QED BY <1>3, <3>1, <3>2, <3>3, <3>4, <3>5, <3>6, <3>7, <3>8
  <2>10. ASSUME ctx.page
         PROVE  \/ Last(engine'.hooks) = newest \/ Refused("hook")'
                \/ \E q \in Range(toPage') : q.for = "hook" /\ q.clock = newest
    <3>1. \/ Last(engine.hooks) = newest \/ Refused("hook")
          \/ \E q \in Range(toPage) : q.for = "hook" /\ q.clock = newest
      BY <1>1, <2>2, <2>10 DEF Followed
    <3>2. Refused("hook") => Refused("hook")' BY <1>1, <1>2 DEF Refused
    <3>3. CASE r.for = "hook" /\ a.says = "ok" /\ engine'.hooks = Append(engine.hooks, r.clock)
      <4>1. Last(engine'.hooks) = r.clock BY <1>4, <1>7, <3>3, RangePut DEF Last
      <4>2. Last(engine.hooks) # newest
        <5>1. engine.hooks # <<>> /\ ctx.current \in Range(engine.hooks)
          BY <1>1, <2>1, <2>10, LoadedFits DEF ContextInv, HooksInv
        <5>2. Last(engine.hooks) \in Range(engine.hooks)
          <6>1. Len(engine.hooks) \in Nat /\ Len(engine.hooks) # 0
            BY <1>4, <5>1, LenProperties, EmptySeq
          <6>2. QED BY <1>4, <6>1, RangeHas DEF Last
        <5>3. Last(engine.hooks) < r.clock BY <1>1, <1>9, <3>3, <5>2 DEF ContextInv, HooksInv
        <5>4. r.clock <= newest /\ r.clock \in Int BY <1>2, <1>7, <3>3, ContextNumbers DEF Fits
        <5>5. QED BY <1>4, <5>3, <5>4
      <4>3. QED BY <1>2, <3>1, <3>2, <4>1, <4>2
    <3>4. CASE /\ r.for = "unhook"
               /\ \E i \in 1..Len(engine.hooks) : engine.hooks[i] = r.clock /\ engine'.hooks = RemoveAt(engine.hooks, i)
      <4>1. r.clock < ctx.current /\ ctx.current <= newest /\ ctx.current \in Int /\ r.clock \in Int
        <5>1. r.clock < ctx.current /\ r.clock \in Clocks BY <1>2, <2>2, <3>4 DEF Fits
        <5>2. ctx.current <= newest /\ ctx.current \in Scripts
          BY <1>4, <2>2 DEF ContextInv, CurrentInv, ContextShape, Contexts
        <5>3. QED BY <5>1, <5>2, ContextNumbers DEF Scripts
      <4>2. r.clock # newest BY <1>4, <4>1
      <4>3. Last(engine.hooks) = newest => Last(engine'.hooks) = newest
        <5>1. PICK i \in 1..Len(engine.hooks) : engine.hooks[i] = r.clock /\ engine'.hooks = RemoveAt(engine.hooks, i)
          BY <3>4
        <5>2. Rising(engine.hooks) BY DEF ContextInv, HooksInv
        <5>3. Last(engine.hooks) # engine.hooks[i] => Last(RemoveAt(engine.hooks, i)) = Last(engine.hooks)
          BY <1>4, <5>2, RisingRemove
        <5>4. QED BY <4>2, <5>1, <5>3
      <4>4. QED BY <1>2, <3>1, <3>2, <3>4, <4>3
    <3>5. CASE (r.for \in {"hook", "unhook"} => a.says # "ok") /\ engine'.hooks = engine.hooks
      <4>1. CASE r.for = "hook" /\ r.clock = newest BY <1>1, <1>2, <3>5, <4>1 DEF Refused
      <4>2. CASE ~(r.for = "hook" /\ r.clock = newest) BY <1>2, <3>1, <3>2, <3>5, <4>2
      <4>3. QED BY <4>1, <4>2
    <3>6. QED BY <1>3, <3>3, <3>4, <3>5
  <2>11. QED BY <1>1, <2>8, <2>9, <2>10 DEF Followed
<1>12. QED BY <1>10, <1>11

LEMMA TakesKeep ==
  ASSUME ContextInv, Takes
  PROVE  ContextInv'
<1>1. /\ engine.alive /\ linked /\ phase # "over" /\ Open
      /\ UNCHANGED <<newest, phase, linked, ctx, missed, freed>>
  BY TakesIs DEF Takes
<1> USE DEF PassedBy
<1>2. PICK r \in Requests, a \in Replies : PassedBy(r, a) BY TakesPass
<1>3. engine' \in Engines /\ engine'.alive BY <1>1, <1>2, TakenIs
<1>4. ContextShape' BY <1>1, <1>2, <1>3 DEF ContextInv, ContextShape
<1>5. LineInv' /\ CurrentInv' BY <1>1, <1>2 DEF ContextInv, LineInv, CurrentInv, Fits
<1>6. ListedInv'
  <2>1. ctx.on /\ \A b \in Range(fromPage') : b.for # "gone"
    <3>1. a.for # "gone" BY <1>2 DEF Requests, AskKinds
    <3>2. QED BY <1>1, <1>2, <3>1 DEF ContextInv, ListedInv
  <2>2. \A i \in 1..Len(fromPage') : fromPage'[i].for # "gone" BY <1>2, <2>1, RangeHas
  <2>3. QED BY <1>1, <1>3, <2>1, <2>2 DEF ContextInv, ListedInv
<1>7. QED BY <1>4, <1>5, <1>6, TakesHooks, TakesDocument DEF ContextInv

\* What a step of the session puts behind the line.
LEMMA LineGrows ==
  ASSUME NEW f \in Seq(Replies), NEW t \in Seq(Requests), NEW s \in Seq(Requests)
  PROVE  /\ t \o s \in Seq(Requests) /\ Range(t \o s) = Range(t) \cup Range(s)
         /\ LineOf(f, t \o s) = LineOf(f, t) \o s
         /\ Range(LineOf(f, t \o s)) = Range(LineOf(f, t)) \cup Range(s)
<1>1. s \in Seq(Asks) /\ LineOf(f, t) \in Seq(Asks) BY LineIs
<1>2. t \o s \in Seq(Requests) BY ConcatProperties
<1>3. Range(t \o s) = Range(t) \cup Range(s) BY RangeConcatenation
<1>4. LineOf(f, t \o s) = LineOf(f, t) \o s BY LineSends
<1>5. Range(LineOf(f, t) \o s) = Range(LineOf(f, t)) \cup Range(s) BY <1>1, RangeConcatenation
<1>6. QED BY <1>2, <1>3, <1>4, <1>5

LEMMA OneSent ==
  ASSUME NEW r \in Requests
  PROVE  /\ <<r>> \in Seq(Requests) /\ Len(<<r>>) = 1 /\ <<r>>[1] = r
         /\ Range(<<r>>) = {r} /\ Ordered(<<r>>)
<1>1. <<r>> \in Seq(Requests) /\ Len(<<r>>) = 1 /\ <<r>>[1] = r OBVIOUS
<1>2. \A x : x \in Range(<<r>>) <=> \E i \in 1..Len(<<r>>) : <<r>>[i] = x BY <1>1, RangeHas
<1>3. QED BY <1>1, <1>2 DEF Ordered

LEMMA NoneSent ==
  /\ <<>> \in Seq(Requests) /\ <<>> \in Seq(Replies) /\ Len(<<>>) = 0 /\ Range(<<>>) = {}
  /\ Ordered(<<>>)
<1>1. <<>> \in Seq(Requests) /\ <<>> \in Seq(Replies) /\ Len(<<>>) = 0 BY EmptySeq
<1>2. Range(<<>>) = {} BY <1>1, RangeHas
<1>3. QED BY <1>1, <1>2 DEF Ordered

LEMMA UnhooksAre ==
  ASSUME NEW u \in Seq(Clocks)
  PROVE  /\ Unhooks(u) \in Seq(Requests) /\ Ordered(Unhooks(u))
         /\ \A x \in Range(Unhooks(u)) : x.for = "unhook" /\ x.clock \in Range(u)
         /\ \A h \in Range(u) : \E x \in Range(Unhooks(u)) : x.for = "unhook" /\ x.clock = h
<1>1. Len(u) \in Nat /\ \A i \in 1..Len(u) : u[i] \in Clocks BY LenProperties, ElementOfSeq
<1>2. \A h : Ask("unhook", h).for = "unhook" /\ Ask("unhook", h).clock = h BY DEF Ask
<1>3. \A h \in Clocks : Ask("unhook", h) \in Requests BY DEF Ask, Requests, AskKinds, Scripts
<1> DEFINE g == [i \in 1..Len(u) |-> Ask("unhook", u[i])]
<1>4. g \in Seq(Requests) /\ Len(g) = Len(u) BY <1>1, <1>3, IsASeq
<1>5. \A i \in 1..Len(u) : g[i] = Ask("unhook", u[i]) OBVIOUS
<1>6. Unhooks(u) = g BY DEF Unhooks
<1> HIDE DEF g
<1>7. /\ \A x : x \in Range(g) <=> \E i \in 1..Len(g) : g[i] = x
      /\ \A x : x \in Range(u) <=> \E i \in 1..Len(u) : u[i] = x
  BY <1>4, RangeHas
<1>8. \A x \in Range(g) : x.for = "unhook" /\ x.clock \in Range(u) BY <1>2, <1>4, <1>5, <1>7
<1>9. ASSUME NEW h \in Range(u) PROVE \E x \in Range(g) : x.for = "unhook" /\ x.clock = h
  <2>1. PICK i \in 1..Len(u) : u[i] = h BY <1>7
  <2>2. g[i] \in Range(g) /\ g[i] = Ask("unhook", h) BY <1>4, <1>5, <1>7, <2>1
  <2>3. QED BY <1>2, <2>2
<1>10. Ordered(g)
  <2>1. \A i \in 1..Len(g) : g[i].for = "unhook" BY <1>2, <1>4, <1>5
  <2>2. QED BY <2>1 DEF Ordered, Follows
<1>11. QED BY <1>4, <1>6, <1>8, <1>9, <1>10

\* Counts, removals and a release go behind whatever is on the line.
LEMMA QuietSends ==
  ASSUME ContextShape, LineInv, NEW s \in Seq(Requests), Ordered(s),
         \A x \in Range(s) : x.for \in {"counts", "unhook", "release"} /\ (x.for = "counts" => ~ctx.counting)
  PROVE  Ordered(Line \o s)
<1>1. Line \in Seq(Asks) /\ s \in Seq(Asks) /\ Ordered(Line)
  BY LineSays, LineIs DEF ContextShape, LineInv
<1>2. ASSUME NEW r \in Range(Line), NEW x \in Range(s) PROVE Follows(r, x)
  <2>1. Fits(r) BY LineSays
  <2>2. x.for \in {"counts", "unhook", "release"} /\ (x.for = "counts" => ~ctx.counting) OBVIOUS
  <2>3. QED BY <2>1, <2>2 DEF Fits, Follows
<1>3. QED BY <1>1, <1>2, OrderedSends

-----------------------------------------------------------------------------
\* The target is reached.
LEMMA AttachKeeps ==
  ASSUME ContextInv, NEW page \in BOOLEAN, NEW awaits \in BOOLEAN, Attaches(page, awaits)
  PROVE  ContextInv'
<1>1. /\ phase = "running" /\ linked /\ ~ctx.on /\ fromPage = <<>> /\ ctx.session < MaxSessions /\ (awaits => page)
      /\ UNCHANGED <<newest, phase, linked, missed, toPage, fromPage, freed>>
  BY DEF Attaches
<1>2. toPage = <<>> BY <1>1 DEF ContextInv, ListedInv
<1>3. /\ newest \in Clocks /\ ctx \in Contexts /\ newest \in Int
  BY ContextNumbers DEF ContextInv, ContextShape
<1>4. ctx' = [on |-> TRUE, session |-> ctx.session + 1, page |-> page, current |-> IF page THEN newest ELSE NoHook,
              unremoved |-> <<>>, counting |-> FALSE, released |-> FALSE, answer |-> FALSE, awaiting |-> awaits]
  BY DEF Attaches, Nobody
<1>5. engine' = [alive |-> TRUE, hooks |-> IF page THEN <<newest>> ELSE <<>>,
                 doc |-> [at |-> IF awaits THEN NoDocument ELSE newest, apart |-> FALSE], loads |-> 0]
  BY DEF Attaches, On
<1>6. /\ Len(<<newest>>) = 1 /\ <<newest>> \in Seq(Clocks) /\ <<>> \in Seq(Clocks)
      /\ Range(<<newest>>) = {newest} /\ Rising(<<newest>>) /\ Last(<<newest>>) = newest /\ Rising(<<>>)
      /\ <<newest>> # <<>>
  <2>1. Len(<<newest>>) = 1 /\ <<newest>> \in Seq(Clocks) /\ <<newest>>[1] = newest /\ <<>> \in Seq(Clocks) /\ Len(<<>>) = 0
    BY <1>3, EmptySeq
  <2>2. \A x : x \in Range(<<newest>>) <=> \E i \in 1..Len(<<newest>>) : <<newest>>[i] = x
    BY <2>1, RangeHas
  <2>3. QED BY <2>1, <2>2 DEF Rising, Last
<1>7. ctx' \in Contexts BY <1>1, <1>3, <1>4, <1>6, ContextNumbers DEF Contexts, Scripts
<1>8. engine' \in Engines
  <2>1. (IF page THEN <<newest>> ELSE <<>>) \in Seq(Clocks) BY <1>6
  <2>2. (IF awaits THEN NoDocument ELSE newest) \in NoDocument..MaxMoves /\ 0 \in 0..MaxLoads
    BY <1>3, ContextNumbers
  <2>3. QED BY <1>5, <2>1, <2>2 DEF Engines, Documents
<1>9. ContextShape' BY <1>1, <1>7, <1>8 DEF ContextInv, ContextShape
<1>10. /\ Range(Line') = {} /\ Len(Line') = 0 /\ Range(fromPage') = {} /\ Range(toPage') = {} /\ Len(fromPage') = 0
       /\ fromPage' = <<>> /\ toPage' = <<>>
  <2>1. Len(Line') = Len(fromPage) + Len(toPage) /\ Range(Line') = {Asked(a) : a \in Range(fromPage)} \cup Range(toPage)
    BY <1>1, <1>2, NoneSent, LineIs DEF Line
  <2>2. QED BY <1>1, <1>2, <2>1, NoneSent
<1>11. LineInv' BY <1>10 DEF LineInv, Ordered
<1>12. ListedInv' BY <1>1, <1>3, <1>4, <1>5, <1>10, ContextNumbers DEF ListedInv, Contexts
<1>13. CurrentInv' BY <1>1, <1>3, <1>4, <1>10, NoneSent, ContextNumbers DEF CurrentInv
<1>14. HooksInv'
  <2>1. CASE page
    <3>1. Range(engine'.hooks) = {newest} /\ ctx'.current = newest /\ ctx'.page /\ linked' /\ Rising(engine'.hooks)
      BY <1>1, <1>4, <1>5, <1>6, <2>1
    <3>2. QED BY <1>10, <3>1 DEF HooksInv, Known
  <2>2. CASE ~page
    <3>1. engine'.hooks = <<>> /\ Range(engine'.hooks) = {} /\ ~ctx'.page /\ Rising(engine'.hooks)
      BY <1>4, <1>5, <1>6, <2>2, NoneSent
    <3>2. QED BY <1>10, <3>1 DEF HooksInv
  <2>3. QED BY <2>1, <2>2
<1>15. DocumentInv' BY <1>1, <1>3, <1>4, <1>5, ContextNumbers DEF DocumentInv
<1>16. FollowedInv'
  <2>1. engine'.doc.at = newest' \/ (ctx'.page /\ engine'.doc.at = NoDocument)
    <3>1. CASE awaits BY <1>1, <1>4, <1>5, <3>1
    <3>2. CASE ~awaits
      <4>1. engine'.doc.at = newest BY <1>5, <3>2
      <4>2. newest' = newest BY DEF Attaches
      <4>3. QED BY <4>1, <4>2
    <3>3. QED BY <3>1, <3>2
  <2>2. ctx'.page => Last(engine'.hooks) = newest' BY <1>1, <1>4, <1>5, <1>6
  <2>3. ~OlderUnderWay' BY <1>10 DEF OlderUnderWay
  <2>4. Followed' BY <2>1, <2>2, <2>3 DEF Followed
  <2>5. QED BY <2>4 DEF FollowedInv
<1>17. FreedInv' BY <1>1 DEF ContextInv, FreedInv
<1>18. QED BY <1>9, <1>11, <1>12, <1>13, <1>14, <1>15, <1>16, <1>17 DEF ContextInv

\* A page's scripts are of clocks the session gave.
LEMMA HookIsPast ==
  ASSUME ContextInv, engine.alive, phase # "over", ~ctx.released, NEW h \in Range(engine.hooks)
  PROVE  h \in Clocks /\ h <= newest
<1>1. ctx.on /\ Known(h) BY DEF ContextInv, ListedInv, HooksInv
<1>2. h \in Clocks
  <2>1. engine.hooks \in Seq(Clocks) BY DEF ContextInv, ContextShape, Engines
  <2>2. QED BY <2>1, RangeHas
<1>3. ctx.current \in Int /\ ctx.current <= newest /\ newest \in Int /\ h \in Int
  BY <1>1, <1>2, ContextNumbers DEF ContextInv, ContextShape, Contexts, Scripts, CurrentInv
<1>4. h = ctx.current \/ h < ctx.current \/ h <= newest
  <2>1. CASE h \in Range(ctx.unremoved) BY <1>1, <2>1 DEF ContextInv, CurrentInv
  <2>2. CASE \E a \in Range(fromPage) : a.for \in {"hook", "unhook"} /\ a.clock = h
    BY <2>2, LineSays DEF ContextInv, Fits
  <2>3. CASE \E r \in Range(toPage) : r.for = "unhook" /\ r.clock = h
    BY <2>3, LineSays DEF ContextInv, Fits
  <2>4. QED BY <1>1, <2>1, <2>2, <2>3 DEF Known
<1>5. QED BY <1>2, <1>3, <1>4

\* The session clock is set, and what is reached is told.
LEMMA MoveClockKeeps ==
  ASSUME ContextInv, MovesClock
  PROVE  ContextInv'
<1> DEFINE reached == ctx.on /\ ~ctx.released
           kind == IF ctx.current = NoHook THEN "move" ELSE "hook"
           r == Ask(kind, newest + 1)
<1>1. /\ phase = "running" /\ newest < MaxMoves /\ newest' = newest + 1
      /\ toPage' = IF linked THEN toPage \o (IF ~reached THEN <<>> ELSE <<r>>) ELSE toPage
      /\ missed' = IF reached /\ ~linked THEN missed \cup {ctx.session} ELSE missed
      /\ UNCHANGED <<phase, linked, ctx, engine, fromPage, freed>>
  BY DEF MovesClock, Sends
<1>2. /\ newest \in Clocks /\ newest \in Int /\ newest + 1 \in Clocks /\ newest' \in Clocks
      /\ ctx \in Contexts /\ toPage \in Seq(Requests) /\ fromPage \in Seq(Replies) /\ linked \in BOOLEAN
  BY <1>1, ContextNumbers DEF ContextInv, ContextShape
<1>3. r \in Requests /\ r.for = kind /\ r.clock = newest + 1 /\ kind \in {"hook", "move"}
  BY <1>2 DEF Ask, Requests, AskKinds, Scripts
<1>4. reached => (kind = "hook" <=> ctx.page) /\ (kind = "move" <=> ~ctx.page) /\ ctx.current <= newest /\ ctx.current \in Int
  BY <1>2, ContextNumbers DEF ContextInv, CurrentInv, Contexts, Scripts
<1> HIDE DEF r, kind
<1>5. \/ ~(reached /\ linked) /\ toPage' = toPage /\ Line' = Line
      \/ /\ reached /\ linked /\ toPage' \in Seq(Requests)
         /\ Range(toPage') = Range(toPage) \cup {r} /\ Line' = Line \o <<r>> /\ Range(Line') = Range(Line) \cup {r}
  <2>1. CASE linked /\ ~reached
    <3>1. toPage' = toPage BY <1>1, <1>2, <2>1, ConcatEmptySeq
    <3>2. QED BY <1>1, <2>1, <3>1 DEF Line
  <2>2. CASE ~linked BY <1>1, <2>2 DEF Line
  <2>3. CASE linked /\ reached
    <3> DEFINE s == <<r>>
    <3>1. toPage' = toPage \o s BY <1>1, <2>3
    <3>2. s \in Seq(Requests) /\ Range(s) = {r} BY <1>3, OneSent
    <3> HIDE DEF s
    <3>3. /\ toPage \o s \in Seq(Requests) /\ Range(toPage \o s) = Range(toPage) \cup Range(s)
          /\ LineOf(fromPage, toPage \o s) = LineOf(fromPage, toPage) \o s
          /\ Range(LineOf(fromPage, toPage \o s)) = Range(LineOf(fromPage, toPage)) \cup Range(s)
      BY <1>2, <3>2, LineGrows
    <3>4. Line' = Line \o s /\ Range(Line') = Range(Line) \cup {r}
      BY <1>1, <3>1, <3>2, <3>3 DEF Line
    <3>5. QED BY <2>3, <3>1, <3>2, <3>3, <3>4 DEF s
  <2>4. QED BY <1>2, <2>1, <2>2, <2>3
<1>6. /\ toPage' \in Seq(Requests) /\ Range(toPage) \subseteq Range(toPage') /\ Range(Line) \subseteq Range(Line')
      /\ \A q \in Range(toPage') : q \in Range(toPage) \/ (reached /\ linked /\ q = r)
      /\ \A q \in Range(Line') : q \in Range(Line) \/ (reached /\ linked /\ q = r)
  BY <1>2, <1>5
<1>7. Line \in Seq(Asks) /\ \A q \in Range(Line) : Fits(q) BY LineSays DEF ContextInv
<1>8. ContextShape'
  <2>1. ctx.on => ctx.session \in 1..MaxSessions
    BY <1>2, ContextNumbers DEF ContextInv, ListedInv, Contexts
  <2>2. missed' \subseteq 1..MaxSessions BY <1>1, <2>1 DEF ContextInv, ContextShape
  <2>3. QED BY <1>1, <1>2, <1>6, <2>2 DEF ContextInv, ContextShape
<1>9. LineInv'
  <2>1. ASSUME NEW q \in Range(Line') PROVE Fits(q)'
    <3>1. CASE q \in Range(Line)
      <4>1. Fits(q) /\ UNCHANGED ctx BY <1>1, <1>7, <3>1
      <4>2. q.for \in {"hook", "move"} => q.clock \in Int BY <4>1, ContextNumbers DEF Fits
      <4>3. QED BY <1>1, <1>2, <4>1, <4>2 DEF Fits
    <3>2. CASE reached /\ q = r BY <1>1, <1>2, <1>3, <1>4, <3>2 DEF Fits
    <3>3. QED BY <1>6, <3>1, <3>2
  <2>2. ASSUME reached PROVE Ordered(Line \o <<r>>)
    <3>1. ASSUME NEW q \in Range(Line) PROVE Follows(q, r)
      <4>1. Fits(q) BY <1>7
      <4>2. q.for \in {"hook", "move"} => q.clock < newest + 1
        BY <1>2, <4>1, ContextNumbers DEF Fits
      <4>3. ~(q.for = "hook" /\ r.for = "move") /\ q.for # "release"
        BY <1>3, <1>4, <2>2, <4>1 DEF Fits
      <4>4. QED BY <1>3, <4>2, <4>3 DEF Follows
    <3>2. <<r>> \in Seq(Asks) /\ Ordered(<<r>>) /\ Range(<<r>>) = {r}
      BY <1>3, OneSent, LineIs, NoneSent
    <3>3. Ordered(Line) BY DEF ContextInv, LineInv
    <3>4. QED BY <1>7, <3>1, <3>2, <3>3, OrderedSends
  <2>3. Ordered(Line)' BY <1>5, <2>2 DEF ContextInv, LineInv, Ordered
  <2>4. QED BY <2>1, <2>3 DEF LineInv
<1>10. ListedInv'
  <2>1. ~ctx.on => toPage' = toPage BY <1>5
  <2>2. QED BY <1>1, <2>1 DEF ContextInv, ListedInv
<1>11. CurrentInv'
  <2>1. ctx.current \in Int BY <1>2, ContextNumbers DEF Contexts, Scripts
  <2>2. QED BY <1>1, <1>2, <2>1 DEF ContextInv, CurrentInv
<1>12. HooksInv'
  <2>1. \A h : Known(h) => Known(h)' BY <1>1, <1>6 DEF Known
  <2>2. ASSUME engine.alive, NEW h \in Range(engine.hooks), NEW q \in Range(toPage'), q.for = "hook" PROVE h < q.clock
    <3>1. CASE q \in Range(toPage) BY <2>2, <3>1 DEF ContextInv, HooksInv
    <3>2. CASE reached /\ q = r
      <4>1. h \in Clocks /\ h <= newest BY <1>1, <2>2, <3>2, HookIsPast
      <4>2. QED BY <1>2, <1>3, <3>2, <4>1, ContextNumbers
    <3>3. QED BY <1>6, <3>1, <3>2
  <2>3. QED BY <1>1, <2>1, <2>2 DEF ContextInv, HooksInv, Driven
<1>13. DocumentInv'
  <2>1. engine.alive /\ engine.doc.at = Released => ~reached BY DEF ContextInv, DocumentInv
  <2>2. QED BY <1>1, <1>6, <2>1 DEF ContextInv, DocumentInv, Driven
<1>14. FollowedInv'
  <2>1. SUFFICES ASSUME Driven', ~Said' PROVE Followed' BY DEF FollowedInv
  <2>2. reached /\ linked BY <1>1, <1>2, <2>1 DEF Driven, Said
  <2>3. r \in Range(toPage') /\ r \in Range(Line') BY <1>5, <2>2
  <2>4. NewestUnderWay' BY <1>1, <1>3, <2>3 DEF NewestUnderWay
  <2>5. ctx'.page => \E q \in Range(toPage') : q.for = "hook" /\ q.clock = newest'
    BY <1>1, <1>3, <1>4, <2>2, <2>3
  <2>6. QED BY <2>4, <2>5 DEF Followed
<1>15. FreedInv' BY <1>1 DEF ContextInv, FreedInv
<1>16. QED BY <1>8, <1>9, <1>10, <1>11, <1>12, <1>13, <1>14, <1>15 DEF ContextInv

\* The last counts are asked for.
LEMMA CountsKeep ==
  ASSUME ContextInv, phase # "over", phase' \in {"running", "ending"}, Sends(CountsAsked), ctx' = Counting,
         freed' \in {"untold", "all", "some"}, UNCHANGED <<newest, linked, missed, engine, fromPage>>
  PROVE  /\ ContextShape' /\ LineInv' /\ ListedInv' /\ CurrentInv' /\ HooksInv' /\ DocumentInv' /\ FollowedInv'
         /\ ctx'.on = ctx.on /\ \A q \in Range(Line') : q \in Range(Line) \/ q.for = "counts"
<1>1. /\ ctx \in Contexts /\ toPage \in Seq(Requests) /\ fromPage \in Seq(Replies) /\ linked \in BOOLEAN
  BY DEF ContextInv, ContextShape
<1>2. PICK b \in BOOLEAN : ctx' = [ctx EXCEPT !.counting = b] /\ (ctx.counting => b) /\ (ctx.on /\ linked => b)
  <2>1. CASE ctx.on /\ linked BY <2>1 DEF Counting
  <2>2. CASE ~(ctx.on /\ linked)
    <3>1. ctx' = [ctx EXCEPT !.counting = ctx.counting] /\ ctx.counting \in BOOLEAN
      BY <1>1, <2>2 DEF Counting, Contexts
    <3>2. QED BY <2>2, <3>1
  <2>3. QED BY <2>1, <2>2
<1>3. /\ ctx' \in Contexts /\ ctx'.on = ctx.on /\ ctx'.session = ctx.session /\ ctx'.page = ctx.page
      /\ ctx'.current = ctx.current /\ ctx'.unremoved = ctx.unremoved /\ ctx'.counting = b
      /\ ctx'.released = ctx.released /\ ctx'.awaiting = ctx.awaiting
  BY <1>1, <1>2 DEF Contexts
<1>4. Counts \in Requests /\ Counts.for = "counts" BY DEF Counts, Ask, Requests, AskKinds, Scripts
<1>5. \/ toPage' = toPage /\ Line' = Line
      \/ /\ ctx.on /\ ~ctx.counting /\ b /\ toPage' \in Seq(Requests) /\ Ordered(Line')
         /\ Range(toPage') = Range(toPage) \cup {Counts} /\ Range(Line') = Range(Line) \cup {Counts}
  <2>1. CASE linked /\ ctx.on /\ ~ctx.counting
    <3> DEFINE s == <<Counts>>
    <3>1. toPage' = toPage \o s BY <2>1 DEF Sends, CountsAsked
    <3>2. s \in Seq(Requests) /\ Range(s) = {Counts} /\ Ordered(s) BY <1>4, OneSent
    <3> HIDE DEF s
    <3>3. /\ toPage \o s \in Seq(Requests) /\ Range(toPage \o s) = Range(toPage) \cup Range(s)
          /\ LineOf(fromPage, toPage \o s) = LineOf(fromPage, toPage) \o s
          /\ Range(LineOf(fromPage, toPage \o s)) = Range(LineOf(fromPage, toPage)) \cup Range(s)
      <4>1. fromPage \in Seq(Replies) /\ toPage \in Seq(Requests) /\ s \in Seq(Requests)
        BY <1>1, <3>2
      <4>2. QED BY <4>1, LineGrows, Zenon
    <3>4. Line' = Line \o s /\ Range(Line') = Range(Line) \cup {Counts} BY <3>1, <3>2, <3>3 DEF Line
    <3>5. \A x \in Range(s) : x.for \in {"counts", "unhook", "release"} /\ (x.for = "counts" => ~ctx.counting)
      BY <1>4, <2>1, <3>2
    <3>6. Ordered(Line \o s) BY <3>2, <3>5, QuietSends DEF ContextInv
    <3>7. QED BY <1>2, <2>1, <3>1, <3>2, <3>3, <3>4, <3>6
  <2>2. CASE ~linked BY <2>2 DEF Sends, Line
  <2>3. CASE linked /\ ~(ctx.on /\ ~ctx.counting)
    <3>1. toPage' = toPage \o <<>> BY <2>3 DEF Sends, CountsAsked
    <3>2. toPage' = toPage BY <1>1, <3>1, ConcatEmptySeq
    <3>3. QED BY <3>2 DEF Line
  <2>4. QED BY <2>1, <2>2, <2>3
<1>6. /\ toPage' \in Seq(Requests) /\ Range(toPage) \subseteq Range(toPage') /\ Range(Line) \subseteq Range(Line')
      /\ \A q \in Range(toPage') : q \in Range(toPage) \/ (q = Counts /\ ctx.on /\ b)
      /\ \A q \in Range(Line') : q \in Range(Line) \/ (q = Counts /\ ctx.on /\ b)
  BY <1>1, <1>5
<1>7. Driven' = Driven /\ Said' = Said BY <1>3 DEF Driven, Said
<1>8. ContextShape' BY <1>3, <1>6 DEF ContextInv, ContextShape
<1>9. LineInv'
  <2>1. ASSUME NEW q \in Range(Line') PROVE Fits(q)'
    <3>1. CASE q \in Range(Line) BY <1>2, <1>3, <3>1 DEF ContextInv, LineInv, Fits
    <3>2. CASE q = Counts /\ b BY <1>3, <1>4, <3>2 DEF Fits
    <3>3. QED BY <1>6, <3>1, <3>2
  <2>2. Ordered(Line)' BY <1>5 DEF ContextInv, LineInv, Ordered
  <2>3. QED BY <2>1, <2>2 DEF LineInv
<1>10. ListedInv'
  <2>1. ~ctx.on => toPage' = toPage BY <1>5
  <2>2. phase' # "over" OBVIOUS
  <2>3. QED BY <1>3, <2>1, <2>2 DEF ContextInv, ListedInv
<1>11. CurrentInv' BY <1>3 DEF ContextInv, CurrentInv
<1>12. HooksInv'
  <2>1. \A h : Known(h) => Known(h)' BY <1>3, <1>6 DEF Known
  <2>2. \A q \in Range(toPage') : q.for = "hook" => q \in Range(toPage) BY <1>4, <1>6
  <2>3. QED BY <1>3, <1>7, <2>1, <2>2 DEF ContextInv, HooksInv
<1>13. DocumentInv'
  <2>1. \A q \in Range(toPage') : q.for = "move" => q \in Range(toPage) BY <1>4, <1>6
  <2>2. QED BY <1>3, <1>7, <2>1 DEF ContextInv, DocumentInv
<1>14. FollowedInv'
  <2>1. SUFFICES ASSUME Driven, ~Said PROVE Followed' BY <1>7 DEF FollowedInv
  <2>2. Followed BY <2>1 DEF ContextInv, FollowedInv
  <2>3. OlderUnderWay' => OlderUnderWay BY <1>4, <1>6 DEF OlderUnderWay
  <2>4. NewestUnderWay => NewestUnderWay' BY <1>6 DEF NewestUnderWay
  <2>5. QED BY <1>3, <1>6, <2>2, <2>3, <2>4 DEF Followed, Refused
<1>15. QED BY <1>3, <1>4, <1>6, <1>8, <1>9, <1>10, <1>11, <1>12, <1>13, <1>14

LEMMA AskKeeps ==
  ASSUME ContextInv, AsksCounts
  PROVE  ContextInv'
<1>1. /\ phase = "running" /\ phase' = "running" /\ Sends(CountsAsked) /\ ctx' = Counting /\ freed' = freed
      /\ UNCHANGED <<newest, linked, missed, engine, fromPage>>
  BY DEF AsksCounts
<1>2. freed = "untold" BY <1>1 DEF ContextInv, FreedInv, ContextShape
<1>3. QED BY <1>1, <1>2, CountsKeep DEF ContextInv, FreedInv

LEMMA SettleKeeps ==
  ASSUME ContextInv, Settles
  PROVE  ContextInv'
<1>1. /\ phase = "running" /\ phase' = "ending" /\ Sends(CountsAsked) /\ ctx' = Counting /\ freed' = freed
      /\ UNCHANGED <<newest, linked, missed, engine, fromPage>>
  BY DEF Settles
<1>2. freed = "untold" BY <1>1 DEF ContextInv, FreedInv, ContextShape
<1>3. QED BY <1>1, <1>2, CountsKeep DEF ContextInv, FreedInv

\* A release told as confirmed left nothing that knows of a script.
LEMMA TellKeeps ==
  ASSUME ContextInv, TellsRelease
  PROVE  ContextInv'
<1>1. /\ phase = "letgo" /\ phase' = "ending" /\ Sends(CountsAsked) /\ ctx' = Counting
      /\ freed' = (IF Unconfirmed THEN "some" ELSE "all")
      /\ UNCHANGED <<newest, linked, missed, engine, fromPage>>
  BY DEF TellsRelease
<1>2. /\ ContextShape' /\ LineInv' /\ ListedInv' /\ CurrentInv' /\ HooksInv' /\ DocumentInv' /\ FollowedInv'
      /\ ctx'.on = ctx.on /\ \A q \in Range(Line') : q \in Range(Line) \/ q.for = "counts"
  BY <1>1, CountsKeep
<1>3. ASSUME freed' = "all", ctx.on
      PROVE  /\ \A q \in Range(Line) : q.for \notin {"hook", "unhook"}
             /\ engine.alive => engine.hooks = <<>>
  <2>1. ctx.unremoved = <<>> /\ ctx.current = NoHook /\ ~InFlight({"hook", "unhook"})
    BY <1>1, <1>3 DEF Unconfirmed
  <2>2. \A q \in Range(Line) : q.for \notin {"hook", "unhook"} BY <2>1, FlightIs DEF ContextInv
  <2>3. engine.hooks \in Seq(Clocks) BY DEF ContextInv, ContextShape, Engines
  <2>4. ASSUME engine.alive PROVE engine.hooks = <<>>
    <3>1. SUFFICES ASSUME NEW h \in Range(engine.hooks) PROVE FALSE BY <2>3, RangeHas
    <3>2. Known(h) /\ h \in Clocks BY <1>1, <2>3, <2>4, RangeHas DEF ContextInv, HooksInv
    <3>3. h # ctx.current /\ h \notin Range(ctx.unremoved) BY <2>1, <3>2, NoneSent, ContextNumbers
    <3>4. QED BY <2>2, <3>2, <3>3, LineSays DEF ContextInv, Known
  <2>5. QED BY <2>2, <2>4
<1>4. FreedInv' BY <1>1, <1>2, <1>3 DEF FreedInv
<1>5. QED BY <1>2, <1>4 DEF ContextInv

\* The outcome is handed over: a move that has no answer was missed.
LEMMA HandKeeps ==
  ASSUME ContextInv, Hands
  PROVE  ContextInv'
<1>1. /\ phase = "ending" /\ phase' = "over" /\ toPage' = <<>> /\ fromPage' = <<>>
      /\ missed' = (IF ctx.on /\ InFlight({"hook", "move"}) THEN missed \cup {ctx.session} ELSE missed)
      /\ UNCHANGED <<newest, linked, ctx, engine, freed>>
  BY DEF Hands, SettledMissed
<1>2. /\ Range(toPage') = {} /\ Range(fromPage') = {} /\ Len(fromPage') = 0 /\ Len(Line') = 0 /\ Range(Line') = {}
      /\ toPage' \in Seq(Requests) /\ fromPage' \in Seq(Replies)
  <2>1. Len(Line') = Len(fromPage') + Len(toPage') /\ Range(Line') = {Asked(a) : a \in Range(fromPage')} \cup Range(toPage')
    BY <1>1, NoneSent, LineIs DEF Line
  <2>2. QED BY <1>1, <2>1, NoneSent
<1>3. ContextShape'
  <2>1. ctx.on => ctx.session \in 1..MaxSessions
    BY ContextNumbers DEF ContextInv, ContextShape, ListedInv, Contexts
  <2>2. missed' \subseteq 1..MaxSessions BY <1>1, <2>1 DEF ContextInv, ContextShape
  <2>3. QED BY <1>1, <1>2, <2>2 DEF ContextInv, ContextShape
<1>4. LineInv' BY <1>2 DEF LineInv, Ordered
<1>5. ListedInv' /\ CurrentInv' BY <1>1, <1>2 DEF ContextInv, ListedInv, CurrentInv
<1>6. HooksInv' /\ DocumentInv' BY <1>1, <1>2 DEF ContextInv, HooksInv, DocumentInv, Driven
<1>7. FollowedInv'
  <2>1. SUFFICES ASSUME Driven', ~Said' PROVE Followed' BY DEF FollowedInv
  <2>2. Driven /\ ~Said /\ ~InFlight({"hook", "move"}) /\ ctx.on BY <1>1, <2>1 DEF Driven, Said
  <2>3. Followed /\ \A q \in Range(Line) : q.for \notin {"hook", "move"}
    BY <2>2, FlightIs DEF ContextInv, FollowedInv
  <2>4. /\ ~NewestUnderWay /\ ~Refused("hook") /\ ~Refused("move")
        /\ ~\E q \in Range(toPage) : q.for = "hook" /\ q.clock = newest
    BY <2>3, LineSays DEF ContextInv, NewestUnderWay, Refused
  <2>5. ~OlderUnderWay' BY <1>2 DEF OlderUnderWay
  <2>6. QED BY <1>1, <2>3, <2>4, <2>5 DEF Followed
<1>8. FreedInv' BY <1>1, <1>2 DEF ContextInv, FreedInv
<1>9. QED BY <1>3, <1>4, <1>5, <1>6, <1>7, <1>8 DEF ContextInv

\* Every context is let go of: what a page has is asked for, and no longer counted on.
LEMMA LetGoKeeps ==
  ASSUME ContextInv, LetsGo
  PROVE  ContextInv'
<1>1. /\ phase = "running" /\ phase' = "letgo" /\ UNCHANGED <<newest, linked, missed, engine, fromPage, freed>>
  BY DEF LetsGo
<1>2. /\ ctx \in Contexts /\ toPage \in Seq(Requests) /\ fromPage \in Seq(Replies) /\ linked \in BOOLEAN
      /\ ctx.unremoved \in Seq(Clocks)
  BY DEF ContextInv, ContextShape, Contexts
<1>3. FreedInv' BY <1>1 DEF ContextInv, FreedInv
<1>4. CASE ~ctx.on
  <2>1. UNCHANGED <<ctx, toPage>> /\ ~engine.alive BY <1>4 DEF LetsGo, ContextInv, ListedInv
  <2>2. Line' = Line BY <1>1, <2>1 DEF Line
  <2>3. ContextShape' /\ ListedInv' /\ CurrentInv'
    BY <1>1, <2>1 DEF ContextInv, ContextShape, ListedInv, CurrentInv
  <2>4. LineInv' BY <1>1, <2>1, <2>2 DEF ContextInv, LineInv, Fits
  <2>5. HooksInv' /\ DocumentInv' /\ FollowedInv'
    BY <1>1, <1>4, <2>1 DEF ContextInv, HooksInv, DocumentInv, FollowedInv, Driven
  <2>6. QED BY <1>3, <2>3, <2>4, <2>5 DEF ContextInv
<1>5. CASE ctx.on
  <2> DEFINE left == HooksLeft
             asks == CountsAsked
             out == Unhooks(left)
             s == asks \o (out \o <<Release>>)
  <2>1. left \in Seq(Clocks) /\ \A h \in Clocks : h = ctx.current \/ h \in Range(ctx.unremoved) => h \in Range(left)
    <3>1. CASE ctx.current = NoHook BY <1>2, <3>1, ContextNumbers DEF HooksLeft
    <3>2. CASE ctx.current # NoHook
      <4>1. ctx.current \in Clocks BY <1>2, <3>2 DEF Contexts, Scripts
      <4>2. left = Append(ctx.unremoved, ctx.current) BY <3>2 DEF HooksLeft
      <4>3. QED BY <1>2, <4>1, <4>2, RangePut
    <3>3. QED BY <3>1, <3>2
  <2> DEFINE c == [Counting EXCEPT !.released = TRUE, !.current = NoHook, !.unremoved = HooksLeft]
  <2>2. toPage' = (IF linked THEN toPage \o (asks \o ReleaseAsked(c)) ELSE toPage) /\ ctx' = Unhooked(c)
    BY <1>5 DEF LetsGo, Sends
  <2>3. PICK b \in BOOLEAN, u \in Seq(Clocks) :
           /\ ctx' = [ctx EXCEPT !.counting = b, !.released = TRUE, !.current = NoHook, !.unremoved = u]
           /\ (ctx.counting => b) /\ (linked => b)
    <3>1. CASE linked
      <4>1. ctx' = [ctx EXCEPT !.counting = TRUE, !.released = TRUE, !.current = NoHook, !.unremoved = <<>>]
        BY <1>2, <1>5, <2>2, <3>1 DEF Unhooked, Counting, Contexts
      <4>2. <<>> \in Seq(Clocks) BY EmptySeq
      <4>3. QED BY <4>1, <4>2
    <3>2. CASE ~linked
      <4>1. ctx' = [ctx EXCEPT !.counting = ctx.counting, !.released = TRUE, !.current = NoHook, !.unremoved = left]
            /\ ctx.counting \in BOOLEAN
        BY <1>2, <2>2, <3>2 DEF Unhooked, Counting, Contexts
      <4>2. QED BY <2>1, <3>2, <4>1
    <3>3. QED BY <3>1, <3>2
  <2>4. /\ ctx' \in Contexts /\ ctx'.on /\ ctx'.session = ctx.session /\ ctx'.page = ctx.page
        /\ ctx'.current = NoHook /\ ctx'.counting = b /\ ctx'.released /\ ctx'.awaiting = ctx.awaiting
    BY <1>2, <1>5, <2>3 DEF Contexts, Scripts
  <2>5. ReleaseAsked(c) = out \o <<Release>> BY <1>2 DEF ReleaseAsked, Counting, Contexts
  <2> HIDE DEF c, left
  <2>6. /\ Counts \in Requests /\ Counts.for = "counts" /\ Release \in Requests /\ Release.for = "release"
    BY DEF Counts, Release, Ask, Requests, AskKinds, Scripts
  <2>7. /\ out \in Seq(Requests) /\ Ordered(out) /\ \A x \in Range(out) : x.for = "unhook" /\ x.clock \in Range(left)
        /\ \A h \in Range(left) : \E x \in Range(out) : x.for = "unhook" /\ x.clock = h
    BY <2>1, UnhooksAre
  <2>8. /\ asks \in Seq(Requests) /\ Ordered(asks) /\ \A x \in Range(asks) : x.for = "counts" /\ ~ctx.counting
    <3>1. CASE ctx.counting
      <4>1. asks = <<>> BY <3>1 DEF CountsAsked
      <4>2. QED BY <4>1, NoneSent
    <3>2. CASE ~ctx.counting
      <4>1. asks = <<Counts>> BY <1>5, <3>2 DEF CountsAsked
      <4>2. QED BY <2>6, <3>2, <4>1, OneSent
    <3>3. QED BY <3>1, <3>2
  <2> HIDE DEF out, asks
  <2>9. /\ s \in Seq(Requests) /\ Ordered(s) /\ Range(s) = Range(asks) \cup (Range(out) \cup {Release})
    <3> DEFINE e == <<Release>>
    <3>1. e \in Seq(Requests) /\ Range(e) = {Release} /\ Ordered(e) BY <2>6, OneSent
    <3> HIDE DEF e
    <3>2. out \o e \in Seq(Requests) /\ Range(out \o e) = Range(out) \cup Range(e)
      BY <2>7, <3>1, ConcatProperties, RangeConcatenation
    <3>3. \A r \in Range(out), q \in Range(e) : Follows(r, q) BY <2>6, <2>7, <3>1 DEF Follows
    <3>4. Ordered(out \o e) BY <2>7, <3>1, <3>3, OrderedSends
    <3>5. asks \o (out \o e) \in Seq(Requests) /\ Range(asks \o (out \o e)) = Range(asks) \cup Range(out \o e)
      <4> DEFINE d == out \o e
      <4>1. asks \in Seq(Requests) /\ d \in Seq(Requests) BY <2>8, <3>2
      <4> HIDE DEF d
      <4>2. asks \o d \in Seq(Requests) /\ Range(asks \o d) = Range(asks) \cup Range(d)
        BY <4>1, ConcatProperties, RangeConcatenation
      <4>3. QED BY <4>2 DEF d
    <3>6. \A r \in Range(asks), q \in Range(out \o e) : Follows(r, q)
      BY <2>6, <2>7, <2>8, <3>1, <3>2 DEF Follows
    <3>7. Ordered(asks \o (out \o e)) BY <2>8, <3>2, <3>4, <3>6, OrderedSends
    <3>8. QED BY <3>1, <3>2, <3>5, <3>7 DEF e
  <2>10. toPage' = IF linked THEN toPage \o s ELSE toPage BY <2>2, <2>5
  <2> HIDE DEF s
  <2>11. \A x \in Range(s) : x \in Range(asks) \/ x \in Range(out) \/ x = Release BY <2>9
  <2>12. \A x \in Range(s) : x.for \in {"counts", "unhook", "release"} /\ (x.for = "counts" => ~ctx.counting)
                             /\ (x.for = "unhook" => x.clock \in Clocks)
    <3>1. Range(left) \subseteq Clocks BY <2>1, RangeHas
    <3>2. QED BY <2>6, <2>7, <2>8, <2>11, <3>1
  <2>13. \/ ~linked /\ toPage' = toPage /\ Line' = Line
         \/ /\ linked /\ toPage' \in Seq(Requests) /\ Ordered(Line')
            /\ Range(toPage') = Range(toPage) \cup Range(s) /\ Range(Line') = Range(Line) \cup Range(s)
    <3>1. CASE ~linked BY <1>1, <2>10, <3>1 DEF Line
    <3>2. CASE linked
      <4>1. toPage' = toPage \o s /\ Line' = LineOf(fromPage, toPage \o s)
        BY <1>1, <2>10, <3>2 DEF Line
      <4>2. fromPage \in Seq(Replies) /\ toPage \in Seq(Requests) /\ s \in Seq(Requests)
        BY <1>2, <2>9
      <4>3. /\ toPage \o s \in Seq(Requests) /\ Range(toPage \o s) = Range(toPage) \cup Range(s)
            /\ LineOf(fromPage, toPage \o s) = LineOf(fromPage, toPage) \o s
            /\ Range(LineOf(fromPage, toPage \o s)) = Range(LineOf(fromPage, toPage)) \cup Range(s)
        BY <4>2, LineGrows
      <4>4. Ordered(Line \o s) BY <2>9, <2>12, QuietSends DEF ContextInv
      <4>5. QED BY <3>2, <4>1, <4>3, <4>4 DEF Line
    <3>3. QED BY <3>1, <3>2
  <2>14. /\ toPage' \in Seq(Requests) /\ Range(toPage) \subseteq Range(toPage')
         /\ \A q \in Range(toPage') : q \in Range(toPage) \/ (linked /\ q \in Range(s))
         /\ \A q \in Range(Line') : q \in Range(Line) \/ (linked /\ q \in Range(s))
    BY <1>2, <2>13
  <2>15. ~Driven' BY <2>4 DEF Driven
  <2>16. ContextShape' BY <1>1, <2>4, <2>14 DEF ContextInv, ContextShape
  <2>17. LineInv'
    <3>1. ASSUME NEW q \in Range(Line') PROVE Fits(q)'
      <4>1. CASE q \in Range(Line) BY <1>1, <2>3, <2>4, <4>1 DEF ContextInv, LineInv, Fits
      <4>2. CASE linked /\ q \in Range(s) BY <2>3, <2>4, <2>12, <4>2 DEF Fits
      <4>3. QED BY <2>14, <4>1, <4>2
    <3>2. Ordered(Line)' BY <2>13 DEF ContextInv, LineInv, Ordered
    <3>3. QED BY <3>1, <3>2 DEF LineInv
  <2>18. ListedInv' /\ CurrentInv' BY <1>1, <1>5, <2>4 DEF ContextInv, ListedInv, CurrentInv
  <2>19. HooksInv'
    <3>1. engine.hooks \in Seq(Clocks) BY DEF ContextInv, ContextShape, Engines
    <3>2. ASSUME engine.alive, NEW h \in Range(engine.hooks) PROVE Known(h)'
      <4>1. linked BY <3>2, NoneSent DEF ContextInv, HooksInv
      <4>2. h \in Clocks /\ Known(h) BY <1>1, <3>1, <3>2, RangeHas DEF ContextInv, HooksInv
      <4>3. CASE h = ctx.current \/ h \in Range(ctx.unremoved)
        <5>1. \E x \in Range(s) : x.for = "unhook" /\ x.clock = h BY <2>1, <2>7, <2>9, <4>2, <4>3
        <5>2. QED BY <2>13, <4>1, <5>1 DEF Known
      <4>4. CASE ~(h = ctx.current \/ h \in Range(ctx.unremoved))
        BY <1>1, <2>14, <4>2, <4>4 DEF Known
      <4>5. QED BY <4>3, <4>4
    <3>3. \A q \in Range(toPage') : q.for = "hook" => q \in Range(toPage) BY <2>12, <2>14
    <3>4. QED BY <1>1, <2>4, <2>15, <3>2, <3>3 DEF ContextInv, HooksInv
  <2>20. DocumentInv'
    <3>1. \A q \in Range(toPage') : q.for = "move" => q \in Range(toPage) BY <2>12, <2>14
    <3>2. QED BY <1>1, <2>4, <2>15, <3>1 DEF ContextInv, DocumentInv
  <2>21. FollowedInv' BY <2>15 DEF FollowedInv
  <2>22. QED BY <1>3, <2>16, <2>17, <2>18, <2>19, <2>20, <2>21 DEF ContextInv
<1>6. QED BY <1>4, <1>5

-----------------------------------------------------------------------------
\* The first answer is taken off the line.
LEMMA HandlePass ==
  ASSUME ContextInv, Handles
  PROVE  /\ linked /\ phase # "over" /\ fromPage # <<>> /\ ctx.on /\ UNCHANGED <<newest, phase, linked, engine, freed>>
         /\ Head(fromPage) \in Replies /\ fromPage' = Tail(fromPage) /\ fromPage' \in Seq(Replies)
         /\ Range(fromPage) = {Head(fromPage)} \cup Range(fromPage')
         /\ Tail(Line) \in Seq(Asks) /\ Tail(Line) = LineOf(fromPage', toPage)
         /\ Ordered(Tail(Line)) /\ Range(Line) = {Asked(Head(fromPage))} \cup Range(Tail(Line))
         /\ Fits(Asked(Head(fromPage)))
         /\ \A q \in Range(Tail(Line)) : Follows(Asked(Head(fromPage)), q) /\ Fits(q)
         /\ \A i \in 1..Len(fromPage') : fromPage'[i].for = "gone" => i = Len(fromPage')
         /\ Head(fromPage).for = "gone" => ~engine.alive /\ fromPage' = <<>>
<1>1. /\ linked /\ phase # "over" /\ fromPage # <<>> /\ fromPage' = Tail(fromPage)
      /\ UNCHANGED <<newest, phase, linked, engine, freed>>
  BY DEF Handles, Open
<1>2. fromPage \in Seq(Replies) /\ toPage \in Seq(Requests) BY DEF ContextInv, ContextShape
<1>3. /\ Head(fromPage) \in Replies /\ Tail(fromPage) \in Seq(Replies) /\ Len(Tail(fromPage)) = Len(fromPage) - 1
      /\ Len(fromPage) >= 1 /\ Head(fromPage) = fromPage[1]
      /\ \A i \in 1..Len(Tail(fromPage)) : Tail(fromPage)[i] = fromPage[i + 1]
      /\ Range(fromPage) = {Head(fromPage)} \cup Range(Tail(fromPage))
  BY <1>1, <1>2, RangeHead
<1>4. Line # <<>> /\ Head(Line) = Asked(Head(fromPage)) /\ LineOf(Tail(fromPage), toPage) = Tail(Line)
  BY <1>1, <1>2, LineHandled DEF Line
<1>5. Line \in Seq(Asks) /\ Ordered(Line) /\ \A q \in Range(Line) : Fits(q)
  BY LineSays DEF ContextInv, LineInv
<1>6. Ordered(Tail(Line)) /\ \A q \in Range(Tail(Line)) : Follows(Head(Line), q)
  BY <1>4, <1>5, OrderedTail
<1>7. Tail(Line) \in Seq(Asks) /\ Range(Line) = {Head(Line)} \cup Range(Tail(Line))
  BY <1>4, <1>5, RangeHead
<1>8. ctx.on BY <1>1 DEF ContextInv, ListedInv
<1>9. Len(fromPage) \in Nat BY <1>2, LenProperties
<1>10. \A i \in 1..Len(fromPage') : fromPage'[i].for = "gone" => i = Len(fromPage')
  <2>1. ASSUME NEW i \in 1..Len(fromPage'), fromPage'[i].for = "gone" PROVE i = Len(fromPage')
    <3>1. i \in 1..Len(Tail(fromPage)) /\ i + 1 \in 1..Len(fromPage) /\ fromPage[i + 1].for = "gone"
      BY <1>1, <1>3, <1>9, <2>1
    <3>2. i + 1 = Len(fromPage) BY <3>1 DEF ContextInv, ListedInv
    <3>3. Len(fromPage') = Len(fromPage) - 1 BY <1>1, <1>3
    <3>4. QED BY <1>9, <3>2, <3>3
  <2>2. QED BY <2>1
<1>11. ASSUME Head(fromPage).for = "gone" PROVE ~engine.alive /\ fromPage' = <<>>
  <2>1. ~engine.alive BY <1>3, <1>11 DEF ContextInv, ListedInv
  <2>2. 1 \in 1..Len(fromPage) BY <1>3, <1>9
  <2>3. 1 = Len(fromPage) BY <1>3, <1>11, <2>2 DEF ContextInv, ListedInv
  <2>4. fromPage' = <<>> BY <1>1, <1>3, <2>3, EmptySeq
  <2>5. QED BY <2>1, <2>4
<1>12. QED BY <1>1, <1>3, <1>4, <1>5, <1>6, <1>7, <1>8, <1>10, <1>11

\* The event of a target that went takes its requests along.
LEMMA ForgetKeeps ==
  ASSUME ContextInv, Handles, Head(fromPage).for = "gone"
  PROVE  ContextInv'
<1>1. /\ ctx' = Nobody(ctx.session) /\ toPage' = <<>> /\ missed' = missed BY DEF Handles
<1>2. /\ linked /\ phase # "over" /\ UNCHANGED <<newest, phase, linked, engine, freed>> /\ ~engine.alive /\ fromPage' = <<>>
  BY HandlePass
<1>3. /\ ctx' = [on |-> FALSE, session |-> ctx.session, page |-> FALSE, current |-> NoHook, unremoved |-> <<>>,
                 counting |-> FALSE, released |-> FALSE, answer |-> FALSE, awaiting |-> FALSE]
  BY <1>1 DEF Nobody
<1>4. ctx \in Contexts BY DEF ContextInv, ContextShape
<1>5. ctx' \in Contexts /\ ~ctx'.on /\ ~ctx'.released /\ ~ctx'.awaiting
  <2>1. <<>> \in Seq(Clocks) /\ NoHook \in Scripts BY EmptySeq DEF Scripts
  <2>2. QED BY <1>3, <1>4, <2>1 DEF Contexts
<1>6. /\ Range(Line') = {} /\ Len(Line') = 0 /\ Range(fromPage') = {} /\ Range(toPage') = {} /\ Len(fromPage') = 0
      /\ toPage' \in Seq(Requests) /\ fromPage' \in Seq(Replies)
  <2>1. Len(Line') = Len(fromPage') + Len(toPage') /\ Range(Line') = {Asked(a) : a \in Range(fromPage')} \cup Range(toPage')
    BY <1>1, <1>2, NoneSent, LineIs DEF Line
  <2>2. QED BY <1>1, <1>2, <2>1, NoneSent
<1>7. ~Driven' /\ ~engine'.alive BY <1>2, <1>5 DEF Driven
<1>8. ContextShape' BY <1>1, <1>2, <1>5, <1>6 DEF ContextInv, ContextShape
<1>9. LineInv' BY <1>6 DEF LineInv, Ordered
<1>10. ListedInv' /\ CurrentInv' BY <1>1, <1>2, <1>5, <1>6, <1>7 DEF ListedInv, CurrentInv
<1>11. HooksInv' /\ DocumentInv' /\ FollowedInv'
  BY <1>2, <1>7 DEF ContextInv, HooksInv, DocumentInv, FollowedInv
<1>12. FreedInv' BY <1>2, <1>5 DEF ContextInv, FreedInv
<1>13. QED BY <1>8, <1>9, <1>10, <1>11, <1>12 DEF ContextInv

\* An answer that asks for nothing more.
LEMMA NoteKeeps ==
  ASSUME ContextInv, Handles, Head(fromPage).for \in {"counts", "unhook", "move", "release"}
  PROVE  ContextInv'
<1> DEFINE a == Head(fromPage)
<1>1. /\ linked /\ phase # "over" /\ ctx.on /\ UNCHANGED <<newest, phase, linked, engine, freed>>
      /\ a \in Replies /\ fromPage' \in Seq(Replies) /\ Range(fromPage) = {a} \cup Range(fromPage')
      /\ Tail(Line) = LineOf(fromPage', toPage) /\ Ordered(Tail(Line)) /\ Range(Line) = {Asked(a)} \cup Range(Tail(Line))
      /\ Fits(Asked(a))
      /\ \A q \in Range(Tail(Line)) : Follows(Asked(a), q) /\ Fits(q)
      /\ \A i \in 1..Len(fromPage') : fromPage'[i].for = "gone" => i = Len(fromPage')
  BY HandlePass
<1>2. ctx \in Contexts /\ missed \subseteq 1..MaxSessions BY DEF ContextInv, ContextShape
<1>3. Asked(a).for = a.for /\ Asked(a).clock = a.clock BY DEF Asked, Ask
<1>4. /\ toPage' = toPage
      /\ a.for = "counts" => ctx' = [ctx EXCEPT !.counting = FALSE, !.awaiting = @ /\ ~(a.says = "ok")]
      /\ a.for = "unhook" => ctx' = IF a.says = "ok" THEN ctx ELSE [ctx EXCEPT !.unremoved = Append(@, a.clock)]
      /\ a.for = "move" => ctx' = ctx
      /\ a.for = "release" => ctx' = [ctx EXCEPT !.answer = a.says = "ok" \/ ctx.awaiting]
  BY DEF Handles
<1>5. missed' = IF a.for = "move" /\ a.says # "ok" /\ ~ctx.awaiting THEN missed \cup {ctx.session} ELSE missed
  BY DEF Handles
<1> HIDE DEF a
<1>6. /\ ctx' \in Contexts /\ ctx'.on = ctx.on /\ ctx'.session = ctx.session /\ ctx'.page = ctx.page
      /\ ctx'.current = ctx.current /\ ctx'.released = ctx.released /\ (ctx'.awaiting => ctx.awaiting)
      /\ a.for # "counts" => ctx'.counting = ctx.counting
      /\ a.for = "unhook" /\ a.says # "ok" => Range(ctx'.unremoved) = Range(ctx.unremoved) \cup {a.clock}
      /\ ~(a.for = "unhook" /\ a.says # "ok") => ctx'.unremoved = ctx.unremoved
  <2>1. CASE a.for = "counts"
    <3>1. ctx' = [ctx EXCEPT !.counting = FALSE, !.awaiting = ctx.awaiting /\ ~(a.says = "ok")]
      BY <1>4, <2>1
    <3>2. QED BY <1>2, <2>1, <3>1 DEF Contexts
  <2>2. CASE a.for = "unhook" /\ a.says # "ok"
    <3>1. a.clock \in Clocks BY <1>1, <1>3, <2>2 DEF Fits
    <3>2. /\ Append(ctx.unremoved, a.clock) \in Seq(Clocks)
          /\ Range(Append(ctx.unremoved, a.clock)) = Range(ctx.unremoved) \cup {a.clock}
      BY <1>2, <3>1, RangePut DEF Contexts
    <3>3. QED BY <1>2, <1>4, <2>2, <3>2 DEF Contexts
  <2>3. CASE (a.for = "unhook" /\ a.says = "ok") \/ a.for = "move" BY <1>2, <1>4, <2>3 DEF Contexts
  <2>4. CASE a.for = "release"
    <3>1. ctx' = [ctx EXCEPT !.answer = (a.says = "ok" \/ ctx.awaiting)] BY <1>4, <2>4
    <3>2. QED BY <1>2, <2>4, <3>1 DEF Contexts
  <2>5. QED BY <2>1, <2>2, <2>3, <2>4 DEF a
<1>7. Line' = Tail(Line) BY <1>1, <1>4 DEF Line
<1>8. Driven' = Driven BY <1>1, <1>6 DEF Driven
<1>9. ContextShape'
  <2>1. ctx.session \in 1..MaxSessions
    BY <1>1, <1>2, ContextNumbers DEF ContextInv, ListedInv, Contexts
  <2>2. missed' \subseteq 1..MaxSessions BY <1>2, <1>5, <2>1
  <2>3. QED BY <1>1, <1>4, <1>6, <2>2 DEF ContextInv, ContextShape
<1>10. LineInv'
  <2>1. ASSUME NEW q \in Range(Line') PROVE Fits(q)'
    <3>1. Fits(q) /\ Follows(Asked(a), q) BY <1>1, <1>7
    <3>2. q.for = "counts" => a.for # "counts" BY <1>3, <3>1 DEF Follows
    <3>3. QED BY <1>1, <1>6, <3>1, <3>2 DEF Fits
  <2>2. QED BY <1>1, <1>7, <2>1 DEF LineInv
<1>11. ListedInv' BY <1>1, <1>6 DEF ContextInv, ListedInv
<1>12. CurrentInv'
  <2>1. a.for = "unhook" /\ ~ctx.released => a.clock < ctx.current BY <1>1, <1>3 DEF Fits
  <2>2. QED BY <1>1, <1>6, <2>1 DEF ContextInv, CurrentInv
<1>13. HooksInv'
  <2>1. \A h : Known(h) => Known(h)' BY <1>1, <1>4, <1>6 DEF Known, a
  <2>2. \A b \in Range(fromPage') : b \in Range(fromPage) BY <1>1
  <2>3. QED BY <1>1, <1>4, <1>6, <1>8, <2>1, <2>2 DEF ContextInv, HooksInv
<1>14. DocumentInv' BY <1>1, <1>4, <1>6, <1>8 DEF ContextInv, DocumentInv
<1>15. FollowedInv'
  <2>1. SUFFICES ASSUME Driven, ~Said' PROVE Followed' BY <1>8 DEF FollowedInv
  <2>2. ~Said /\ (a.for = "move" /\ a.says # "ok" => ctx.page)
    BY <1>5, <1>6, <2>1 DEF Said, ContextInv, ListedInv
  <2>3. Followed BY <2>1, <2>2 DEF ContextInv, FollowedInv
  <2>4. OlderUnderWay' => OlderUnderWay BY <1>1, <1>4, <1>7 DEF OlderUnderWay
  <2>5. NewestUnderWay => NewestUnderWay' BY <1>1, <1>3, <1>4, <1>7 DEF NewestUnderWay, a
  <2>6. Refused("hook") => Refused("hook")' BY <1>1 DEF Refused, a
  <2>7. ~ctx.page /\ Refused("move") => Refused("move")' BY <1>1, <2>2 DEF Refused
  <2>8. QED BY <1>1, <1>4, <1>6, <2>3, <2>4, <2>5, <2>6, <2>7 DEF Followed
<1>16. FreedInv' BY <1>1, <1>6, <1>7 DEF ContextInv, FreedInv
<1>17. QED BY <1>9, <1>10, <1>11, <1>12, <1>13, <1>14, <1>15, <1>16 DEF ContextInv

\* A hook that is back: the hooks before it go, and the live document gets its move.
Renews(a, ok, u, s) ==
    /\ ctx' = [ctx EXCEPT !.unremoved = IF ok THEN <<>> ELSE @,
                          !.current = IF ok /\ ~ctx.released THEN a.clock ELSE @]
    /\ missed' = IF ok THEN missed ELSE missed \cup {ctx.session}
    /\ a.clock \in Clocks
    /\ toPage' = toPage \o s /\ Ordered(s)
    /\ \A x \in Range(s) : \/ x.for = "unhook" /\ x.clock \in Range(u)
                           \/ x.for = "move" /\ x.clock = a.clock /\ ~ctx.released
    /\ \A h \in Range(u) : \E x \in Range(s) : x.for = "unhook" /\ x.clock = h
    /\ ~ctx.released => \E x \in Range(s) : x.for = "move" /\ x.clock = a.clock
    /\ ok => Range(u) = Range(ctx.unremoved) \cup {IF ctx.released THEN a.clock ELSE ctx.current}
    /\ ~ok => Range(u) = {}

LEMMA HookBack ==
  ASSUME ContextInv, Handles, Head(fromPage).for = "hook"
  PROVE  \E u \in Seq(Clocks), s \in Seq(Requests) : Renews(Head(fromPage), Head(fromPage).says = "ok", u, s)
<1> USE DEF Renews
<1> DEFINE a == Head(fromPage)
           ok == a.says = "ok"
           old == IF ctx.released THEN a.clock ELSE ctx.current
           c == IF ok THEN [ctx EXCEPT !.unremoved = Append(@, old),
                                       !.current = IF ctx.released THEN @ ELSE a.clock]
                      ELSE ctx
           u == IF ok THEN Append(ctx.unremoved, old) ELSE <<>>
           out == Unhooks(u)
           after == MoveAfter(a.clock)
<1>1. linked /\ ctx.on /\ a \in Replies /\ Fits(Asked(a)) /\ Asked(a).for = a.for /\ Asked(a).clock = a.clock
  BY HandlePass DEF Asked, Ask
<1>2. ctx \in Contexts /\ ctx.unremoved \in Seq(Clocks) /\ toPage \in Seq(Requests)
  BY DEF ContextInv, ContextShape, Contexts
<1>3. a.clock \in Clocks /\ ctx.page BY <1>1 DEF Fits
<1>4. old \in Clocks
  <2>1. ~ctx.released => ctx.current \in Clocks
    BY <1>1, <1>2, <1>3 DEF ContextInv, CurrentInv, Contexts, Scripts
  <2>2. QED BY <1>3, <2>1
<1>5. /\ missed' = IF ok THEN missed ELSE missed \cup {ctx.session}
      /\ toPage' = toPage \o ((IF ok THEN Unhooks(c.unremoved) ELSE <<>>) \o MoveAfter(a.clock))
      /\ ctx' = IF ok THEN Unhooked(c) ELSE c
  BY <1>1 DEF Handles, Sends
<1>6. ctx' = [ctx EXCEPT !.unremoved = IF ok THEN <<>> ELSE @,
                         !.current = IF ok /\ ~ctx.released THEN a.clock ELSE @]
  <2>1. CASE ok
    <3>1. ctx' = [c EXCEPT !.unremoved = <<>>] BY <1>1, <1>5, <2>1 DEF Unhooked
    <3>2. QED BY <1>2, <2>1, <3>1 DEF Contexts
  <2>2. CASE ~ok
    <3>1. ctx' = ctx BY <1>5, <2>2
    <3>2. QED BY <1>2, <2>2, <3>1 DEF Contexts
  <2>3. QED BY <2>1, <2>2
<1>7. (IF ok THEN Unhooks(c.unremoved) ELSE <<>>) = out
  <2>1. CASE ok
    <3>1. c.unremoved = u BY <1>2, <2>1 DEF Contexts
    <3>2. QED BY <2>1, <3>1
  <2>2. CASE ~ok
    <3>1. Len(u) = 0 /\ u = <<>> BY <2>2, NoneSent
    <3>2. Unhooks(u) \in Seq(Requests) /\ \A x \in Range(Unhooks(u)) : x.clock \in Range(u)
      BY <3>1, EmptySeq, UnhooksAre
    <3>3. Range(Unhooks(u)) = {} BY <3>1, <3>2, NoneSent
    <3>4. Unhooks(u) = <<>> BY <3>2, <3>3, RangeHas
    <3>5. QED BY <2>2, <3>4
  <2>3. QED BY <2>1, <2>2
<1>8. /\ u \in Seq(Clocks)
      /\ ok => Range(u) = Range(ctx.unremoved) \cup {old}
      /\ ~ok => Range(u) = {}
  <2>1. CASE ok BY <1>2, <1>4, <2>1, RangePut
  <2>2. CASE ~ok BY <2>2, NoneSent, EmptySeq
  <2>3. QED BY <2>1, <2>2
<1> HIDE DEF c, u
<1>9. /\ out \in Seq(Requests) /\ Ordered(out)
      /\ \A x \in Range(out) : x.for = "unhook" /\ x.clock \in Range(u)
      /\ \A h \in Range(u) : \E x \in Range(out) : x.for = "unhook" /\ x.clock = h
  BY <1>8, UnhooksAre
<1>10. /\ after \in Seq(Requests) /\ Ordered(after)
       /\ \A x \in Range(after) : x.for = "move" /\ x.clock = a.clock /\ ~ctx.released
       /\ ~ctx.released => \E x \in Range(after) : x.for = "move" /\ x.clock = a.clock
  <2>1. CASE ctx.released
    <3>1. after = <<>> BY <2>1 DEF MoveAfter
    <3>2. QED BY <2>1, <3>1, NoneSent
  <2>2. CASE ~ctx.released
    <3> DEFINE m == Ask("move", a.clock)
    <3>1. after = <<m>> BY <2>2 DEF MoveAfter
    <3>2. m \in Requests /\ m.for = "move" /\ m.clock = a.clock
      BY <1>3 DEF Ask, Requests, AskKinds, Scripts
    <3> HIDE DEF m
    <3>3. QED BY <2>2, <3>1, <3>2, OneSent
  <2>3. QED BY <2>1, <2>2
<1>11. toPage' = toPage \o (out \o after) BY <1>5, <1>7
<1> HIDE DEF out, after
<1>12. /\ out \o after \in Seq(Requests) /\ Ordered(out \o after)
       /\ Range(out \o after) = Range(out) \cup Range(after)
  <2>1. out \o after \in Seq(Requests) /\ Range(out \o after) = Range(out) \cup Range(after)
    BY <1>9, <1>10, ConcatProperties, RangeConcatenation
  <2>2. \A r \in Range(out), q \in Range(after) : Follows(r, q) BY <1>9, <1>10 DEF Follows
  <2>3. QED BY <1>9, <1>10, <2>1, <2>2, OrderedSends
<1> DEFINE s == out \o after
<1>13. \A x \in Range(s) : \/ x.for = "unhook" /\ x.clock \in Range(u)
                           \/ x.for = "move" /\ x.clock = a.clock /\ ~ctx.released
  BY <1>9, <1>10, <1>12
<1>14. /\ \A h \in Range(u) : \E x \in Range(s) : x.for = "unhook" /\ x.clock = h
       /\ ~ctx.released => \E x \in Range(s) : x.for = "move" /\ x.clock = a.clock
  BY <1>9, <1>10, <1>12
<1>15. s \in Seq(Requests) /\ Ordered(s) /\ toPage' = toPage \o s BY <1>11, <1>12
<1> HIDE DEF s
<1> USE <1>8, <1>15
<1> WITNESS u \in Seq(Clocks), s \in Seq(Requests)
<1>16. QED BY <1>3, <1>5, <1>6, <1>8, <1>13, <1>14, <1>15

LEMMA HookKeeps ==
  ASSUME ContextInv, Handles, Head(fromPage).for = "hook"
  PROVE  ContextInv'
<1> DEFINE a == Head(fromPage)
           ok == a.says = "ok"
<1>1. /\ linked /\ phase # "over" /\ ctx.on /\ UNCHANGED <<newest, phase, linked, engine, freed>>
      /\ a \in Replies /\ fromPage' \in Seq(Replies) /\ Range(fromPage) = {a} \cup Range(fromPage')
      /\ Tail(Line) = LineOf(fromPage', toPage) /\ Ordered(Tail(Line)) /\ Range(Line) = {Asked(a)} \cup Range(Tail(Line))
      /\ Fits(Asked(a)) /\ Tail(Line) \in Seq(Asks)
      /\ \A q \in Range(Tail(Line)) : Follows(Asked(a), q) /\ Fits(q)
      /\ \A i \in 1..Len(fromPage') : fromPage'[i].for = "gone" => i = Len(fromPage')
  BY HandlePass
<1>2. PICK u \in Seq(Clocks), s \in Seq(Requests) : Renews(a, ok, u, s) BY HookBack
<1> USE DEF Renews
<1>3. /\ ctx \in Contexts /\ missed \subseteq 1..MaxSessions /\ newest \in Int /\ toPage \in Seq(Requests)
      /\ ctx.current \in Int /\ ctx.unremoved \in Seq(Clocks)
  BY ContextNumbers DEF ContextInv, ContextShape, Contexts, Scripts
<1>4. /\ Asked(a).for = "hook" /\ Asked(a).clock = a.clock /\ Asked(a) \in Range(Line) /\ a \in Range(fromPage)
  BY <1>1 DEF Asked, Ask
<1>5. /\ ctx' \in Contexts /\ ctx'.on /\ ctx'.session = ctx.session /\ ctx'.page = ctx.page
      /\ ctx'.counting = ctx.counting /\ ctx'.released = ctx.released /\ ctx'.awaiting = ctx.awaiting
      /\ ctx'.current = (IF ok /\ ~ctx.released THEN a.clock ELSE ctx.current)
      /\ ctx'.unremoved = (IF ok THEN <<>> ELSE ctx.unremoved)
  <2>1. <<>> \in Seq(Clocks) BY EmptySeq
  <2>2. (IF ok THEN <<>> ELSE ctx.unremoved) \in Seq(Clocks) BY <1>3, <2>1
  <2>3. (IF ok /\ ~ctx.released THEN a.clock ELSE ctx.current) \in Scripts
    BY <1>2, <1>3 DEF Contexts, Scripts
  <2>4. QED BY <1>1, <1>2, <1>3, <2>2, <2>3 DEF Contexts
<1>6. /\ ctx.page /\ a.clock <= newest /\ a.clock \in Int /\ (~ctx.released => ctx.current < a.clock)
  BY <1>1, <1>2, <1>4, ContextNumbers DEF Fits
<1>7. ok => \A h \in Range(u) : h \in Clocks /\ (~ctx.released => h < a.clock)
  <2>1. Range(u) \subseteq Clocks BY RangeHas
  <2>2. ASSUME ok, ~ctx.released, NEW h \in Range(u) PROVE h < a.clock
    <3>1. h = ctx.current \/ (h \in Range(ctx.unremoved) /\ h < ctx.current)
      BY <1>1, <1>2, <2>2 DEF ContextInv, CurrentInv
    <3>2. h \in Int BY <2>1, ContextNumbers
    <3>3. QED BY <1>3, <1>6, <2>2, <3>1, <3>2
  <2>3. QED BY <2>1, <2>2
<1> HIDE DEF a, ok
<1>8. /\ toPage' \in Seq(Requests) /\ Range(toPage') = Range(toPage) \cup Range(s)
      /\ Line' = Tail(Line) \o s /\ Range(Line') = Range(Tail(Line)) \cup Range(s)
  <2>1. /\ toPage \o s \in Seq(Requests) /\ Range(toPage \o s) = Range(toPage) \cup Range(s)
        /\ LineOf(fromPage', toPage \o s) = LineOf(fromPage', toPage) \o s
        /\ Range(LineOf(fromPage', toPage \o s)) = Range(LineOf(fromPage', toPage)) \cup Range(s)
    BY <1>1, <1>3, LineGrows
  <2>2. QED BY <1>1, <1>2, <2>1 DEF Line
<1>9. Driven' = Driven /\ (Driven => ~ctx.released) BY <1>1, <1>5 DEF Driven
<1>10. \A x \in Range(s) : x.for = "unhook" => ok BY <1>2
<1>11. ContextShape'
  <2>1. ctx.session \in 1..MaxSessions
    BY <1>1, <1>3, ContextNumbers DEF ContextInv, ListedInv, Contexts
  <2>2. missed' \subseteq 1..MaxSessions BY <1>2, <1>3, <2>1
  <2>3. QED BY <1>1, <1>5, <1>8, <2>2 DEF ContextInv, ContextShape
<1>12. LineInv'
  <2>1. ASSUME NEW q \in Range(Tail(Line)) PROVE Fits(q)'
    <3>1. Fits(q) /\ Follows(Asked(a), q) /\ q.for = "hook" => a.clock < q.clock
      BY <1>1, <1>4 DEF Follows
    <3>2. Fits(q) /\ (q.for = "hook" => a.clock < q.clock) BY <1>1, <1>4 DEF Follows
    <3>3. q.for = "unhook" => q.clock \in Int BY <3>2, ContextNumbers DEF Fits
    <3>4. q.for = "unhook" /\ ~ctx.released => q.clock < ctx'.current
      BY <1>3, <1>5, <1>6, <3>2, <3>3 DEF Fits
    <3>5. q.for = "hook" /\ ~ctx.released => ctx'.current < q.clock BY <1>5, <3>2 DEF Fits
    <3>6. QED BY <1>1, <1>5, <3>2, <3>4, <3>5 DEF Fits
  <2>2. ASSUME NEW x \in Range(s) PROVE Fits(x)'
    <3>1. CASE x.for = "unhook" /\ x.clock \in Range(u)
      <4>1. x.clock \in Clocks /\ (~ctx.released => x.clock < ctx'.current)
        BY <1>5, <1>7, <1>10, <3>1
      <4>2. QED BY <1>5, <3>1, <4>1 DEF Fits
    <3>2. CASE x.for = "move" /\ x.clock = a.clock BY <1>1, <1>2, <1>6, <3>2 DEF Fits
    <3>3. QED BY <1>2, <3>1, <3>2
  <2>3. ASSUME NEW q \in Range(Tail(Line)), NEW x \in Range(s) PROVE Follows(q, x)
    <3>1. Fits(q) /\ Follows(Asked(a), q) BY <1>1
    <3>2. CASE x.for = "unhook" BY <3>2 DEF Follows
    <3>3. CASE x.for = "move" /\ x.clock = a.clock /\ ~ctx.released
      BY <1>4, <3>1, <3>3 DEF Follows, Fits
    <3>4. QED BY <1>2, <3>2, <3>3
  <2>4. s \in Seq(Asks) BY LineIs, NoneSent
  <2>5. Ordered(Tail(Line) \o s) BY <1>1, <1>2, <2>3, <2>4, OrderedSends
  <2>6. QED BY <1>8, <2>1, <2>2, <2>5 DEF LineInv
<1>13. ListedInv' BY <1>1, <1>5 DEF ContextInv, ListedInv
<1>14. CurrentInv'
  <2>1. CASE ok /\ ~ctx.released
    <3>1. ctx'.current = a.clock /\ ctx'.unremoved = <<>> /\ a.clock # NoHook
      BY <1>2, <1>5, <2>1, ContextNumbers
    <3>2. QED BY <1>1, <1>5, <1>6, <2>1, <3>1, NoneSent DEF CurrentInv
  <2>2. CASE ok /\ ctx.released BY <1>5, <2>2 DEF ContextInv, CurrentInv
  <2>3. CASE ~ok BY <1>1, <1>5, <2>3 DEF ContextInv, CurrentInv
  <2>4. QED BY <2>1, <2>2, <2>3
<1>15. HooksInv'
  <2>1. engine.hooks \in Seq(Clocks) BY DEF ContextInv, ContextShape, Engines
  <2>2. ASSUME engine.alive, NEW h \in Range(engine.hooks) PROVE Known(h)'
    <3>1. Known(h) /\ h \in Clocks BY <1>1, <2>1, <2>2, RangeHas DEF ContextInv, HooksInv
    <3>2. CASE \E b \in Range(fromPage) : b.for = "unhook" /\ b.says # "ok" /\ b.clock = h
      BY <1>1, <1>4, <3>2 DEF Known, Asked, Ask
    <3>3. CASE \E r \in Range(toPage) : r.for = "unhook" /\ r.clock = h BY <1>8, <3>3 DEF Known
    <3>4. CASE \E b \in Range(fromPage') : b.for = "hook" /\ b.says = "ok" /\ b.clock = h
      BY <3>4 DEF Known
    <3>5. CASE ~ok /\ (h = ctx.current \/ h \in Range(ctx.unremoved)) BY <1>5, <3>5 DEF Known
    <3>6. CASE ok /\ h \in Range(u)
      <4>1. \E x \in Range(toPage') : x.for = "unhook" /\ x.clock = h BY <1>2, <1>8, <3>6
      <4>2. QED BY <4>1 DEF Known
    <3>7. CASE ok /\ h = ctx.current /\ ctx.released BY <1>5, <3>7 DEF Known
    <3>8. CASE ok /\ h = a.clock /\ ~ctx.released BY <1>5, <3>8 DEF Known
    <3>9. Known(h) => \/ h = ctx.current \/ h \in Range(ctx.unremoved) \/ (ok /\ h = a.clock)
                      \/ \E b \in Range(fromPage') : b.for = "hook" /\ b.says = "ok" /\ b.clock = h
                      \/ \E b \in Range(fromPage) : b.for = "unhook" /\ b.says # "ok" /\ b.clock = h
                      \/ \E r \in Range(toPage) : r.for = "unhook" /\ r.clock = h
      BY <1>1 DEF Known, ok
    <3>10. ok => (h \in Range(u) <=> h \in Range(ctx.unremoved) \/ h = IF ctx.released THEN a.clock ELSE ctx.current)
      BY <1>2
    <3>11. QED BY <3>1, <3>2, <3>3, <3>4, <3>5, <3>6, <3>7, <3>8, <3>9, <3>10
  <2>3. \A q \in Range(toPage') : q.for = "hook" => q \in Range(toPage) BY <1>2, <1>8
  <2>4. Driven => (ok => a.clock \in Range(engine.hooks))
    BY <1>1, <1>4 DEF ContextInv, HooksInv, a, ok
  <2>5. Driven' /\ ctx'.page => ctx'.current \in Range(engine.hooks)
    BY <1>1, <1>5, <1>9, <2>4 DEF ContextInv, HooksInv
  <2>6. \A b \in Range(fromPage') : b \in Range(fromPage) BY <1>1
  <2>7. QED BY <1>1, <1>5, <1>9, <2>2, <2>3, <2>5, <2>6 DEF ContextInv, HooksInv
<1>16. DocumentInv'
  <2>1. ctx.released => \A q \in Range(toPage') : q.for = "move" => q \in Range(toPage)
    BY <1>2, <1>8
  <2>2. QED BY <1>1, <1>5, <1>9, <2>1 DEF ContextInv, DocumentInv
<1>17. FollowedInv'
  <2>1. SUFFICES ASSUME Driven, ~Said' PROVE Followed' BY <1>9 DEF FollowedInv
  <2>2. ok /\ ~Said /\ ~ctx.released BY <1>2, <1>5, <1>9, <2>1 DEF Said
  <2>3. Followed BY <2>1, <2>2 DEF ContextInv, FollowedInv
  <2>4. NewestUnderWay'
    <3>1. CASE a.clock = newest BY <1>1, <1>2, <1>8, <2>2, <3>1 DEF NewestUnderWay
    <3>2. CASE a.clock # newest
      <4>1. OlderUnderWay BY <1>3, <1>4, <1>6, <3>2 DEF OlderUnderWay
      <4>2. NewestUnderWay BY <2>3, <4>1 DEF Followed
      <4>3. QED BY <1>1, <1>4, <1>8, <3>2, <4>2 DEF NewestUnderWay
    <3>3. QED BY <3>1, <3>2
  <2>5. Refused("hook") => Refused("hook")' BY <1>1, <2>2 DEF Refused, ok
  <2>6. QED BY <1>1, <1>5, <1>8, <2>3, <2>4, <2>5, <1>6 DEF Followed
<1>18. FreedInv'
  <2>1. freed # "all" BY <1>1, <1>4 DEF ContextInv, FreedInv
  <2>2. QED BY <1>1, <2>1 DEF ContextInv, FreedInv
<1>19. QED BY <1>11, <1>12, <1>13, <1>14, <1>15, <1>16, <1>17, <1>18 DEF ContextInv

LEMMA HandleKeeps ==
  ASSUME ContextInv, Handles
  PROVE  ContextInv'
<1>1. Head(fromPage).for \in {"gone", "hook", "counts", "unhook", "move", "release"} BY DEF Handles
<1>2. QED BY <1>1, ForgetKeeps, NoteKeeps, HookKeeps

-----------------------------------------------------------------------------
LEMMA ContextStarts == CdpInit => ContextInv
<1> SUFFICES ASSUME CdpInit PROVE ContextInv OBVIOUS
<1>1. /\ newest = 0 /\ phase = "running" /\ linked = TRUE /\ missed = {} /\ toPage = <<>> /\ fromPage = <<>> /\ freed = "untold"
      /\ ctx = [on |-> FALSE, session |-> 0, page |-> FALSE, current |-> NoHook, unremoved |-> <<>>,
                counting |-> FALSE, released |-> FALSE, answer |-> FALSE, awaiting |-> FALSE]
      /\ engine = [alive |-> FALSE, hooks |-> <<>>, doc |-> [at |-> NoDocument, apart |-> FALSE], loads |-> 0]
  BY DEF CdpInit, Nobody, On
<1>2. /\ <<>> \in Seq(Clocks) /\ 0 \in Clocks /\ 0 \in 0..MaxSessions /\ 0 \in 0..MaxLoads /\ NoHook \in Scripts
      /\ NoDocument \in NoDocument..MaxMoves
  BY ContextNumbers, EmptySeq DEF Scripts
<1>3. ContextShape BY <1>1, <1>2, NoneSent DEF ContextShape, Contexts, Engines, Documents
<1>4. /\ Range(Line) = {} /\ Len(Line) = 0 /\ Range(fromPage) = {} /\ Range(toPage) = {} /\ Len(fromPage) = 0
  <2>1. Len(Line) = Len(fromPage) + Len(toPage) /\ Range(Line) = {Asked(a) : a \in Range(fromPage)} \cup Range(toPage)
    BY <1>1, NoneSent, LineIs DEF Line
  <2>2. QED BY <1>1, <2>1, NoneSent
<1>5. LineInv BY <1>4 DEF LineInv, Ordered
<1>6. ListedInv /\ CurrentInv BY <1>1, <1>4 DEF ListedInv, CurrentInv
<1>7. HooksInv /\ DocumentInv /\ FollowedInv /\ FreedInv
  BY <1>1, <1>4, NoneSent DEF HooksInv, DocumentInv, FollowedInv, FreedInv, Driven, Rising
<1>8. QED BY <1>3, <1>5, <1>6, <1>7 DEF ContextInv

LEMMA ContextSteps ==
  ASSUME ContextInv, [CdpNext]_cdpVars
  PROVE  ContextInv'
<1>1. CASE LoadsDocument BY <1>1, LoadKeeps
<1>2. CASE Takes BY <1>2, TakesKeep
<1>3. CASE GoesAway BY <1>3, GoneKeeps
<1>4. CASE Breaks BY <1>4, BreakKeeps
<1>5. ASSUME NEW page \in BOOLEAN, NEW awaits \in BOOLEAN, Attaches(page, awaits) PROVE ContextInv'
  BY <1>5, AttachKeeps
<1>6. CASE MovesClock BY <1>6, MoveClockKeeps
<1>7. CASE AsksCounts BY <1>7, AskKeeps
<1>8. CASE LetsGo BY <1>8, LetGoKeeps
<1>9. CASE TellsRelease BY <1>9, TellKeeps
<1>10. CASE Settles BY <1>10, SettleKeeps
<1>11. CASE Hands BY <1>11, HandKeeps
<1>12. CASE Handles BY <1>12, HandleKeeps
<1>13. CASE UNCHANGED cdpVars
  <2>1. UNCHANGED <<newest, phase, linked, ctx, missed, engine, toPage, fromPage, freed>>
    BY <1>13 DEF cdpVars
  <2>2. Line' = Line /\ Driven' = Driven /\ Said' = Said /\ NewestUnderWay' = NewestUnderWay /\ OlderUnderWay' = OlderUnderWay
    BY <2>1 DEF Line, Driven, Said, NewestUnderWay, OlderUnderWay
  <2>3. ContextShape' /\ ListedInv' /\ CurrentInv'
    BY <2>1 DEF ContextInv, ContextShape, ListedInv, CurrentInv
  <2>4. LineInv' BY <2>1, <2>2 DEF ContextInv, LineInv, Fits
  <2>5. HooksInv' /\ DocumentInv' BY <2>1, <2>2 DEF ContextInv, HooksInv, DocumentInv, Known
  <2>6. FollowedInv' /\ FreedInv'
    BY <2>1, <2>2 DEF ContextInv, FollowedInv, FreedInv, Followed, Refused
  <2>7. QED BY <2>3, <2>4, <2>5, <2>6 DEF ContextInv
<1>14. QED
  BY <1>1, <1>2, <1>3, <1>4, <1>5, <1>6, <1>7, <1>8, <1>9, <1>10, <1>11, <1>12, <1>13 DEF CdpNext, EngineNext

\* What a set of at most one place counts.
LEMMA OneAtMost ==
  ASSUME NEW S, \A i, j \in S : i = j
  PROVE  (S = {} /\ Cardinality(S) = 0) \/ (S # {} /\ Cardinality(S) = 1)
<1>1. CASE S = {} BY <1>1, FS_EmptySet
<1>2. CASE S # {}
  <2>1. PICK i \in S : TRUE BY <1>2
  <2>2. S = {i} BY <2>1
  <2>3. QED BY <1>2, <2>2, FS_Singleton
<1>3. QED BY <1>1, <1>2

LEMMA CountsOnce == ContextInv => OneCountAtATime
<1> SUFFICES ASSUME ContextInv PROVE OneCountAtATime OBVIOUS
<1> DEFINE A == {i \in DOMAIN toPage : toPage[i].for = "counts"}
           B == {i \in DOMAIN fromPage : fromPage[i].for = "counts"}
<1>1. fromPage \in Seq(Replies) /\ toPage \in Seq(Requests) BY DEF ContextInv, ContextShape
<1>2. /\ DOMAIN fromPage = 1..Len(fromPage) /\ DOMAIN toPage = 1..Len(toPage) /\ Len(fromPage) \in Nat /\ Len(toPage) \in Nat
  BY <1>1, LenProperties
<1>3. /\ Len(Line) = Len(fromPage) + Len(toPage)
      /\ \A i \in 1..Len(fromPage) : Line[i] = Asked(fromPage[i])
      /\ \A i \in 1..Len(toPage) : Line[Len(fromPage) + i] = toPage[i]
  BY <1>1, LineIs DEF Line
<1>4. ASSUME NEW i \in 1..Len(Line), NEW j \in 1..Len(Line), i < j, Line[i].for = "counts", Line[j].for = "counts" PROVE FALSE
  <2>1. Follows(Line[i], Line[j]) BY <1>4 DEF ContextInv, LineInv, Ordered
  <2>2. QED BY <1>4, <2>1 DEF Follows
<1>5. ASSUME NEW i \in A PROVE i \in 1..Len(toPage) /\ Len(fromPage) + i \in 1..Len(Line) /\ Line[Len(fromPage) + i].for = "counts"
  BY <1>2, <1>3, <1>5
<1>6. ASSUME NEW i \in B PROVE i \in 1..Len(fromPage) /\ i \in 1..Len(Line) /\ Line[i].for = "counts"
  <2>1. i \in 1..Len(fromPage) /\ i \in 1..Len(Line) /\ fromPage[i].for = "counts"
    BY <1>2, <1>3, <1>6
  <2>2. Line[i] = Asked(fromPage[i]) BY <1>3, <2>1
  <2> HIDE DEF B
  <2>3. QED BY <2>1, <2>2 DEF Asked, Ask
<1> HIDE DEF A, B
<1>7. \A i, j \in A : i = j
  <2>1. SUFFICES ASSUME NEW i \in A, NEW j \in A, i # j PROVE FALSE OBVIOUS
  <2>2. i \in Int /\ j \in Int /\ Len(fromPage) \in Nat /\ (Len(fromPage) + i < Len(fromPage) + j \/ Len(fromPage) + j < Len(fromPage) + i)
    BY <1>2, <1>5, <2>1
  <2>3. QED BY <1>4, <1>5, <2>2
<1>8. \A i, j \in B : i = j
  <2>1. SUFFICES ASSUME NEW i \in B, NEW j \in B, i # j PROVE FALSE OBVIOUS
  <2>2. i < j \/ j < i BY <1>6, <2>1
  <2>3. QED BY <1>4, <1>6, <2>2
<1>9. A = {} \/ B = {}
  <2>1. SUFFICES ASSUME NEW i \in A, NEW j \in B PROVE FALSE OBVIOUS
  <2>2. j < Len(fromPage) + i BY <1>2, <1>5, <1>6
  <2>3. QED BY <1>4, <1>5, <1>6, <2>2
<1>10. /\ (A = {} /\ Cardinality(A) = 0) \/ (A # {} /\ Cardinality(A) = 1)
       /\ (B = {} /\ Cardinality(B) = 0) \/ (B # {} /\ Cardinality(B) = 1)
  BY <1>7, <1>8, OneAtMost
<1>11. Cardinality(A) + Cardinality(B) <= 1 BY <1>9, <1>10
<1>12. QED BY <1>11 DEF OneCountAtATime, A, B

LEMMA ContextIs == ContextInv => ContextIsSound
<1> SUFFICES ASSUME ContextInv PROVE ContextIsSound OBVIOUS
<1>1. CdpTypeOK
  <2>1. /\ ContextShape /\ ctx \in Contexts /\ engine \in Engines /\ engine.hooks \in Seq(Clocks)
        /\ engine.doc \in Documents
    BY DEF ContextInv, ContextShape, Engines
  <2>2. \A i \in DOMAIN engine.hooks : engine.hooks[i] \in Clocks
    BY <2>1, ElementOfSeq, LenProperties
  <2>3. QED BY <2>1, <2>2 DEF CdpTypeOK, ContextShape, Contexts, Engines, Documents, Scripts
<1>2. OnTheClockOrSaid
  <2>1. SUFFICES ASSUME Driven, Caught, ~Said
                 PROVE  engine.doc.at \in {NoDocument, newest} /\ (ctx.page /\ linked => Last(engine.hooks) = newest)
    BY DEF OnTheClockOrSaid
  <2>2. Followed BY <2>1 DEF ContextInv, FollowedInv
  <2>3. \A q \in Range(Line) : q.for \notin {"hook", "move"}
    BY <2>1, FlightIs DEF ContextInv, Caught
  <2>4. /\ ~NewestUnderWay /\ ~Refused("hook") /\ ~Refused("move")
        /\ ~\E q \in Range(toPage) : q.for = "hook" /\ q.clock = newest
    BY <2>3, LineSays DEF ContextInv, NewestUnderWay, Refused
  <2>5. QED BY <2>2, <2>4 DEF Followed
<1>3. NoHookLeft BY DEF ContextInv, FreedInv, NoHookLeft
<1>4. QED BY <1>1, <1>2, <1>3, CountsOnce DEF ContextIsSound

LEMMA NoneGoesBack ==
  ASSUME ContextInv, [CdpNext]_cdpVars
  PROVE  PutsNothingBack
<1> SUFFICES ASSUME freed = "all", engine.alive, engine.doc.at \notin Clocks PROVE engine'.doc.at \notin Clocks
  BY DEF PutsNothingBack
<1>1. engine \in Engines /\ engine.doc \in Documents /\ ctx.on /\ phase \in {"ending", "over"} /\ engine.hooks = <<>>
  BY DEF ContextInv, ContextShape, Engines, ListedInv, FreedInv
<1>2. Loaded.at = Bare /\ Bare \notin Clocks /\ Released \notin Clocks
  BY <1>1, ContextNumbers DEF Loaded, On
<1>3. CASE LoadsDocument BY <1>1, <1>2, <1>3 DEF LoadsDocument, Engines
<1>4. CASE Takes
  <2>1. engine.alive /\ Open BY <1>4 DEF Takes
  <2>2. PICK r \in Requests, a \in Replies :
           Fits(r) /\ TakenAs(r, a.says, engine') /\ Range(toPage) = Range(toPage') \cup {r}
    BY <1>4, TakesPass DEF PassedBy
  <2>3. \/ engine'.doc = engine.doc \/ engine'.doc = Loaded \/ engine'.doc.at = Released
        \/ r.for = "move" /\ engine.doc.at >= Released
    BY <2>1, <2>2, TakenIs DEF DocumentTaken
  <2>4. ASSUME r.for = "move", engine.doc.at >= Released PROVE FALSE
    <3>1. engine.doc.at = Released BY <1>1, <2>4, ContextNumbers DEF Documents
    <3>2. QED BY <2>2, <2>4, <3>1 DEF ContextInv, DocumentInv
  <2>5. QED BY <1>2, <2>3, <2>4
<1>5. CASE GoesAway \/ Breaks BY <1>1, <1>5 DEF GoesAway, Breaks, Engines
<1>6. ASSUME NEW page \in BOOLEAN, NEW awaits \in BOOLEAN, Attaches(page, awaits) PROVE FALSE
  BY <1>1, <1>6 DEF Attaches
<1>7. CASE MovesClock \/ AsksCounts \/ LetsGo \/ TellsRelease \/ Settles \/ Hands \/ Handles \/ UNCHANGED cdpVars
  BY <1>7 DEF MovesClock, AsksCounts, LetsGo, TellsRelease, Settles, Hands, Handles, cdpVars
<1>8. QED BY <1>3, <1>4, <1>5, <1>6, <1>7 DEF CdpNext, EngineNext

\* One context over late answers, navigations, windows that close and a connection that breaks, for
\* any number of moves, documents and attachings: a page that has answered every move and is not
\* said to have missed one stands on the clock given last, and so will its next document; one count
\* is asked at a time; and a release told as complete left no script of the session's in the page
\* (cli cdp_requests.rs, cdp_attach.rs).
THEOREM ContextHolds == ChromiumSpec => []SoundContext
<1>1. ChromiumInit => ContextInv BY ContextStarts DEF ChromiumInit
<1>2. ContextInv /\ [ChromiumNext]_chromiumVars => ContextInv'
  <2> SUFFICES ASSUME ContextInv, [ChromiumNext]_chromiumVars PROVE ContextInv' OBVIOUS
  <2>1. [CdpNext]_cdpVars BY DEF ChromiumNext, Moves, chromiumVars
  <2>2. QED BY <2>1, ContextSteps
<1>3. ContextInv => SoundContext BY ContextIs DEF SoundContext
<1>4. QED BY <1>1, <1>2, <1>3, PTL DEF ChromiumSpec

\* After a release told as complete no move, hook or answer that is still on its way puts a
\* document of the page back on the session clock (unreleased of cdp_requests.rs).
THEOREM NothingGoesBack == ChromiumSpec => NothingPutBack
<1>1. ChromiumInit => ContextInv BY ContextStarts DEF ChromiumInit
<1>2. ContextInv /\ [ChromiumNext]_chromiumVars => ContextInv' /\ [subject = "context" => PutsNothingBack]_cdpVars
  <2> SUFFICES ASSUME ContextInv, [ChromiumNext]_chromiumVars
               PROVE  ContextInv' /\ [subject = "context" => PutsNothingBack]_cdpVars
    OBVIOUS
  <2>1. [CdpNext]_cdpVars BY DEF ChromiumNext, Moves, chromiumVars
  <2>2. QED BY <2>1, ContextSteps, NoneGoesBack
<1>3. QED BY <1>1, <1>2, PTL DEF ChromiumSpec, NothingPutBack
=============================================================================
