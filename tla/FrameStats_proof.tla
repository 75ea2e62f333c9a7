--------------------------- MODULE FrameStats_proof ---------------------------
(***************************************************************************)
(* Proofs about FrameStats, for every length of a second and of a period,  *)
(* every limit on skipped frames and every clock.                          *)
(*                                                                         *)
(* LineIsTrue compares the counters with functions of all the times        *)
(* counted.  Its invariant (Tells) says of the maximum and the minimum     *)
(* what they are, not how they are chosen, so that one more time needs no  *)
(* induction; only the sum, a loop, does, over the set of the numbers of   *)
(* turns for which it is right.                                            *)
(***************************************************************************)
EXTENDS FrameStats, FiniteSetTheorems, SequenceTheorems, WellFoundedInduction, TLAPS

(***************************************************************************)
(* The marks of a frame are in order, as far as it has come.  On the       *)
(* server a frame in which nothing is rendered keeps the time of VSYNC as  *)
(* its RenderStart.                                                        *)
(***************************************************************************)
Rendered ==
  /\ info.vsync <= info.frameStart /\ info.frameStart <= info.layoutStart
  /\ info.layoutStart <= info.renderStart /\ info.renderStart <= info.renderEnd
NotRendered ==
  /\ info.vsync = info.frameStart /\ info.vsync = info.renderStart
  /\ info.vsync <= info.layoutStart /\ info.layoutStart <= info.renderEnd

MarksInOrder ==
  /\ at # "idle" => 0 < info.vsync /\ info.vsync <= now
  /\ at # "idle" /\ side = "server" => info.frameStart = info.vsync
  /\ at = "started" => side = "app"
  /\ at \in {"started", "drawing", "layout"} => info.renderStart = info.vsync
  /\ at \in {"drawing", "layout", "rendering"} =>
       info.vsync <= info.frameStart /\ info.frameStart <= now
  /\ at \in {"layout", "rendering"} =>
       info.frameStart <= info.layoutStart /\ info.layoutStart <= now
  /\ at = "rendering" => info.layoutStart <= info.renderStart /\ info.renderStart <= now
  /\ at \in {"ending", "timing"} /\ info.skip = "none" =>
       (Rendered \/ NotRendered) /\ info.renderEnd <= now
  /\ at = "timing" => info.vsync <= info.finished /\ info.finished <= now
  /\ at = "timing" /\ info.skip = "none" => info.renderEnd <= info.finished

(* What is counted so far ended before the frame under way began. *)
CountedBefore ==
  /\ stats.lastFinished <= now
  /\ at # "idle" => stats.lastFinished <= info.vsync
  /\ stats.lastFinished = 0 => stats.total = 0 /\ stats.lastLog = 0

IInv == TypeOK /\ MarksInOrder /\ CountedBefore /\ LineIsShort

-----------------------------------------------------------------------------

(* What a skipped frame and a counted one change. *)
LEMMA SkippedFrame ==
  ASSUME NEW s \in Counters, NEW reason
  PROVE  LET r == Skipped(s, reason)
         IN /\ r \in Counters
            /\ r.lastFinished = s.lastFinished /\ r.lastLog = s.lastLog /\ r.interval = s.interval
            /\ r.total = s.total /\ r.valid = s.valid
            /\ r.timeouts = s.timeouts /\ r.max = s.max /\ r.min = s.min
<1>1. CASE s.skips + 1 > SkipLimit
  BY <1>1 DEF Skipped, Counters, Times
<1>2. CASE ~(s.skips + 1 > SkipLimit)
  <2>1. s.skips + 1 \in Nat /\ s.emptySkips \in Nat /\ s.emptySkips + 1 \in Nat
    BY DEF Counters
  <2>2. CASE reason = "NothingToDraw"
    <3>1. Skipped(s, reason) = [s EXCEPT !.skips = s.skips + 1, !.emptySkips = s.emptySkips + 1]
      BY <1>2, <2>2 DEF Skipped
    <3>2. QED
      BY <2>1, <3>1 DEF Counters, Times
  <2>3. CASE reason # "NothingToDraw"
    <3>1. Skipped(s, reason) = [s EXCEPT !.skips = s.skips + 1, !.emptySkips = s.emptySkips]
      BY <1>2, <2>3 DEF Skipped
    <3>2. QED
      BY <2>1, <3>1 DEF Counters, Times
  <2>4. QED
    BY <2>2, <2>3
<1>3. QED
  BY <1>1, <1>2

LEMMA OpenedLine ==
  ASSUME NEW s \in Counters, NEW i \in Infos
  PROVE  LET o == Opened(s, i)
         IN /\ o \in Counters
            /\ o.valid = s.valid
            /\ s.lastFinished # 0 => o = s
            /\ s.lastFinished = 0 => o.total = 0 /\ o.lastLog = i.vsync
            /\ s.lastFinished = 0 => o.timeouts = 0 /\ o.max = 0 /\ o.min = 0
<1>1. CASE s.lastFinished # 0
  BY <1>1 DEF Opened
<1>2. CASE s.lastFinished = 0
  <2>1. Opened(s, i) = [s EXCEPT !.skips = 0, !.emptySkips = 0, !.timeouts = 0, !.total = 0,
                                 !.min = 0, !.max = 0, !.lastLog = i.vsync]
    BY <1>2 DEF Opened
  <2>2. i.vsync \in Nat
    BY DEF Infos, Times
  <2>3. QED
    BY ZenonT(30), <1>2, <2>1, <2>2 DEF Counters, Times
<1>3. QED
  BY <1>1, <1>2

LEMMA CountedFrame ==
  ASSUME NEW s \in Counters, NEW t \in Nat, NEW finished \in Nat
  PROVE  /\ Counted(s, t, finished) \in Counters
         /\ Counted(s, t, finished).valid = s.valid + 1
         /\ Counted(s, t, finished).total = s.total + t
         /\ Counted(s, t, finished).interval = Period
         /\ Counted(s, t, finished).lastFinished = finished
         /\ Counted(s, t, finished).lastLog = s.lastLog
         /\ Counted(s, t, finished).max = IF t > s.max THEN t ELSE s.max
         /\ Counted(s, t, finished).min = IF s.min = 0 \/ t < s.min THEN t ELSE s.min
         /\ Counted(s, t, finished).timeouts =
              IF Period > 0 /\ t > Period THEN s.timeouts + 1 ELSE s.timeouts
<1> DEFINE max == IF t > s.max THEN t ELSE s.max
           min == IF s.min = 0 \/ t < s.min THEN t ELSE s.min
           late == IF Period > 0 /\ t > Period THEN s.timeouts + 1 ELSE s.timeouts
<1>1. max \in Nat /\ min \in Nat /\ late \in Nat
  BY DEF Counters
<1>2. Counted(s, t, finished) =
        [s EXCEPT !.valid = s.valid + 1, !.total = s.total + t, !.max = max, !.min = min,
                  !.interval = Period, !.timeouts = late, !.lastFinished = finished]
  BY DEF Counted
<1>3. /\ s.valid + 1 \in Nat /\ s.total + t \in Nat /\ s.skips \in Nat /\ s.emptySkips \in Nat
      /\ s.lastLog \in Nat
  BY DEF Counters, Times
<1> HIDE DEF max, min, late
<1>4. Counted(s, t, finished) =
        [valid |-> s.valid + 1, timeouts |-> late, skips |-> s.skips, emptySkips |-> s.emptySkips,
         total |-> s.total + t, min |-> min, max |-> max, interval |-> Period,
         lastFinished |-> finished, lastLog |-> s.lastLog]
  BY <1>2 DEF Counters
<1>5. /\ Counted(s, t, finished).max = max /\ Counted(s, t, finished).min = min
      /\ Counted(s, t, finished).timeouts = late
  BY <1>4
<1>6. /\ Counted(s, t, finished) \in Counters
      /\ Counted(s, t, finished).valid = s.valid + 1
      /\ Counted(s, t, finished).total = s.total + t
      /\ Counted(s, t, finished).interval = Period
      /\ Counted(s, t, finished).lastFinished = finished
      /\ Counted(s, t, finished).lastLog = s.lastLog
  BY <1>1, <1>3, <1>4, TimesAssumption DEF Counters, Times
<1>7. QED
  BY <1>5, <1>6 DEF max, min, late

(* The counters keep their types through every call of time. *)
LEMMA StatsTyped ==
  ASSUME NEW i \in Infos, TypeOK
  PROVE  TimeOf(i) \in Counters /\ TimeOfNone \in Counters
<1>1. NoFrames \in Counters /\ stats \in Counters
  BY DEF NoFrames, Counters, Times, TypeOK
<1>2. Skipped(stats, i.skip) \in Counters
  BY <1>1, SkippedFrame
<1>3. Opened(stats, i) \in Counters
  BY <1>1, OpenedLine
<1>4. TotalDuration(i) \in Nat /\ i.finished \in Nat
  BY DEF TotalDuration, Duration, Infos, Times
<1>5. Counted(Opened(stats, i), TotalDuration(i), i.finished) \in Counters
  BY <1>3, <1>4, CountedFrame
<1>6. QED
  BY <1>1, <1>2, <1>5 DEF TimeOf, TimeOfNone, LogPerSecond

(* A frame is counted in a line, or logged with it. *)
LEMMA LineStaysShort ==
  ASSUME IInv, at = "timing", stats' = TimeOf(info), now' = now
  PROVE  LineIsShort' /\ (stats'.lastFinished = 0 => stats'.total = 0 /\ stats'.lastLog = 0)
         /\ stats'.lastFinished <= now'
<1> DEFINE s == IF info.skip # "none" THEN Skipped(stats, info.skip)
                ELSE Counted(Opened(stats, info), TotalDuration(info), info.finished)
<1> USE TimesAssumption DEF Times
<1>1. TimeOf(info) = LogPerSecond(s, TRUE)
  BY DEF TimeOf
<1>2. CASE LineIsDue(s, TRUE)
  BY <1>1, <1>2 DEF LogPerSecond, NoFrames, LineIsShort, IInv, TypeOK
<1>3. CASE ~LineIsDue(s, TRUE)
  <2>1. stats' = s
    BY <1>1, <1>3 DEF LogPerSecond
  <2>2. CASE info.skip # "none"
    <3>1. /\ s.lastFinished = stats.lastFinished /\ s.lastLog = stats.lastLog
          /\ s.total = stats.total /\ s.valid = stats.valid /\ s.interval = stats.interval
      BY <2>2, SkippedFrame DEF IInv, TypeOK
    <3>2. QED
      BY <2>1, <3>1 DEF IInv, LineIsShort, CountedBefore
  <2>3. CASE info.skip = "none"
    <3>0. PICK o \in Counters : o = Opened(stats, info)
      BY OpenedLine DEF IInv, TypeOK
    <3>1. /\ o.lastLog \in Nat /\ o.total \in Nat /\ o.valid = stats.valid
          /\ o.lastLog <= info.vsync /\ o.total <= info.vsync - o.lastLog
      <4>1. stats \in Counters /\ info \in Infos /\ info.vsync \in Nat
        BY DEF IInv, TypeOK, Infos
      <4>2. o.valid = stats.valid /\ o.lastLog \in Nat /\ o.total \in Nat
        BY <3>0, <4>1, OpenedLine DEF Counters
      <4>3. CASE stats.lastFinished = 0
        BY <3>0, <4>1, <4>2, <4>3, OpenedLine
      <4>4. CASE stats.lastFinished # 0
        <5>1. o = stats /\ stats.lastFinished <= info.vsync /\ stats.lastFinished \in Nat
          BY <3>0, <4>1, <4>4, OpenedLine DEF IInv, CountedBefore, Counters
        <5>2. stats.total <= stats.lastFinished - stats.lastLog
          BY DEF IInv, LineIsShort
        <5>3. QED
          BY <4>1, <4>2, <5>1, <5>2
      <4>5. QED
        BY <4>2, <4>3, <4>4
    <3>2. /\ s.valid = o.valid + 1 /\ s.total = o.total + TotalDuration(info)
          /\ s.interval = Period /\ s.lastFinished = info.finished /\ s.lastLog = o.lastLog
      <4>1. TotalDuration(info) \in Nat /\ info.finished \in Nat
        BY DEF TotalDuration, Duration, Infos, IInv, TypeOK
      <4>2. s = Counted(o, TotalDuration(info), info.finished)
        BY <2>3, <3>0
      <4>3. PICK d \in Nat, f \in Nat : d = TotalDuration(info) /\ f = info.finished
        BY <4>1
      <4>4. /\ Counted(o, d, f).valid = o.valid + 1
            /\ Counted(o, d, f).total = o.total + d
            /\ Counted(o, d, f).interval = Period
            /\ Counted(o, d, f).lastFinished = f
            /\ Counted(o, d, f).lastLog = o.lastLog
        BY CountedFrame
      <4>5. QED
        BY <4>2, <4>3, <4>4
    <3>3. TotalDuration(info) = info.finished - info.vsync /\ info.finished > 0 /\ info.finished <= now
      BY DEF TotalDuration, Duration, IInv, TypeOK, Infos, MarksInOrder
    <3>4. now - s.lastLog + s.interval < Second
      BY <1>3, <3>1, <3>2, <3>3 DEF LineIsDue, IInv, TypeOK
    <3>5. /\ s.lastFinished # 0 /\ s.valid > 0 /\ s.lastFinished <= now
          /\ s.total <= s.lastFinished - s.lastLog
          /\ s.lastFinished - s.lastLog + s.interval < Second
      BY <3>1, <3>2, <3>3, <3>4 DEF IInv, TypeOK, Infos, Counters
    <3>6. QED
      BY <2>1, <3>5 DEF LineIsShort
  <2>4. QED
    BY <2>2, <2>3
<1>4. QED
  BY <1>2, <1>3

(* A line that is forced out leaves nothing, or there is none. *)
LEMMA ForcedLine ==
  ASSUME IInv, now' = now, stats' \in {stats, TimeOfNone}
  PROVE  /\ LineIsShort'
         /\ stats'.lastFinished = 0 => stats'.total = 0 /\ stats'.lastLog = 0
         /\ stats'.lastFinished \in {0, stats.lastFinished}
<1>1. CASE stats' = stats
  BY <1>1 DEF IInv, LineIsShort, CountedBefore
<1>2. CASE stats' = NoFrames
  BY <1>2, TimesAssumption DEF NoFrames, LineIsShort
<1>3. TimeOfNone \in {stats, NoFrames}
  BY DEF TimeOfNone, LogPerSecond
<1>4. QED
  BY <1>1, <1>2, <1>3

LEMMA InitInv == Init => IInv
<1> SUFFICES ASSUME Init PROVE IInv
  OBVIOUS
<1>1. TypeOK
  <2>2. info \in Infos
    BY DEF Init, NoMarks, Infos, Times
  <2>3. stats \in Counters
    BY DEF Init, NoFrames, Counters, Times
  <2>4. tracing \in BOOLEAN
    BY Zenon DEF Init
  <2>5. QED
    BY <2>2, <2>3, <2>4 DEF Init, TypeOK, Times, Stages
<1>2. MarksInOrder /\ CountedBefore /\ LineIsShort
  BY TimesAssumption DEF Init, MarksInOrder, CountedBefore, LineIsShort, NoFrames
<1>3. QED
  BY <1>1, <1>2 DEF IInv

LEMMA NextInv == IInv /\ [Next]_vars => IInv'
<1> SUFFICES ASSUME IInv, [Next]_vars PROVE IInv'
  OBVIOUS
<1>1. ASSUME stats' = stats, now' \in Nat, now' >= now, TypeOK', MarksInOrder',
             at' # "idle" => stats.lastFinished <= info'.vsync
      PROVE  IInv'
  BY <1>1 DEF IInv, TypeOK, CountedBefore, LineIsShort, Counters, Times
<1>2. CASE Tick
  <2>1. TypeOK' /\ MarksInOrder'
    BY <1>2 DEF Tick, IInv, TypeOK, MarksInOrder, Rendered, NotRendered, Infos, Times
  <2>2. QED
    BY <1>1, <1>2, <2>1 DEF Tick, IInv, TypeOK, CountedBefore, Times
<1>3. CASE OnFrame
  <2>1. TypeOK' /\ MarksInOrder'
    BY <1>3 DEF OnFrame, NewInfo, IInv, TypeOK, MarksInOrder, Infos, Times, Stages
  <2>2. QED
    BY <1>1, <1>3, <2>1 DEF OnFrame, NewInfo, IInv, TypeOK, CountedBefore, Times
<1>4. CASE MarkFrameStart
  <2>1. TypeOK' /\ MarksInOrder'
    <3>1. info' \in Infos
      BY <1>4 DEF MarkFrameStart, IInv, TypeOK, Infos, Times
    <3>2. /\ info'.frameStart = now /\ info'.vsync = info.vsync
          /\ info'.renderStart = info.renderStart
      BY <1>4 DEF MarkFrameStart, IInv, TypeOK, Infos
    <3>3. TypeOK'
      BY <1>4, <3>1 DEF MarkFrameStart, IInv, TypeOK, Stages
    <3>4. side = "app"
      BY <1>4 DEF MarkFrameStart, IInv, MarksInOrder
    <3>5. MarksInOrder'
      BY <1>4, <3>2, <3>4 DEF MarkFrameStart, IInv, TypeOK, MarksInOrder, Times
    <3>6. QED
      BY <3>3, <3>5
  <2>2. QED
    BY <1>1, <1>4, <2>1 DEF MarkFrameStart, IInv, TypeOK, CountedBefore, Infos, Times
<1>5. CASE SkipFrame
  <2>1. TypeOK' /\ MarksInOrder'
    BY <1>5 DEF SkipFrame, Reasons, IInv, TypeOK, MarksInOrder, Infos, Times, Stages
  <2>2. QED
    BY <1>1, <1>5, <2>1 DEF SkipFrame, IInv, TypeOK, CountedBefore, Infos, Times
<1>6. CASE MarkLayoutStart
  <2>1. TypeOK' /\ MarksInOrder'
    BY <1>6 DEF MarkLayoutStart, IInv, TypeOK, MarksInOrder, Infos, Times, Stages
  <2>2. QED
    BY <1>1, <1>6, <2>1 DEF MarkLayoutStart, IInv, TypeOK, CountedBefore, Infos, Times
<1>7. CASE MarkRenderStart
  <2>1. TypeOK' /\ MarksInOrder'
    BY <1>7 DEF MarkRenderStart, IInv, TypeOK, MarksInOrder, Infos, Times, Stages
  <2>2. QED
    BY <1>1, <1>7, <2>1 DEF MarkRenderStart, IInv, TypeOK, CountedBefore, Infos, Times
<1>8. CASE MarkRenderEnd
  <2>1. TypeOK'
    BY <1>8 DEF MarkRenderEnd, Reasons, IInv, TypeOK, Infos, Times, Stages
  <2>2. MarksInOrder'
    <3>1. CASE at = "rendering"
      BY <1>8, <3>1 DEF MarkRenderEnd, IInv, TypeOK, MarksInOrder, Rendered, Infos, Times
    <3>2. CASE at = "layout" /\ side = "server"
      BY <1>8, <3>2 DEF MarkRenderEnd, IInv, TypeOK, MarksInOrder, NotRendered, Infos, Times
    <3>3. CASE at = "layout" /\ side = "app"
      BY <1>8, <3>3 DEF MarkRenderEnd, IInv, TypeOK, MarksInOrder, Infos, Times
    <3>4. QED
      BY <1>8, <3>1, <3>2, <3>3 DEF MarkRenderEnd, IInv, TypeOK
  <2>3. QED
    BY <1>1, <1>8, <2>1, <2>2 DEF MarkRenderEnd, IInv, TypeOK, CountedBefore, Infos, Times
<1>9. CASE MarkFrameFinished
  <2>1. TypeOK' /\ MarksInOrder'
    BY <1>9 DEF MarkFrameFinished, IInv, TypeOK, MarksInOrder, Rendered, NotRendered, Infos, Times, Stages
  <2>2. QED
    BY <1>1, <1>9, <2>1 DEF MarkFrameFinished, IInv, TypeOK, CountedBefore, Infos, Times
<1>10. CASE Time
  <2>1. LineIsShort' /\ CountedBefore'
    BY <1>10, LineStaysShort DEF Time, CountedBefore
  <2>2. TypeOK'
    BY <1>10, StatsTyped DEF Time, IInv, TypeOK, Stages
  <2>3. MarksInOrder'
    BY <1>10 DEF Time, MarksInOrder
  <2>4. QED
    BY <2>1, <2>2, <2>3 DEF IInv
<1>11. CASE ScheduleVsync
  <2>1. stats' = TimeOfNone /\ now' = now
    BY <1>11 DEF ScheduleVsync
  <2>2. TypeOK'
    BY <1>11, StatsTyped DEF ScheduleVsync, IInv, TypeOK
  <2>3. MarksInOrder'
    BY <1>11 DEF ScheduleVsync, IInv, MarksInOrder, Rendered, NotRendered
  <2>4. CountedBefore' /\ LineIsShort'
    BY <1>11, <2>1, ForcedLine DEF ScheduleVsync, IInv, TypeOK, CountedBefore, Infos, Times
  <2>5. QED
    BY <2>2, <2>3, <2>4 DEF IInv
<1>12. ASSUME NEW enable \in BOOLEAN, TraceFrame(enable)
       PROVE  IInv'
  <2>1. stats' \in {stats, TimeOfNone} /\ now' = now /\ at' = "idle"
    BY <1>12 DEF TraceFrame
  <2>2. TypeOK'
    BY <1>12, StatsTyped DEF TraceFrame, IInv, TypeOK
  <2>3. MarksInOrder'
    BY <1>12 DEF TraceFrame, IInv, MarksInOrder
  <2>4. CountedBefore' /\ LineIsShort'
    BY <2>1, ForcedLine DEF IInv, TypeOK, CountedBefore, Times
  <2>5. QED
    BY <2>2, <2>3, <2>4 DEF IInv
<1>13. CASE UNCHANGED vars
  BY <1>13 DEF vars, IInv, TypeOK, MarksInOrder, Rendered, NotRendered, CountedBefore, LineIsShort
<1>14. QED
  BY <1>2, <1>3, <1>4, <1>5, <1>6, <1>7, <1>8, <1>9, <1>10, <1>11, <1>12, <1>13 DEF Next

LEMMA InvAlways == Spec => []IInv
<1>1. QED
  BY InitInv, NextInv, PTL DEF Spec

(* The members of the two objects keep their types. *)
THEOREM TypeCorrect == Spec => []TypeOK
<1>1. IInv => TypeOK
  BY DEF IInv
<1>2. QED
  BY <1>1, InvAlways, PTL

(* A line is about less than a second, and its frames fit into it, for any second and period. *)
THEOREM LinesAreShort == Spec => []LineIsShort
<1>1. IInv => LineIsShort
  BY DEF IInv
<1>2. QED
  BY <1>1, InvAlways, PTL

(* The parts of a frame fit into it. *)
THEOREM StagesAlwaysFit == Spec => []StagesFit
<1>1. IInv => StagesFit
  <2> SUFFICES ASSUME IInv, at = "timing", info.skip = "none"
               PROVE  VsyncDuration(info) + LayoutDuration(info) + RenderDuration(info)
                        + TransactDuration(info) <= TotalDuration(info)
    BY DEF StagesFit
  <2> USE DEF VsyncDuration, LayoutDuration, RenderDuration, TransactDuration, TotalDuration, Duration
  <2>1. CASE Rendered
    BY <2>1 DEF IInv, TypeOK, MarksInOrder, Rendered, Infos, Times
  <2>2. CASE NotRendered
    BY <2>2 DEF IInv, TypeOK, MarksInOrder, NotRendered, Infos, Times
  <2>3. QED
    BY <2>1, <2>2 DEF IInv, MarksInOrder
<1>2. QED
  BY <1>1, InvAlways, PTL
-----------------------------------------------------------------------------
(* Loops *)

LEMMA LeastOf ==
  ASSUME NEW T \in SUBSET Nat, T # {}
  PROVE  \E n \in T : \A m \in T : n <= m
<1>1. IsWellFoundedOn(OpToRel(<, Nat), Nat)
  BY NatLessThanWellFounded
<1>2. PICK n \in T : \A m \in T : <<m, n>> \notin OpToRel(<, Nat)
  BY <1>1, WFMin
<1>3. \A m \in T : ~(m < n)
  BY <1>2 DEF OpToRel
<1>4. QED
  BY <1>3

(* Induction, for a set in the place of a predicate. *)
LEMMA Induction ==
  ASSUME NEW P, 0 \in P, \A n \in Nat : n \in P => n + 1 \in P
  PROVE  Nat \subseteq P
<1>1. SUFFICES ASSUME Nat \ P # {} PROVE FALSE
  OBVIOUS
<1>2. PICK n \in Nat \ P : \A m \in Nat \ P : n <= m
  BY <1>1, LeastOf
<1>3. n # 0 /\ n - 1 \in Nat /\ n - 1 \notin Nat \ P
  BY <1>2
<1>4. n - 1 \in P /\ (n - 1) + 1 = n
  BY <1>3
<1>5. QED
  BY <1>2, <1>3, <1>4

(* Adding up N numbers one by one has a run. *)
LEMMA AddingRuns ==
  ASSUME NEW N \in Nat, NEW s \in [1 .. N -> Nat]
  PROVE  \E f \in [0 .. N -> Nat] : f[0] = 0 /\ \A n \in 1 .. N : f[n] = f[n - 1] + s[n]
<1> DEFINE Run(m, f) == f[0] = 0 /\ \A n \in 1 .. m : f[n] = f[n - 1] + s[n]
           P == {m \in Nat : m <= N => \E f \in [0 .. m -> Nat] : Run(m, f)}
<1>1. 0 \in P
  <2>1. [i \in 0 .. 0 |-> 0] \in [0 .. 0 -> Nat] /\ Run(0, [i \in 0 .. 0 |-> 0])
    OBVIOUS
  <2>2. QED
    BY <2>1
<1>2. ASSUME NEW m \in Nat, m \in P, m + 1 <= N
      PROVE  \E f \in [0 .. m + 1 -> Nat] : Run(m + 1, f)
  <2>1. PICK f \in [0 .. m -> Nat] : Run(m, f)
    BY <1>2
  <2> DEFINE g == [i \in 0 .. m + 1 |-> IF i = m + 1 THEN f[m] + s[m + 1] ELSE f[i]]
  <2>2. f[m] \in Nat /\ m + 1 \in 1 .. N
    BY <1>2
  <2>3. f[m] + s[m + 1] \in Nat
    BY <2>2
  <2>4. g \in [0 .. m + 1 -> Nat]
    BY <2>3
  <2>5. g[m + 1] = f[m] + s[m + 1] /\ \A i \in 0 .. m : g[i] = f[i]
    OBVIOUS
  <2> HIDE DEF g
  <2>6. Run(m + 1, g)
    <3>1. g[0] = 0
      BY <2>1, <2>5
    <3>2. ASSUME NEW n \in 1 .. m + 1 PROVE g[n] = g[n - 1] + s[n]
      <4>1. CASE n = m + 1
        BY <2>5, <4>1
      <4>2. CASE n # m + 1
        <5>1. n \in 1 .. m /\ n - 1 \in 0 .. m /\ n \in 0 .. m
          BY <4>2
        <5>2. QED
          BY <2>1, <2>5, <5>1
      <4>3. QED
        BY <4>1, <4>2
    <3>3. QED
      BY <3>1, <3>2
  <2>7. QED
    BY <2>4, <2>6
<1>3. \A m \in Nat : m \in P => m + 1 \in P
  <2>1. ASSUME NEW m \in Nat, m \in P PROVE m + 1 \in P
    <3>1. m + 1 <= N => \E f \in [0 .. m + 1 -> Nat] : Run(m + 1, f)
      BY <1>2, <2>1, Zenon
    <3>2. m + 1 \in Nat
      OBVIOUS
    <3>3. QED
      BY <3>1, <3>2, Zenon
  <2>2. QED
    BY <2>1
<1> HIDE DEF P
<1>4. N \in P
  BY <1>1, <1>3, Induction
<1>5. N <= N
  OBVIOUS
<1>6. QED
  BY <1>4, <1>5, Zenon DEF P

-----------------------------------------------------------------------------
(* Sums *)

(* The sum, as a run: what it has come to after n times. *)
LEMMA SumRuns ==
  ASSUME NEW s \in Seq(Nat)
  PROVE  \E f \in [0 .. Len(s) -> Nat] :
           /\ TotalOf(s) = f[Len(s)]
           /\ f[0] = 0
           /\ \A n \in 1 .. Len(s) : f[n] = f[n - 1] + s[n]
<1> DEFINE N == Len(s)
           Loop(f) == [n \in 0 .. N |-> IF n = 0 THEN 0 ELSE f[n - 1] + s[n]]
<1>1. N \in Nat /\ (\A n \in 1 .. N : s[n] \in Nat) /\ s \in [1 .. N -> Nat]
  OBVIOUS
<1>2. \A f : TotalOf(s) = (CHOOSE g : g = Loop(g))[N]
  BY DEF TotalOf
<1>3. PICK f \in [0 .. N -> Nat] : f[0] = 0 /\ \A n \in 1 .. N : f[n] = f[n - 1] + s[n]
  <2> HIDE DEF N
  <2>1. QED
    BY <1>1, AddingRuns
<1>4. f = Loop(f)
  <2>1. \A n \in 0 .. N : n # 0 => n \in 1 .. N
    BY <1>1
  <2>2. \A n \in 0 .. N : f[n] = (IF n = 0 THEN 0 ELSE f[n - 1] + s[n])
    BY <1>3, <2>1
  <2>3. QED
    BY <1>3, <2>2
<1> DEFINE g == CHOOSE h : h = Loop(h)
<1>5. g = Loop(g)
  BY <1>4
<1> HIDE DEF g
<1>6. DOMAIN g = 0 .. N /\ g[0] = 0 /\ \A n \in 1 .. N : g[n] = g[n - 1] + s[n]
  <2>1. 0 \in 0 .. N /\ \A n \in 1 .. N : n \in 0 .. N /\ n # 0
    BY <1>1
  <2>2. \A n \in 0 .. N : Loop(g)[n] = IF n = 0 THEN 0 ELSE g[n - 1] + s[n]
    OBVIOUS
  <2>3. DOMAIN Loop(g) = 0 .. N
    OBVIOUS
  <2> HIDE DEF Loop
  <2>4. QED
    BY <1>5, <2>1, <2>2, <2>3
<1>7. \A n \in 0 .. N : g[n] \in Nat
  <2> DEFINE P == {n \in Nat : n <= N => g[n] \in Nat}
  <2>1. 0 \in P
    BY <1>1, <1>6
  <2>2. ASSUME NEW n \in Nat, n \in P PROVE n + 1 \in P
    <3>1. CASE n + 1 <= N
      <4>1. n + 1 \in 1 .. N /\ (n + 1) - 1 = n /\ n <= N
        BY <1>1, <3>1
      <4>2. g[n] \in Nat
        BY <2>2, <4>1
      <4>3. g[n + 1] = g[n] + s[n + 1]
        BY <1>6, <4>1
      <4>4. QED
        BY <1>1, <4>1, <4>2, <4>3
    <3>2. CASE ~(n + 1 <= N)
      BY <3>2
    <3>3. QED
      BY <3>1, <3>2
  <2> HIDE DEF P
  <2>3. Nat \subseteq P
    BY <2>1, <2>2, Induction
  <2>4. QED
    BY <1>1, <2>3 DEF P
<1>8. g \in [0 .. N -> Nat]
  <2>1. g = [n \in 0 .. N |-> g[n]]
    BY <1>5, <1>6
  <2>2. QED
    BY <1>7, <2>1
<1>9. TotalOf(s) = g[N]
  BY <1>2 DEF g
<1>10. QED
  BY <1>6, <1>8, <1>9

LEMMA NoTotal == TotalOf(<< >>) = 0
<1>1. PICK s \in Seq(Nat) : s = << >>
  <2>1. << >> \in Seq(Nat)
    OBVIOUS
  <2>2. QED
    BY <2>1, Zenon
<1>2. Len(s) = 0
  BY <1>1
<1>3. TotalOf(s) = 0
  BY <1>2, SumRuns
<1>4. QED
  BY <1>1, <1>3

LEMMA TotalOfMore ==
  ASSUME NEW s \in Seq(Nat), NEW t \in Nat
  PROVE  TotalOf(s) \in Nat /\ TotalOf(Append(s, t)) = TotalOf(s) + t
<1>1. PICK r \in Seq(Nat) : r = Append(s, t)
  <2>1. Append(s, t) \in Seq(Nat)
    OBVIOUS
  <2>2. QED
    BY <2>1, Zenon
<1>2. /\ Len(s) \in Nat /\ Len(r) = Len(s) + 1 /\ r[Len(s) + 1] = t
      /\ \A n \in 1 .. Len(s) : r[n] = s[n]
  BY <1>1
<1>3. PICK f \in [0 .. Len(s) -> Nat] :
        /\ TotalOf(s) = f[Len(s)] /\ f[0] = 0
        /\ \A n \in 1 .. Len(s) : f[n] = f[n - 1] + s[n]
  BY SumRuns
<1>4. PICK g \in [0 .. Len(r) -> Nat] :
        /\ TotalOf(r) = g[Len(r)] /\ g[0] = 0
        /\ \A n \in 1 .. Len(r) : g[n] = g[n - 1] + r[n]
  BY SumRuns
<1> DEFINE P == {n \in Nat : n <= Len(s) => g[n] = f[n]}
<1>5. 0 \in P
  BY <1>3, <1>4
<1>6. ASSUME NEW n \in Nat, n \in P PROVE n + 1 \in P
  <2>1. CASE n + 1 <= Len(s)
    <3>1. n + 1 \in 1 .. Len(s) /\ n + 1 \in 1 .. Len(r) /\ (n + 1) - 1 = n /\ n <= Len(s)
      BY <1>2, <2>1
    <3>2. f[n + 1] = f[n] + s[n + 1] /\ g[n + 1] = g[n] + r[n + 1] /\ r[n + 1] = s[n + 1]
      BY <1>2, <1>3, <1>4, <3>1
    <3>3. QED
      BY <1>6, <3>1, <3>2
  <2>2. CASE ~(n + 1 <= Len(s))
    BY <2>2
  <2>3. QED
    BY <2>1, <2>2
<1> HIDE DEF P
<1>7. Len(s) \in P
  BY <1>2, <1>5, <1>6, Induction
<1>8. g[Len(s)] = f[Len(s)]
  BY <1>2, <1>7 DEF P
<1>9. Len(r) \in 1 .. Len(r) /\ Len(r) - 1 = Len(s) /\ Len(s) \in 0 .. Len(s)
  BY <1>2
<1>10. TotalOf(r) = g[Len(s)] + t
  BY <1>2, <1>4, <1>9
<1>11. QED
  BY <1>1, <1>3, <1>8, <1>9, <1>10

-----------------------------------------------------------------------------
(* What is said of a list of times, and of one more *)

(* t is the longest of the times, or 0 if there is none. *)
IsLongest(times, t) == t \in Range(times) \cup {0} /\ \A x \in Range(times) : x <= t

(* t is the shortest of those after the last 0, or 0 if there is none. *)
SinceZero(times) == {n \in DOMAIN times : \A m \in n .. Len(times) : times[m] # 0}
IsShortest(times, t) ==
  IF SinceZero(times) = {} THEN t = 0
  ELSE /\ \E n \in SinceZero(times) : times[n] = t
       /\ \A n \in SinceZero(times) : t <= times[n]

LEMMA OneMore ==
  ASSUME NEW s \in Seq(Nat), NEW t \in Nat
  PROVE  /\ Append(s, t) \in Seq(Nat) /\ Len(s) \in Nat /\ Len(Append(s, t)) = Len(s) + 1
         /\ DOMAIN s = 1 .. Len(s) /\ DOMAIN Append(s, t) = DOMAIN s \cup {Len(s) + 1}
         /\ \A n \in DOMAIN s : Append(s, t)[n] = s[n] /\ s[n] \in Nat
         /\ Append(s, t)[Len(s) + 1] = t
         /\ Len(s) + 1 \notin DOMAIN s
OBVIOUS

LEMMA LateOfMore ==
  ASSUME NEW s \in Seq(Nat), NEW t \in Nat
  PROVE  /\ LateOf(s) \in Nat
         /\ LateOf(Append(s, t)) = IF Period > 0 /\ t > Period THEN LateOf(s) + 1 ELSE LateOf(s)
<1> DEFINE r == Append(s, t)
           Late(times) == {n \in DOMAIN times : Period > 0 /\ times[n] > Period}
<1>1. /\ Len(s) \in Nat /\ DOMAIN s = 1 .. Len(s) /\ DOMAIN r = DOMAIN s \cup {Len(s) + 1}
      /\ \A n \in DOMAIN s : r[n] = s[n]
      /\ r[Len(s) + 1] = t /\ Len(s) + 1 \notin DOMAIN s
  BY OneMore
<1>2. IsFiniteSet(Late(s))
  <2>1. IsFiniteSet(1 .. Len(s))
    BY <1>1, FS_Interval
  <2>2. Late(s) \in SUBSET (1 .. Len(s))
    BY <1>1
  <2>3. QED
    BY <2>1, <2>2, FS_Subset
<1>3. LateOf(s) = Cardinality(Late(s)) /\ LateOf(r) = Cardinality(Late(r))
  BY DEF LateOf
<1>4. Cardinality(Late(s)) \in Nat
  BY <1>2, FS_CardinalityType
<1> HIDE DEF r
<1>5. CASE Period > 0 /\ t > Period
  <2>1. Late(r) = Late(s) \cup {Len(s) + 1} /\ Len(s) + 1 \notin Late(s)
    BY <1>1, <1>5
  <2> HIDE DEF Late
  <2>2. Cardinality(Late(s) \cup {Len(s) + 1}) = Cardinality(Late(s)) + 1
    BY <1>2, <2>1, FS_AddElement
  <2>3. QED
    BY <1>3, <1>4, <1>5, <2>1, <2>2 DEF r
<1>6. CASE ~(Period > 0 /\ t > Period)
  <2>1. Late(r) = Late(s)
    BY <1>1, <1>6
  <2>2. QED
    BY <1>3, <1>4, <1>6, <2>1 DEF r
<1>7. QED
  BY <1>5, <1>6

LEMMA LongestOfMore ==
  ASSUME NEW s \in Seq(Nat), NEW t \in Nat, NEW l \in Nat, IsLongest(s, l)
  PROVE  IsLongest(Append(s, t), IF t > l THEN t ELSE l)
<1>1. Range(Append(s, t)) = Range(s) \cup {t} /\ Range(s) \subseteq Nat
  BY OneMore DEF Range
<1>2. QED
  BY <1>1 DEF IsLongest

LEMMA ShortestOfMore ==
  ASSUME NEW s \in Seq(Nat), NEW t \in Nat, NEW l \in Nat, IsShortest(s, l)
  PROVE  IsShortest(Append(s, t), IF l = 0 \/ t < l THEN t ELSE l)
<1> DEFINE r == Append(s, t)
<1>1. /\ Len(s) \in Nat /\ DOMAIN s = 1 .. Len(s) /\ Len(r) = Len(s) + 1
      /\ DOMAIN r = DOMAIN s \cup {Len(s) + 1}
      /\ \A n \in DOMAIN s : r[n] = s[n] /\ s[n] \in Nat
      /\ r[Len(s) + 1] = t
  BY OneMore
<1> HIDE DEF r
<1>2. CASE t = 0
  <2>1. \A n \in DOMAIN r : Len(r) \in n .. Len(r)
    BY <1>1
  <2>2. SinceZero(r) = {}
    BY <1>1, <1>2, <2>1 DEF SinceZero
  <2>3. QED
    BY <1>2, <2>2 DEF IsShortest, r
<1>3. CASE t # 0
  <2>1. SinceZero(r) = SinceZero(s) \cup {Len(s) + 1}
    <3>1. Len(s) + 1 \in SinceZero(r)
      BY <1>1, <1>3 DEF SinceZero
    <3>2. \A n \in DOMAIN s : n .. Len(r) = (n .. Len(s)) \cup {Len(s) + 1} /\ n .. Len(s) \subseteq DOMAIN s
      BY <1>1
    <3>3. \A n \in DOMAIN s : n \in SinceZero(r) <=> n \in SinceZero(s)
      <4>1. ASSUME NEW n \in DOMAIN s
            PROVE  (\A m \in n .. Len(r) : r[m] # 0) <=> \A m \in n .. Len(s) : s[m] # 0
        <5>1. \A m \in n .. Len(s) : r[m] = s[m]
          BY <1>1, <3>2
        <5>2. n .. Len(r) = (n .. Len(s)) \cup {Len(s) + 1} /\ r[Len(s) + 1] # 0
          BY <1>1, <1>3, <3>2
        <5>3. QED
          BY <5>1, <5>2, Zenon
      <4>2. QED
        BY <1>1, <4>1 DEF SinceZero
    <3>4. SinceZero(r) \subseteq DOMAIN s \cup {Len(s) + 1} /\ SinceZero(s) \subseteq DOMAIN s
      BY <1>1 DEF SinceZero
    <3>5. QED
      BY <3>1, <3>3, <3>4
  <2>2. \A n \in SinceZero(s) : n \in DOMAIN s /\ r[n] = s[n] /\ s[n] \in Nat /\ s[n] # 0
    <3>1. \A n \in DOMAIN s : n \in n .. Len(s)
      BY <1>1
    <3>2. QED
      BY <1>1, <3>1 DEF SinceZero
  <2>3. CASE SinceZero(s) = {}
    <3>1. l = 0 /\ SinceZero(r) = {Len(s) + 1}
      BY <2>1, <2>3 DEF IsShortest
    <3>2. QED
      BY <1>1, <3>1 DEF IsShortest, r
  <2>4. CASE SinceZero(s) # {}
    <3>1. PICK n \in SinceZero(s) : s[n] = l
      BY <2>4 DEF IsShortest
    <3>2. \A m \in SinceZero(s) : l <= s[m]
      BY <2>4 DEF IsShortest
    <3>3. l # 0 /\ r[n] = l
      BY <2>2, <3>1
    <3>4. CASE t < l
      <4>1. \A m \in SinceZero(r) : t <= r[m]
        BY <1>1, <2>1, <2>2, <3>2, <3>4
      <4>2. QED
        BY <1>1, <2>1, <3>4, <4>1 DEF IsShortest, r
    <3>5. CASE ~(t < l)
      <4>1. \A m \in SinceZero(r) : l <= r[m]
        BY <1>1, <2>1, <2>2, <3>2, <3>5
      <4>2. QED
        BY <2>1, <3>1, <3>3, <3>5, <4>1 DEF IsShortest, r
    <3>6. QED
      BY <3>4, <3>5
  <2>5. QED
    BY <2>3, <2>4
<1>4. QED
  BY <1>2, <1>3

(* The counters c tell of the times what is so. *)
Tells(c, times) ==
  /\ c.valid = Len(times)
  /\ c.timeouts = LateOf(times)
  /\ c.total = TotalOf(times)
  /\ IsLongest(times, c.max) /\ IsShortest(times, c.min)

LEMMA TellsOfNone ==
  ASSUME NEW c, c.valid = 0, c.timeouts = 0, c.total = 0, c.max = 0, c.min = 0
  PROVE  Tells(c, << >>)
<1>1. PICK s \in Seq(Nat) : s = << >>
  <2>1. << >> \in Seq(Nat)
    OBVIOUS
  <2>2. QED
    BY <2>1, Zenon
<1>2. Len(s) = 0 /\ DOMAIN s = {}
  BY <1>1
<1>3. LateOf(s) = 0
  <2>1. {n \in DOMAIN s : Period > 0 /\ s[n] > Period} = {}
    BY <1>2
  <2>2. QED
    BY <2>1, FS_EmptySet DEF LateOf
<1>4. IsLongest(s, 0) /\ IsShortest(s, 0)
  BY <1>2 DEF IsLongest, IsShortest, SinceZero, Range
<1>5. QED
  BY <1>1, <1>2, <1>3, <1>4, NoTotal DEF Tells

(* Then the line is true, as the run has it. *)
LEMMA TellsTheTruth ==
  ASSUME NEW c \in Counters, NEW s \in Seq(Nat), Tells(c, s)
  PROVE  c.max = LongestOf(s) /\ c.min = ShortestOf(s)
<1>1. /\ Len(s) \in Nat /\ DOMAIN s = 1 .. Len(s) /\ \A n \in DOMAIN s : s[n] \in Nat
      /\ c.max \in Nat /\ c.min \in Nat
  BY DEF Counters
<1>2. c.max = LongestOf(s)
  <2>1. /\ c.max \in Range(s) \cup {0} /\ \A x \in Range(s) \cup {0} : c.max >= x
        /\ Range(s) \cup {0} \subseteq Nat
    BY <1>1 DEF Tells, IsLongest, Range
  <2>2. QED
    BY <1>1, <2>1 DEF LongestOf, Max
<1>3. c.min = ShortestOf(s)
  <2> DEFINE times == {s[n] : n \in SinceZero(s)}
  <2>1. CASE SinceZero(s) = {}
    BY <2>1 DEF Tells, IsShortest, ShortestOf, SinceZero
  <2>2. CASE SinceZero(s) # {}
    <3>1. c.min \in times /\ (\A x \in times : c.min <= x)
      BY <2>2 DEF Tells, IsShortest
    <3>2. times \subseteq Nat
      BY <1>1 DEF SinceZero
    <3>3. ShortestOf(s) = Min(times)
      BY <2>2 DEF ShortestOf, SinceZero
    <3> HIDE DEF times
    <3>4. Min(times) \in times /\ \A x \in times : Min(times) <= x
      BY <3>1 DEF Min
    <3>5. /\ c.min \in Nat /\ Min(times) \in Nat
          /\ c.min <= Min(times) /\ Min(times) <= c.min
      BY <3>1, <3>2, <3>4, Zenon
    <3>6. \A a, b \in Nat : a <= b /\ b <= a => a = b
      OBVIOUS
    <3>7. QED
      BY <3>3, <3>5, <3>6, Zenon
  <2>3. QED
    BY <2>1, <2>2
<1>4. QED
  BY <1>2, <1>3

-----------------------------------------------------------------------------
(* What a line says *)

LineInv == IInv /\ samples \in Seq(Nat) /\ Tells(stats, samples)

(* One more frame is counted, with the others or as the first. *)
LEMMA CountedTells ==
  ASSUME NEW c \in Counters, NEW s \in Seq(Nat), Tells(c, s), NEW t \in Nat, NEW finished \in Nat
  PROVE  Tells(Counted(c, t, finished), Append(s, t))
<1>1. PICK r : r = Counted(c, t, finished)
  OBVIOUS
<1>2. /\ r.valid = c.valid + 1 /\ r.total = c.total + t
      /\ r.max = (IF t > c.max THEN t ELSE c.max)
      /\ r.min = (IF c.min = 0 \/ t < c.min THEN t ELSE c.min)
      /\ r.timeouts = IF Period > 0 /\ t > Period THEN c.timeouts + 1 ELSE c.timeouts
  <2>1. /\ Counted(c, t, finished).valid = c.valid + 1
        /\ Counted(c, t, finished).total = c.total + t
        /\ Counted(c, t, finished).max = (IF t > c.max THEN t ELSE c.max)
        /\ Counted(c, t, finished).min = (IF c.min = 0 \/ t < c.min THEN t ELSE c.min)
        /\ Counted(c, t, finished).timeouts =
             IF Period > 0 /\ t > Period THEN c.timeouts + 1 ELSE c.timeouts
    BY CountedFrame, SMTT(30)
  <2>2. QED
    BY <1>1, <2>1, Zenon
<1>3. /\ c.valid = Len(s) /\ c.timeouts = LateOf(s) /\ c.total = TotalOf(s)
      /\ IsLongest(s, c.max) /\ IsShortest(s, c.min)
  BY DEF Tells
<1>4. c.max \in Nat /\ c.min \in Nat
  BY DEF Counters
<1>5. r.valid = Len(Append(s, t))
  BY <1>2, <1>3, OneMore
<1>6. r.timeouts = LateOf(Append(s, t))
  BY <1>2, <1>3, LateOfMore
<1>7. r.total = TotalOf(Append(s, t))
  BY <1>2, <1>3, TotalOfMore
<1>8. IsLongest(Append(s, t), r.max)
  <2>1. IsLongest(Append(s, t), IF t > c.max THEN t ELSE c.max)
    BY <1>3, <1>4, LongestOfMore
  <2>2. QED
    BY <1>2, <2>1, Zenon
<1>9. IsShortest(Append(s, t), r.min)
  <2>1. IsShortest(Append(s, t), IF c.min = 0 \/ t < c.min THEN t ELSE c.min)
    BY <1>3, <1>4, ShortestOfMore
  <2>2. QED
    BY <1>2, <2>1, Zenon
<1>10. Tells(r, Append(s, t))
  BY <1>5, <1>6, <1>7, <1>8, <1>9, Zenon DEF Tells
<1>11. QED
  BY <1>1, <1>10

(* Before its first frame a line has nothing to tell. *)
LEMMA NothingToTell ==
  ASSUME LineInv, stats.lastFinished = 0
  PROVE  samples = << >>
<1>1. Len(samples) = 0
  BY DEF LineInv, IInv, LineIsShort, Tells
<1>2. QED
  BY <1>1, EmptySeq DEF LineInv

(* A line that is logged, now or by force, leaves none. *)
LEMMA LoggedTells ==
  ASSUME LineInv, stats' \in {stats, NoFrames},
         samples' = IF stats'.lastFinished = 0 THEN << >> ELSE samples
  PROVE  samples' \in Seq(Nat) /\ Tells(stats', samples')
<1>1. CASE stats' = NoFrames
  <2>1. /\ NoFrames.lastFinished = 0 /\ NoFrames.valid = 0 /\ NoFrames.timeouts = 0
        /\ NoFrames.total = 0 /\ NoFrames.max = 0 /\ NoFrames.min = 0
    BY DEF NoFrames
  <2>2. Tells(NoFrames, << >>)
    BY <2>1, TellsOfNone
  <2>3. samples' = << >>
    BY <1>1, <2>1
  <2>4. << >> \in Seq(Nat)
    OBVIOUS
  <2>5. QED
    BY <1>1, <2>2, <2>3, <2>4, Zenon
<1>2. CASE stats' = stats
  <2>1. samples' = samples
    BY <1>2, NothingToTell
  <2>2. QED
    BY <1>2, <2>1 DEF LineInv
<1>3. QED
  BY <1>1, <1>2

LEMMA TimeTells ==
  ASSUME LineInv, Time
  PROVE  samples' \in Seq(Nat) /\ Tells(stats', samples')
<1> DEFINE s == IF info.skip # "none" THEN Skipped(stats, info.skip)
                ELSE Counted(Opened(stats, info), TotalDuration(info), info.finished)
<1>1. /\ stats' = LogPerSecond(s, TRUE) /\ samples' = SamplesWith(info) /\ at = "timing"
  BY DEF Time, TimeOf
<1>2. /\ stats \in Counters /\ info \in Infos /\ samples \in Seq(Nat) /\ Tells(stats, samples)
  BY DEF LineInv, IInv, TypeOK
<1>3. CASE LineIsDue(s, TRUE)
  <2>1. stats' = NoFrames
    BY <1>1, <1>3 DEF LogPerSecond
  <2>2. stats'.lastFinished = 0
    BY <2>1 DEF NoFrames
  <2>3. samples' = IF stats'.lastFinished = 0 THEN << >> ELSE samples
    BY <1>1, <2>2 DEF SamplesWith
  <2>4. QED
    BY <2>1, <2>3, LoggedTells
<1>4. CASE ~LineIsDue(s, TRUE) /\ info.skip # "none"
  <2>1. stats' = Skipped(stats, info.skip)
    BY <1>1, <1>4 DEF LogPerSecond
  <2>2. /\ stats'.lastFinished = stats.lastFinished /\ stats'.valid = stats.valid
        /\ stats'.timeouts = stats.timeouts /\ stats'.total = stats.total
        /\ stats'.max = stats.max /\ stats'.min = stats.min
    BY <1>2, <2>1, SkippedFrame
  <2>3. Tells(stats', samples)
    BY <1>2, <2>2, Zenon DEF Tells
  <2>4. samples' = samples
    BY <1>1, <1>4, <2>2, NothingToTell DEF SamplesWith
  <2>5. QED
    BY <1>2, <2>3, <2>4
<1>5. CASE ~LineIsDue(s, TRUE) /\ info.skip = "none"
  <2>1. PICK o \in Counters : o = Opened(stats, info)
    BY <1>2, OpenedLine
  <2>2. PICK t \in Nat, finished \in Nat : t = TotalDuration(info) /\ finished = info.finished
    BY <1>2 DEF TotalDuration, Duration, Infos, Times
  <2>3. stats' = Counted(o, t, finished)
    BY <1>1, <1>5, <2>1, <2>2 DEF LogPerSecond
  <2>4. Tells(o, samples)
    <3>1. CASE stats.lastFinished # 0
      BY <1>2, <2>1, <3>1, OpenedLine
    <3>2. CASE stats.lastFinished = 0
      <4>1. samples = << >> /\ stats.valid = 0
        BY <3>2, NothingToTell DEF LineInv, IInv, LineIsShort
      <4>2. o.valid = 0 /\ o.total = 0 /\ o.timeouts = 0 /\ o.max = 0 /\ o.min = 0
        BY <1>2, <2>1, <3>2, <4>1, OpenedLine
      <4>3. QED
        BY <4>1, <4>2, TellsOfNone
    <3>3. QED
      BY <3>1, <3>2
  <2>5. finished # 0
    <3>1. finished > 0
      BY <1>1, <2>2 DEF LineInv, IInv, TypeOK, Infos, MarksInOrder, Times
    <3>2. QED
      BY <3>1
  <2>6. stats'.lastFinished = finished
    BY <2>3, CountedFrame
  <2>7. samples' = Append(samples, t)
    BY <1>1, <1>5, <2>2, <2>5, <2>6 DEF SamplesWith
  <2>8. Tells(Counted(o, t, finished), Append(samples, t)) /\ Append(samples, t) \in Seq(Nat)
    BY <1>2, <2>4, CountedTells
  <2>9. QED
    BY <2>3, <2>7, <2>8
<1>6. QED
  BY <1>3, <1>4, <1>5

LEMMA LineInvAlways == Spec => []LineInv
<1>1. Init => LineInv
  <2> SUFFICES ASSUME Init PROVE LineInv
    OBVIOUS
  <2>1. stats = NoFrames /\ samples = << >>
    BY DEF Init
  <2>2. Tells(stats, samples)
    BY <2>1, TellsOfNone DEF NoFrames
  <2>3. samples \in Seq(Nat)
    BY <2>1
  <2>4. QED
    BY <2>2, <2>3, InitInv DEF LineInv
<1>2. LineInv /\ [Next]_vars => LineInv'
  <2> SUFFICES ASSUME LineInv, [Next]_vars PROVE LineInv'
    OBVIOUS
  <2>1. IInv'
    BY NextInv DEF LineInv
  <2>2. CASE Time
    BY <2>1, <2>2, TimeTells DEF LineInv
  <2>3. CASE ScheduleVsync \/ \E enable \in BOOLEAN : TraceFrame(enable)
    <3>1. TimeOfNone \in {stats, NoFrames}
      BY DEF TimeOfNone, LogPerSecond
    <3>2. /\ stats' \in {stats, NoFrames}
          /\ samples' = IF stats'.lastFinished = 0 THEN << >> ELSE samples
      BY <2>3, <3>1 DEF ScheduleVsync, TraceFrame
    <3>3. QED
      BY <2>1, <3>2, LoggedTells DEF LineInv
  <2>4. CASE UNCHANGED <<stats, samples>>
    BY <2>1, <2>4 DEF LineInv
  <2>5. QED
    BY <2>2, <2>3, <2>4 DEF Next, vars, Tick, OnFrame, MarkFrameStart, SkipFrame, MarkLayoutStart,
       MarkRenderStart, MarkRenderEnd, MarkFrameFinished
<1>3. QED
  BY <1>1, <1>2, PTL DEF Spec

(***************************************************************************)
(* What a line says of its frames is true: their number, sum, maximum and  *)
(* minimum, and how many were late, for any period and any second.         *)
(***************************************************************************)
THEOREM LinesAreTrue == Spec => []LineIsTrue
<1>1. LineInv => LineIsTrue
  <2> SUFFICES ASSUME LineInv PROVE LineIsTrue
    OBVIOUS
  <2>1. stats \in Counters /\ samples \in Seq(Nat) /\ Tells(stats, samples)
    BY DEF LineInv, IInv, TypeOK
  <2>2. stats.max = LongestOf(samples) /\ stats.min = ShortestOf(samples)
    BY <2>1, TellsTheTruth
  <2>3. QED
    BY <2>1, <2>2 DEF LineIsTrue, Tells
<1>2. QED
  BY <1>1, LineInvAlways, PTL
=============================================================================
