------------------------------ MODULE FrameStats ------------------------------
(***************************************************************************)
(* The statistics of frames that are logged about once a second:           *)
(* common/FrameTimeInfo.cpp, fed with the marks of common/FrameMetaInfo.h. *)
(* An app keeps one such object for each window (app/BaseWindow.cpp) and   *)
(* the server one for the display (server/RootContainer.cpp).              *)
(*                                                                         *)
(* A frame is a handler that reads the clock several times, so the clock   *)
(* may advance between any two of its steps; and a line may be forced out  *)
(* in the middle of a frame, when the window changes between periodic and  *)
(* single VSYNC requests.  Times are in milliseconds and never 0.          *)
(*                                                                         *)
(* A handler is not entered again before it has ended (mFrameDone is for   *)
(* other threads, of which there are none), so no frame is skipped for     *)
(* NoTarget.  The mark SyncQueued and the flags are written, never read.   *)
(***************************************************************************)
EXTENDS Integers, Sequences, FiniteSets, FiniteSetsExt, Functions

CONSTANTS Second,     \* the 1000 ms after which a line is logged
          Period,     \* the time a frame should take, getTimerPeriod or LV_DEF_REFR_PERIOD
          SkipLimit,  \* the 255 skipped frames after which they are counted anew
          MaxTime,    \* bound: the time at which the clock stops
          MaxSamples  \* bound: frames counted before a line is logged

ASSUME TimesAssumption == Period \in Nat /\ Second \in Nat /\ SkipLimit \in Nat
ASSUME BoundsAssumption == MaxTime \in Nat \ {0} /\ MaxSamples \in Nat \ {0}

Reasons == {"NoSurface", "NoBuffer", "NothingToDraw"}
Times == Nat
Stages == {"idle", "started", "drawing", "layout", "rendering", "ending", "timing"}

VARIABLES
  side,    \* whose object it is, "app" or "server"
  tracing, \* mTraceFrame
  now,     \* the clock, curSysTimeMs
  at,      \* how far the handler of the frame has come
  info,    \* the FrameMetaInfo
  stats,   \* the FrameTimeInfo
  samples  \* history: the times of the frames counted since the last line
vars == <<side, tracing, now, at, info, stats, samples>>

Infos == [vsync : Times, frameStart : Times, layoutStart : Times, renderStart : Times,
          renderEnd : Times, finished : Times, skip : Reasons \cup {"none"}]
Counters == [valid : Nat, timeouts : Nat, skips : Nat, emptySkips : Nat, total : Nat, min : Nat,
             max : Nat, interval : Nat, lastFinished : Times, lastLog : Times]

TypeOK ==
  /\ side \in {"app", "server"} /\ tracing \in BOOLEAN /\ at \in Stages
  /\ now \in Times \ {0}
  /\ info \in Infos /\ stats \in Counters

-----------------------------------------------------------------------------
(* FrameMetaInfo *)

(* FrameMetaInfo::FrameMetaInfo *)
NoMarks ==
  [vsync |-> 0, frameStart |-> 0, layoutStart |-> 0, renderStart |-> 0,
   renderEnd |-> 0, finished |-> 0, skip |-> "none"]

(* The marks of the last frame stay: what StagesFit would show. *)
NewInfoKeeping(t) ==
  [info EXCEPT !.vsync = t, !.frameStart = t, !.layoutStart = t, !.skip = "none"]

(* setVsync *)
NewInfo(t) ==
  [vsync |-> t, frameStart |-> t, layoutStart |-> t, renderStart |-> t,
   renderEnd |-> 0, finished |-> 0, skip |-> "none"]

Duration(start, end) == IF start > 0 /\ end > start THEN end - start ELSE 0

TotalDuration(i) == Duration(i.vsync, i.finished)
TransactDuration(i) == Duration(i.renderEnd, i.finished)
VsyncDuration(i) == Duration(i.vsync, i.frameStart)
RenderDuration(i) == Duration(i.renderStart, i.renderEnd)
LayoutDuration(i) == Duration(i.layoutStart, i.renderStart)

-----------------------------------------------------------------------------
(* FrameTimeInfo *)

(* FrameTimeInfo::init *)
NoFrames ==
  [valid |-> 0, timeouts |-> 0, skips |-> 0, emptySkips |-> 0, total |-> 0, min |-> 0,
   max |-> 0, interval |-> 0, lastFinished |-> 0, lastLog |-> 0]

(* A frame without a sample, counted up to SkipLimit of them. *)
Skipped(s, reason) ==
  IF s.skips + 1 > SkipLimit THEN [s EXCEPT !.skips = 0, !.emptySkips = 0]
  ELSE [s EXCEPT !.skips = @ + 1, !.emptySkips = IF reason = "NothingToDraw" THEN @ + 1 ELSE @]

(* It opens when its first frame has ended: what LineIsShort would show. *)
OpenedLate(s, i) ==
  IF s.lastFinished # 0 THEN s
  ELSE [s EXCEPT !.skips = 0, !.emptySkips = 0, !.timeouts = 0, !.total = 0, !.min = 0, !.max = 0,
                 !.lastLog = i.finished]

(* The first frame counted opens the time the line is about. *)
Opened(s, i) ==
  IF s.lastFinished # 0 THEN s
  ELSE [s EXCEPT !.skips = 0, !.emptySkips = 0, !.timeouts = 0, !.total = 0, !.min = 0, !.max = 0,
                 !.lastLog = i.vsync]

(* A minimum that starts from 0 stays there: what LineIsTrue would show. *)
CountedFromZero(s, t, finished) ==
  [s EXCEPT !.valid = @ + 1,
            !.total = @ + t,
            !.max = IF t > @ THEN t ELSE @,
            !.min = IF t < @ THEN t ELSE @,
            !.interval = Period,
            !.timeouts = IF Period > 0 /\ t > Period THEN @ + 1 ELSE @,
            !.lastFinished = finished]

(* The sample, of t ms; 0 stands for no minimum yet. *)
Counted(s, t, finished) ==
  [s EXCEPT !.valid = @ + 1,
            !.total = @ + t,
            !.max = IF t > @ THEN t ELSE @,
            !.min = IF @ = 0 \/ t < @ THEN t ELSE @,
            !.interval = Period,
            !.timeouts = IF Period > 0 /\ t > Period THEN @ + 1 ELSE @,
            !.lastFinished = finished]

(* logPerSecond: with nothing counted there is no line. *)
LineIsDue(s, checksec) ==
  /\ s.lastFinished # 0
  /\ checksec => now - s.lastLog + s.interval >= Second

LogPerSecond(s, checksec) == IF LineIsDue(s, checksec) THEN NoFrames ELSE s

(* FrameTimeInfo::time, of a frame and of none. *)
TimeOf(i) ==
  LogPerSecond(IF i.skip # "none" THEN Skipped(stats, i.skip)
               ELSE Counted(Opened(stats, i), TotalDuration(i), i.finished), TRUE)
TimeOfNone == LogPerSecond(stats, FALSE)

SamplesWith(i) ==
  CASE stats'.lastFinished = 0 -> << >>
    [] stats'.lastFinished # 0 /\ i.skip = "none" -> Append(samples, TotalDuration(i))
    [] OTHER -> samples

-----------------------------------------------------------------------------
(* Frames *)

Init ==
  /\ side \in {"app", "server"} /\ tracing = FALSE
  /\ now = 1
  /\ at = "idle"
  /\ info = NoMarks
  /\ stats = NoFrames /\ samples = << >>

Tick ==
  /\ now < MaxTime
  /\ now' = now + 1
  /\ UNCHANGED <<side, tracing, at, info, stats, samples>>

(* BaseWindow::onFrame and RootContainer::onFrameStart, up to the first mark. *)
OnFrame ==
  /\ tracing /\ at = "idle" /\ Len(samples) < MaxSamples
  /\ info' = NewInfo(now)
  /\ at' = IF side = "app" THEN "started" ELSE "drawing"
  /\ UNCHANGED <<side, tracing, now, stats, samples>>

(* The VSYNC event has been passed on. *)
MarkFrameStart ==
  /\ at = "started"
  /\ info' = [info EXCEPT !.frameStart = now]
  /\ at' = "drawing"
  /\ UNCHANGED <<side, tracing, now, stats, samples>>

(* handleOnFrame, without a surface or a buffer to draw into. *)
SkipFrame ==
  /\ side = "app" /\ at = "drawing"
  /\ \E reason \in {"NoSurface", "NoBuffer"} : info' = [info EXCEPT !.skip = reason]
  /\ at' = "ending"
  /\ UNCHANGED <<side, tracing, now, stats, samples>>

(* LVGL's refresh: LV_EVENT_REFR_START, RENDER_START if anything is dirty, REFR_READY. *)
MarkLayoutStart ==
  /\ at = "drawing"
  /\ info' = [info EXCEPT !.layoutStart = now]
  /\ at' = "layout"
  /\ UNCHANGED <<side, tracing, now, stats, samples>>

MarkRenderStart ==
  /\ at = "layout"
  /\ info' = [info EXCEPT !.renderStart = now]
  /\ at' = "rendering"
  /\ UNCHANGED <<side, tracing, now, stats, samples>>

(* The app skips a frame in which nothing was rendered; the server counts it. *)
MarkRenderEnd ==
  /\ at \in {"layout", "rendering"}
  /\ info' = [info EXCEPT !.renderEnd = now,
                          !.skip = IF side = "app" /\ at = "layout" THEN "NothingToDraw" ELSE @]
  /\ at' = "ending"
  /\ UNCHANGED <<side, tracing, now, stats, samples>>

MarkFrameFinished ==
  /\ at = "ending"
  /\ info' = [info EXCEPT !.finished = now]
  /\ at' = "timing"
  /\ UNCHANGED <<side, tracing, now, stats, samples>>

Time ==
  /\ at = "timing"
  /\ stats' = TimeOf(info)
  /\ samples' = SamplesWith(info)
  /\ at' = "idle"
  /\ UNCHANGED <<side, tracing, now, info>>

(***************************************************************************)
(* scheduleVsync, to or from periodic requests: the line is logged at      *)
(* once.  The UI may ask for it in its own time or while it is drawn.      *)
(***************************************************************************)
ScheduleVsync ==
  /\ side = "app" /\ tracing /\ at # "timing"
  /\ stats' = TimeOfNone
  /\ samples' = IF stats'.lastFinished = 0 THEN << >> ELSE samples
  /\ UNCHANGED <<side, tracing, now, at, info>>

(* traceFrame: only the server logs what it has counted. *)
TraceFrame(enable) ==
  /\ at = "idle" /\ enable # tracing
  /\ tracing' = enable
  /\ stats' = IF side = "server" /\ ~enable THEN TimeOfNone ELSE stats
  /\ samples' = IF stats'.lastFinished = 0 THEN << >> ELSE samples
  /\ UNCHANGED <<side, now, at, info>>

Next ==
  \/ Tick
  \/ OnFrame \/ MarkFrameStart \/ SkipFrame
  \/ MarkLayoutStart \/ MarkRenderStart \/ MarkRenderEnd \/ MarkFrameFinished
  \/ Time \/ ScheduleVsync
  \/ \E enable \in BOOLEAN : TraceFrame(enable)

Spec == Init /\ [][Next]_vars

-----------------------------------------------------------------------------
(* Properties *)

(* What there is to say of a list of times.  Without a period no frame is late. *)
TotalOf(times) ==
  LET sum[n \in 0 .. Len(times)] == IF n = 0 THEN 0 ELSE sum[n - 1] + times[n]
  IN  sum[Len(times)]
LateOf(times) == Cardinality({n \in DOMAIN times : Period > 0 /\ times[n] > Period})
LongestOf(times) == Max(Range(times) \cup {0})
ShortestOf(times) ==
  LET sinceZero == {n \in DOMAIN times : \A m \in n .. Len(times) : times[m] # 0}
  IN  IF sinceZero = {} THEN 0 ELSE Min({times[n] : n \in sinceZero})

(***************************************************************************)
(* What a line says of the frames it counts is true: how many there were,  *)
(* how many were late, their sum and their maximum, however the lines      *)
(* before it were forced out and whatever was skipped.  The minimum is     *)
(* that of the frames after the last one that took no time: 0 also stands  *)
(* for no minimum yet, so a frame of 0 ms makes it forget those before.    *)
(***************************************************************************)
LineIsTrue ==
  /\ stats.valid = Len(samples)
  /\ stats.timeouts = LateOf(samples)
  /\ stats.total = TotalOf(samples)
  /\ stats.max = LongestOf(samples)
  /\ stats.min = ShortestOf(samples)

(***************************************************************************)
(* The time a line is about is its own: it begins where its first frame    *)
(* began, its frames fit into it without overlapping, and it is shorter    *)
(* than a second even if nothing was drawn for longer, or a line was       *)
(* forced out in the middle of a frame.                                    *)
(***************************************************************************)
LineIsShort ==
  /\ stats.lastFinished = 0 <=> stats.valid = 0
  /\ stats.total <= stats.lastFinished - stats.lastLog
  /\ stats.valid > 0 => stats.lastFinished - stats.lastLog + stats.interval < Second

(***************************************************************************)
(* The parts of a frame that are logged one by one (SingleFrameLog) are    *)
(* parts of it: together they are no longer than the frame, whichever      *)
(* marks it came by, and none is left from a frame before.                 *)
(***************************************************************************)
StagesFit ==
  at = "timing" /\ info.skip = "none" =>
    VsyncDuration(info) + LayoutDuration(info) + RenderDuration(info) + TransactDuration(info)
      <= TotalDuration(info)
=============================================================================
