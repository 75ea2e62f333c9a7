---------------------------- MODULE Windows_proof ----------------------------
(***************************************************************************)
(* What TLAPS proves of the windows of the server: of WindowSession, which *)
(* has the windows that share the timer, and of WindowLifecycle, which has *)
(* the ones that come and go.                                              *)
(*                                                                         *)
(* WindowSession, for any number of windows, changes of the token and      *)
(* calls on their way: its types, that a token that is visible has visible *)
(* windows once every call has arrived, that no wake-up is lost and that   *)
(* no periodic one is left.                                                *)
(*                                                                         *)
(* The second rests on ToldToShow: the calls on their way to a window of a *)
(* visible token end with one that shows it, and as long as the server     *)
(* takes such a window to be hidden, its app has something to tell it.     *)
(*                                                                         *)
(* The third is about requests, which the app and the server count down on *)
(* their own.  The invariant compares them at the same point of time: what *)
(* the server will have when the requests on their way have come (Asked)   *)
(* is at least what the app will have when the frames on their way have    *)
(* come (Counted), unless the app is about to be hidden, which makes it    *)
(* start again.                                                            *)
(*                                                                         *)
(* The fourth adds that a periodic request which outlives the app's own is *)
(* withdrawn by the relayout of the hidden window, or that the app is told *)
(* to show the window, which makes it ask anew.                            *)
(*                                                                         *)
(* WindowLifecycle, for any clients, binders, windows and tokens: its      *)
(* types, that a posted task finds the window it is to delete, that no     *)
(* pointer to a deleted window or token is left, and that no token is left *)
(* behind.  These four hold each other up: a window is deleted by the task *)
(* of its removal only if that task was posted once (RemovedHaveTasks), no *)
(* map or token has it by then (WindowsKnown), and its token is dropped    *)
(* with its last child only if every child is in it once (TokensKnown).    *)
(***************************************************************************)
EXTENDS WindowLifecycle, WindowSession, SequenceTheorems, WellFoundedInduction, TLAPS

(* After the calls of dispatchAppVisibility on their way, the app is visible. *)
EndsShown(calls, shown) ==
  /\ \A i \in 1 .. Len(calls) : calls[i] = "hide" => \E j \in i + 1 .. Len(calls) : calls[j] = "show"
  /\ ~shown => \E j \in 1 .. Len(calls) : calls[j] = "show"

Hides(calls) == \E i \in 1 .. Len(calls) : calls[i] = "hide"

(* The app is yet to be hidden, is hidden, or its relayout is on its way. *)
RelayoutDue(w) ==
  Hides(toApp[w]) \/ ~appVisible[w] \/ (calling[w] # "none" /\ answer[w] = "none")

ToldToShow(w) ==
  tokenVisibility = "visible" =>
    EndsShown(toApp[w], appVisible[w]) /\ (visibility[w] # "visible" => RelayoutDue(w))

NoAnswerYet(w) == calling[w] = "none" => answer[w] = "none"

IInv == TypeOK /\ \A w \in Windows : NoAnswerYet(w) /\ ToldToShow(w)

Calls == {"show", "hide", "frame"}

-----------------------------------------------------------------------------
(* Types *)

LEMMA RequestsTyped ==
  /\ {None, Single, SingleSuppress, Periodic} = VsyncRequest
  /\ \A req \in VsyncRequest : NextVsyncState(req) \in VsyncRequest
  /\ \A req \in VsyncRequest, v \in {"visible", "hold", "gone"} : RequestWith(v, req) \in VsyncRequest
BY DEF VsyncRequest, NextVsyncState, RequestWith, None, Single, SingleSuppress, Periodic

LEMMA CallForTyped == \A v \in {"visible", "hold", "gone"} : CallFor(v) \in Seq(Calls)
<1>1. <<"show">> \in Seq(Calls) /\ <<"hide">> \in Seq(Calls) /\ << >> \in Seq(Calls)
  BY DEF Calls
<1>2. \A v : CallFor(v) \in {<<"show">>, <<"hide">>, << >>}
  BY Zenon DEF CallFor
<1>3. QED
  BY <1>1, <1>2

LEMMA RequestTyped ==
  ASSUME TypeOK, NEW w \in Windows, NEW freq \in VsyncRequest, NEW req \in VsyncRequest,
         NEW listening \in BOOLEAN, Request(w, freq, req, listening)
  PROVE  appReq' \in [Windows -> VsyncRequest] /\ toServer' \in [Windows -> Seq(VsyncRequest)]
<1> DEFINE new == IF listening THEN Periodic ELSE freq
<1>1. new \in VsyncRequest
  BY RequestsTyped DEF VsyncRequest
<1>2. Append(toServer[w], new) \in Seq(VsyncRequest)
  BY <1>1 DEF TypeOK
<1>3. QED
  BY ZenonT(30), <1>1, <1>2 DEF Request, TypeOK

LEMMA ReceivedTyped ==
  ASSUME TypeOK, NEW w \in Windows, NEW call \in Calls, Received(w, call)
  PROVE  /\ toApp' \in [Windows -> Seq(Calls)]
         /\ toApp[w] # << >> /\ Head(toApp[w]) = call
         /\ toApp' = [toApp EXCEPT ![w] = Tail(@)]
<1>1. toApp[w] # << >> /\ toApp[w] \in Seq(Calls)
  BY DEF Received, TypeOK, Calls
<1>2. Tail(toApp[w]) \in Seq(Calls)
  BY <1>1
<1>3. QED
  BY <1>1, <1>2 DEF Received, TypeOK, Calls

LEMMA InitTyped == Init => TypeOK
<1>1. << >> \in Seq(Calls) /\ << >> \in Seq(VsyncRequest) /\ None \in VsyncRequest /\ 0 \in 0 .. MaxUpdates
  BY BoundAssumption DEF VsyncRequest
<1>2. SUFFICES ASSUME Init PROVE TypeOK
  OBVIOUS
<1>3. /\ updates \in 0 .. MaxUpdates
      /\ srvReq \in [Windows -> VsyncRequest] /\ appReq \in [Windows -> VsyncRequest]
      /\ toApp \in [Windows -> Seq(Calls)] /\ toServer \in [Windows -> Seq(VsyncRequest)]
  BY <1>1, <1>2 DEF Init
<1>4. /\ tokenVisibility \in {"visible", "hold", "gone"} /\ vsyncEnabled \in BOOLEAN
      /\ visibility \in [Windows -> {"visible", "hold", "gone"}]
      /\ appVisible \in [Windows -> BOOLEAN] /\ hasSurface \in [Windows -> BOOLEAN]
      /\ vsyncEvents \in [Windows -> BOOLEAN]
      /\ calling \in [Windows -> {"none", "setVisible", "onFrame"}]
      /\ answer \in [Windows -> {"none", "surface", "failed"}]
  BY <1>2 DEF Init
<1>5. QED
  BY <1>3, <1>4 DEF TypeOK, Calls

LEMMA NextTyped == TypeOK /\ [Next]_vars => TypeOK'
<1> SUFFICES ASSUME TypeOK, [Next]_vars PROVE TypeOK'
  OBVIOUS
<1> USE RequestsTyped
<1>1. ASSUME NEW v \in Visibilities, UpdateTokenVisibility(v)
      PROVE  TypeOK'
  <2>1. v \in {"visible", "hold", "gone"} /\ updates' \in 0 .. MaxUpdates
    BY <1>1, VisibilitiesAssumption, BoundAssumption DEF UpdateTokenVisibility, TypeOK
  <2>2. ASSUME NEW w \in Windows PROVE toApp[w] \o CallFor(v) \in Seq(Calls)
    BY <2>1, CallForTyped DEF TypeOK, Calls
  <2>3. srvReq' \in [Windows -> VsyncRequest] /\ toApp' \in [Windows -> Seq(Calls)]
    BY <1>1, <2>1, <2>2 DEF UpdateTokenVisibility, TypeOK, Calls
  <2>4. visibility' \in [Windows -> {"visible", "hold", "gone"}] /\ vsyncEnabled' \in BOOLEAN
    BY <1>1, <2>1 DEF UpdateTokenVisibility, EnableVsync, TypeOK
  <2>5. QED
    BY <1>1, <2>1, <2>3, <2>4 DEF UpdateTokenVisibility, TypeOK, appVars, Calls
<1>2. CASE ResponseVsync
  <2>1. ASSUME NEW w \in Windows PROVE Append(toApp[w], "frame") \in Seq(Calls)
    BY DEF TypeOK, Calls
  <2>2. srvReq' \in [Windows -> VsyncRequest] /\ toApp' \in [Windows -> Seq(Calls)]
    BY <1>2, <2>1 DEF ResponseVsync, OnVsync, TypeOK, Calls
  <2>3. vsyncEnabled' \in BOOLEAN
    BY <1>2 DEF ResponseVsync, EnableVsync
  <2>4. QED
    BY <1>2, <2>2, <2>3 DEF ResponseVsync, TypeOK, appVars, Calls
<1>3. ASSUME NEW w \in Windows, ScheduleVsync(w)
      PROVE  TypeOK'
  <2>1. toServer[w] # << >> /\ toServer[w] \in Seq(VsyncRequest)
    BY <1>3 DEF ScheduleVsync, TypeOK
  <2>2. Tail(toServer[w]) \in Seq(VsyncRequest) /\ Head(toServer[w]) \in VsyncRequest
    BY <2>1
  <2>3. QED
    BY <1>3, <2>2 DEF ScheduleVsync, EnableVsync, TypeOK, appVars
<1>4. ASSUME NEW w \in Windows, Relayout(w)
      PROVE  TypeOK'
  BY <1>4 DEF Relayout, TypeOK
<1>5. ASSUME NEW w \in Windows, RelayoutReturns(w)
      PROVE  TypeOK'
  <2>1. /\ calling' \in [Windows -> {"none", "setVisible", "onFrame"}]
        /\ answer' \in [Windows -> {"none", "surface", "failed"}]
        /\ hasSurface' \in [Windows -> BOOLEAN]
    BY <1>5 DEF RelayoutReturns, TypeOK
  <2>2. appReq[w] \in VsyncRequest /\ vsyncEvents[w] \in BOOLEAN
    BY DEF TypeOK
  <2>3. appReq' \in [Windows -> VsyncRequest] /\ toServer' \in [Windows -> Seq(VsyncRequest)]
    BY ZenonT(30), <1>5, <2>2, RequestTyped DEF RelayoutReturns, TypeOK, VsyncRequest
  <2>4. QED
    BY <1>5, <2>1, <2>3 DEF RelayoutReturns, TypeOK, srvVars
<1>6. ASSUME NEW w \in Windows, NEW v \in BOOLEAN, SetVisible(w, v)
      PROVE  TypeOK'
  <2>1. toApp' \in [Windows -> Seq(Calls)]
    BY <1>6, ReceivedTyped DEF SetVisible, Calls
  <2>2. appReq[w] \in VsyncRequest /\ vsyncEvents[w] \in BOOLEAN
    BY DEF TypeOK
  <2>3. appReq' \in [Windows -> VsyncRequest] /\ toServer' \in [Windows -> Seq(VsyncRequest)]
    BY <1>6, <2>2, RequestTyped DEF SetVisible, TypeOK, VsyncRequest
  <2>4. QED
    BY <1>6, <2>1, <2>3 DEF SetVisible, TypeOK, srvVars, Calls
<1>7. ASSUME NEW w \in Windows, SetVisibleAlready(w)
      PROVE  TypeOK'
  <2>1. toApp' \in [Windows -> Seq(Calls)]
    BY <1>7, ReceivedTyped DEF SetVisibleAlready, Calls
  <2>2. QED
    BY <1>7, <2>1 DEF SetVisibleAlready, TypeOK, srvVars, appVars, Calls
<1>8. ASSUME NEW w \in Windows, OnFrame(w)
      PROVE  TypeOK'
  <2>1. toApp' \in [Windows -> Seq(Calls)]
    BY <1>8, ReceivedTyped DEF OnFrame, Calls
  <2>2. QED
    BY <1>8, <2>1 DEF OnFrame, TypeOK, srvVars, Calls
<1>9. ASSUME NEW w \in Windows, OnFrameNoBuffer(w)
      PROVE  TypeOK'
  <2>1. toApp' \in [Windows -> Seq(Calls)]
    BY <1>9, ReceivedTyped DEF OnFrameNoBuffer, Calls
  <2>2. NextVsyncState(appReq[w]) \in VsyncRequest /\ vsyncEvents[w] \in BOOLEAN
    BY DEF TypeOK
  <2>3. appReq' \in [Windows -> VsyncRequest] /\ toServer' \in [Windows -> Seq(VsyncRequest)]
    BY <1>9, <2>2, RequestTyped DEF OnFrameNoBuffer, TypeOK, VsyncRequest
  <2>4. QED
    BY <1>9, <2>1, <2>3 DEF OnFrameNoBuffer, TypeOK, srvVars, Calls
<1>10. ASSUME NEW w \in Windows, OnFrameNoSurface(w)
       PROVE  TypeOK'
  <2>1. toApp' \in [Windows -> Seq(Calls)]
    BY <1>10, ReceivedTyped DEF OnFrameNoSurface, Calls
  <2>2. QED
    BY <1>10, <2>1 DEF OnFrameNoSurface, TypeOK, srvVars, Calls
<1>11. ASSUME NEW w \in Windows, OnInvalidate(w)
       PROVE  TypeOK'
  <2>1. appReq[w] \in VsyncRequest /\ vsyncEvents[w] \in BOOLEAN
    BY DEF TypeOK
  <2>2. appReq' \in [Windows -> VsyncRequest] /\ toServer' \in [Windows -> Seq(VsyncRequest)]
    BY <1>11, <2>1, RequestTyped DEF OnInvalidate, VsyncRequest
  <2>3. QED
    BY <1>11, <2>2 DEF OnInvalidate, TypeOK, srvVars
<1>12. ASSUME NEW w \in Windows, OnFBVsyncRequest(w)
       PROVE  TypeOK'
  <2>1. appReq[w] \in VsyncRequest /\ vsyncEvents' \in [Windows -> BOOLEAN]
    BY <1>12 DEF OnFBVsyncRequest, TypeOK
  <2>2. appReq' \in [Windows -> VsyncRequest] /\ toServer' \in [Windows -> Seq(VsyncRequest)]
    BY <1>12, <2>1, RequestTyped DEF OnFBVsyncRequest, VsyncRequest
  <2>3. QED
    BY <1>12, <2>1, <2>2 DEF OnFBVsyncRequest, TypeOK, srvVars
<1>13. CASE UNCHANGED vars
  BY <1>13 DEF vars, srvVars, appVars, TypeOK
<1>14. QED
  BY <1>1, <1>2, <1>3, <1>4, <1>5, <1>6, <1>7, <1>8, <1>9, <1>10, <1>11, <1>12, <1>13
     DEF Next, HandleCall

-----------------------------------------------------------------------------
(* Calls on their way *)

LEMMA TailCalls ==
  ASSUME NEW calls \in Seq(Calls), calls # << >>, NEW shown \in BOOLEAN, EndsShown(calls, shown)
  PROVE  /\ EndsShown(Tail(calls),
                      IF Head(calls) = "show" THEN TRUE ELSE IF Head(calls) = "hide" THEN FALSE ELSE shown)
         /\ Hides(calls) => Head(calls) = "hide" \/ Hides(Tail(calls))
<1> DEFINE rest == Tail(calls)
<1>1. /\ Len(calls) \in Nat /\ Len(calls) >= 1 /\ Len(rest) = Len(calls) - 1
      /\ Head(calls) = calls[1]
      /\ \A i \in 1 .. Len(rest) : rest[i] = calls[i + 1]
  OBVIOUS
<1>2. \A j \in 2 .. Len(calls) : j - 1 \in 1 .. Len(rest) /\ rest[j - 1] = calls[j]
  BY <1>1
<1> HIDE DEF rest
<1>3. ASSUME NEW i \in 1 .. Len(rest), rest[i] = "hide"
      PROVE  \E j \in i + 1 .. Len(rest) : rest[j] = "show"
  <2>1. i + 1 \in 1 .. Len(calls) /\ calls[i + 1] = "hide"
    BY <1>1, <1>3
  <2>2. PICK j \in i + 2 .. Len(calls) : calls[j] = "show"
    BY <2>1 DEF EndsShown
  <2>3. j - 1 \in i + 1 .. Len(rest) /\ rest[j - 1] = "show"
    BY <1>1, <1>2, <2>2
  <2>4. QED
    BY <2>3
<1>4. ASSUME Head(calls) = "hide" \/ (Head(calls) # "show" /\ ~shown)
      PROVE  \E j \in 1 .. Len(rest) : rest[j] = "show"
  <2>1. \E j \in 2 .. Len(calls) : calls[j] = "show"
    <3>1. CASE Head(calls) = "hide"
      BY <1>1, <3>1 DEF EndsShown
    <3>2. CASE Head(calls) # "show" /\ ~shown
      <4>1. PICK j \in 1 .. Len(calls) : calls[j] = "show"
        BY <3>2 DEF EndsShown
      <4>2. j # 1
        BY <1>1, <3>2, <4>1
      <4>3. QED
        BY <1>1, <4>1, <4>2
    <3>3. QED
      BY <1>4, <3>1, <3>2
  <2>2. QED
    BY <1>2, <2>1
<1>5. ASSUME Hides(calls), Head(calls) # "hide"
      PROVE  Hides(rest)
  <2>1. PICK i \in 1 .. Len(calls) : calls[i] = "hide"
    BY <1>5 DEF Hides
  <2>2. i # 1
    BY <1>1, <1>5, <2>1
  <2>3. QED
    BY <1>1, <1>2, <2>1, <2>2 DEF Hides
<1>6. QED
  BY <1>3, <1>4, <1>5 DEF EndsShown, rest

LEMMA AppendFrame ==
  ASSUME NEW calls \in Seq(Calls), NEW shown \in BOOLEAN
  PROVE  /\ EndsShown(calls, shown) => EndsShown(Append(calls, "frame"), shown)
         /\ Hides(calls) => Hides(Append(calls, "frame"))
<1> DEFINE more == Append(calls, "frame")
<1>1. /\ Len(calls) \in Nat /\ Len(more) = Len(calls) + 1
      /\ \A i \in 1 .. Len(calls) : more[i] = calls[i]
      /\ more[Len(more)] = "frame"
  OBVIOUS
<1> HIDE DEF more
<1>2. QED
  BY <1>1 DEF EndsShown, Hides, more

LEMMA AddShow ==
  ASSUME NEW calls \in Seq(Calls), NEW shown \in BOOLEAN
  PROVE  EndsShown(calls \o <<"show">>, shown)
<1> DEFINE more == calls \o <<"show">>
<1>1. Len(calls) \in Nat /\ Len(more) = Len(calls) + 1 /\ more[Len(calls) + 1] = "show"
  OBVIOUS
<1> HIDE DEF more
<1>2. ASSUME NEW i \in 1 .. Len(more), more[i] = "hide"
      PROVE  \E j \in i + 1 .. Len(more) : more[j] = "show"
  <2>1. i # Len(calls) + 1
    BY <1>1, <1>2
  <2>2. Len(calls) + 1 \in i + 1 .. Len(more)
    BY <1>1, <2>1
  <2>3. QED
    BY <1>1, <2>2
<1>3. QED
  BY <1>1, <1>2 DEF EndsShown, more

-----------------------------------------------------------------------------
(* ToldToShow is kept *)

LEMMA WindowKept ==
  ASSUME NEW w \in Windows, NoAnswerYet(w), ToldToShow(w),
         UNCHANGED <<tokenVisibility, visibility[w], appVisible[w], calling[w], answer[w], toApp[w]>>
  PROVE  NoAnswerYet(w)' /\ ToldToShow(w)'
BY DEF NoAnswerYet, ToldToShow, RelayoutDue, EndsShown, Hides

(* A call is received, and the window is as visible as it says. *)
LEMMA CallReceived ==
  ASSUME TypeOK, TypeOK', NEW w \in Windows, NoAnswerYet(w), ToldToShow(w),
         UNCHANGED <<tokenVisibility, visibility[w], answer[w]>>,
         calling[w] = "none", toApp[w] # << >>, toApp'[w] = Tail(toApp[w]),
         Head(toApp[w]) = "show" => appVisible'[w],
         Head(toApp[w]) = "hide" => ~appVisible'[w],
         Head(toApp[w]) = "frame" => appVisible'[w] = appVisible[w],
         appVisible'[w] = appVisible[w] \/ calling'[w] # "none"
  PROVE  NoAnswerYet(w)' /\ ToldToShow(w)'
<1> DEFINE calls == toApp[w]
<1>1. calls \in Seq(Calls) /\ Head(calls) \in Calls /\ appVisible[w] \in BOOLEAN /\ appVisible'[w] \in BOOLEAN
  BY DEF TypeOK, Calls
<1>2. answer[w] = "none" /\ answer'[w] = "none"
  BY DEF NoAnswerYet
<1>3. ASSUME tokenVisibility = "visible"
      PROVE  /\ EndsShown(toApp'[w], appVisible'[w])
             /\ Hides(calls) => Head(calls) = "hide" \/ Hides(toApp'[w])
  <2>1. EndsShown(calls, appVisible[w])
    BY <1>3 DEF ToldToShow
  <2>2. appVisible'[w] = (IF Head(calls) = "show" THEN TRUE
                          ELSE IF Head(calls) = "hide" THEN FALSE ELSE appVisible[w])
    BY <1>1 DEF Calls
  <2>3. QED
    BY <1>1, <2>1, <2>2, TailCalls
<1>4. ASSUME tokenVisibility = "visible", visibility[w] # "visible", appVisible'[w] => appVisible[w]
      PROVE  Hides(toApp'[w]) \/ ~appVisible'[w]
  <2>1. Hides(calls) \/ ~appVisible[w]
    BY <1>2, <1>4 DEF ToldToShow, RelayoutDue
  <2>2. QED
    BY <1>3, <1>4, <2>1
<1>5. NoAnswerYet(w)'
  BY <1>2 DEF NoAnswerYet
<1>6. ASSUME tokenVisibility = "visible", visibility[w] # "visible"
      PROVE  RelayoutDue(w)'
  BY <1>2, <1>4, <1>6, Zenon DEF RelayoutDue, Hides
<1>7. QED
  BY <1>3, <1>5, <1>6, Zenon DEF ToldToShow, EndsShown

LEMMA NextShown ==
  ASSUME IInv, TypeOK', [Next]_vars, NEW x \in Windows
  PROVE  NoAnswerYet(x)' /\ ToldToShow(x)'
<1>1. TypeOK /\ NoAnswerYet(x) /\ ToldToShow(x)
  BY DEF IInv
<1>2. ASSUME NEW v \in Visibilities, UpdateTokenVisibility(v)
      PROVE  NoAnswerYet(x)' /\ ToldToShow(x)'
  <2>1. NoAnswerYet(x)'
    BY <1>1, <1>2 DEF UpdateTokenVisibility, appVars, NoAnswerYet
  <2>2. ASSUME v = "visible"
        PROVE  toApp'[x] = toApp[x] \o <<"show">> /\ visibility'[x] = "visible"
    BY <1>2, <2>2 DEF UpdateTokenVisibility, Told, CallFor
  <2>3. ASSUME v = "visible"
        PROVE  EndsShown(toApp'[x], appVisible'[x])
    BY ZenonT(30), <1>1, <2>2, <2>3, AddShow DEF IInv, TypeOK, Calls
  <2>4. QED
    BY <1>2, <2>1, <2>2, <2>3 DEF UpdateTokenVisibility, ToldToShow, EndsShown
<1>3. CASE ResponseVsync
  <2>1. UNCHANGED <<tokenVisibility, visibility, appVisible, calling, answer>>
    BY <1>3 DEF ResponseVsync, appVars
  <2>2. toApp'[x] = toApp[x] \/ toApp'[x] = Append(toApp[x], "frame")
    BY <1>3 DEF ResponseVsync, OnVsync
  <2>3. CASE toApp'[x] = toApp[x]
    BY <1>1, <2>1, <2>3, WindowKept
  <2>4. CASE toApp'[x] = Append(toApp[x], "frame")
    <3>1. /\ EndsShown(toApp[x], appVisible[x]) => EndsShown(toApp'[x], appVisible'[x])
          /\ Hides(toApp[x]) => Hides(toApp'[x])
      <4>1. toApp[x] \in Seq(Calls) /\ appVisible[x] \in BOOLEAN /\ appVisible'[x] = appVisible[x]
        BY <1>1, <2>1 DEF TypeOK, Calls
      <4>2. /\ EndsShown(toApp[x], appVisible[x]) => EndsShown(Append(toApp[x], "frame"), appVisible[x])
            /\ Hides(toApp[x]) => Hides(Append(toApp[x], "frame"))
        BY <4>1, AppendFrame, Zenon
      <4>3. QED
        BY <2>4, <4>1, <4>2, Zenon
    <3>2. RelayoutDue(x) => RelayoutDue(x)'
      BY <2>1, <3>1, Zenon DEF RelayoutDue, Hides
    <3>3. QED
      BY <1>1, <2>1, <3>1, <3>2, Zenon DEF NoAnswerYet, ToldToShow, EndsShown
  <2>5. QED
    BY <2>2, <2>3, <2>4
<1>4. ASSUME NEW w \in Windows, ScheduleVsync(w)
      PROVE  NoAnswerYet(x)' /\ ToldToShow(x)'
  BY <1>1, <1>4, WindowKept DEF ScheduleVsync, appVars
<1>5. ASSUME NEW w \in Windows, Relayout(w)
      PROVE  NoAnswerYet(x)' /\ ToldToShow(x)'
  <2>1. CASE x # w
    BY <1>1, <1>5, <2>1, WindowKept DEF Relayout, TypeOK
  <2>2. CASE x = w
    <3>1. /\ calling[x] # "none" /\ UNCHANGED <<tokenVisibility, appVisible, calling, toApp>>
          /\ visibility'[x] = IF appVisible[x] THEN "visible" ELSE "gone"
      BY <1>1, <1>5, <2>2 DEF Relayout, TypeOK
    <3>2. NoAnswerYet(x)'
      BY <3>1 DEF NoAnswerYet
    <3>3. ToldToShow(x)'
      BY <1>1, <3>1, Zenon DEF ToldToShow, RelayoutDue, EndsShown
    <3>4. QED
      BY <3>2, <3>3
  <2>3. QED
    BY <2>1, <2>2
<1>6. ASSUME NEW w \in Windows, RelayoutReturns(w)
      PROVE  NoAnswerYet(x)' /\ ToldToShow(x)'
  <2>1. CASE x # w
    BY <1>1, <1>6, <2>1, WindowKept DEF RelayoutReturns, srvVars, TypeOK
  <2>2. CASE x = w
    <3>1. /\ answer[x] # "none" /\ answer'[x] = "none"
          /\ UNCHANGED <<tokenVisibility, visibility, appVisible, toApp>>
      BY <1>1, <1>6, <2>2 DEF RelayoutReturns, srvVars, TypeOK
    <3>2. NoAnswerYet(x)'
      BY <3>1 DEF NoAnswerYet
    <3>3. ToldToShow(x)'
      BY <1>1, <3>1, Zenon DEF ToldToShow, RelayoutDue, EndsShown, Hides
    <3>4. QED
      BY <3>2, <3>3
  <2>3. QED
    BY <2>1, <2>2
<1>7. ASSUME NEW w \in Windows, HandleCall(w)
      PROVE  NoAnswerYet(x)' /\ ToldToShow(x)'
  <2>1. /\ calling[w] = "none" /\ toApp[w] # << >> /\ toApp' = [toApp EXCEPT ![w] = Tail(@)]
        /\ UNCHANGED <<tokenVisibility, visibility, answer>>
    BY <1>7 DEF HandleCall, SetVisible, SetVisibleAlready, OnFrame, OnFrameNoBuffer, OnFrameNoSurface,
                Received, Idle, srvVars, appVars
  <2>2. \A z \in Windows \ {w} : UNCHANGED <<appVisible[z], calling[z]>>
    <3>1. CASE \E v \in BOOLEAN : SetVisible(w, v)
      BY <1>1, <3>1 DEF SetVisible, TypeOK
    <3>2. CASE SetVisibleAlready(w) \/ OnFrame(w) \/ OnFrameNoBuffer(w)
      BY <3>2 DEF SetVisibleAlready, OnFrame, OnFrameNoBuffer, appVars
    <3>3. CASE OnFrameNoSurface(w)
      BY <1>1, <3>3 DEF OnFrameNoSurface, TypeOK
    <3>4. QED
      BY <1>7, <3>1, <3>2, <3>3 DEF HandleCall
  <2>3. CASE x # w
    BY <1>1, <2>1, <2>2, <2>3, WindowKept DEF TypeOK
  <2>4. CASE x = w
    <3>1. /\ Head(toApp[x]) = "show" => appVisible'[x]
          /\ Head(toApp[x]) = "hide" => ~appVisible'[x]
          /\ Head(toApp[x]) = "frame" => appVisible'[x] = appVisible[x]
          /\ appVisible'[x] = appVisible[x] \/ calling'[x] # "none"
      BY <1>1, <1>7, <2>4 DEF HandleCall, SetVisible, SetVisibleAlready, OnFrame, OnFrameNoBuffer,
                              OnFrameNoSurface, Received, appVars, TypeOK
    <3>2. toApp'[x] = Tail(toApp[x])
      BY <1>1, <2>1, <2>4 DEF TypeOK
    <3>3. QED
      BY <1>1, <2>1, <2>4, <3>1, <3>2, CallReceived
  <2>5. QED
    BY <2>3, <2>4
<1>8. ASSUME NEW w \in Windows, OnInvalidate(w) \/ OnFBVsyncRequest(w)
      PROVE  NoAnswerYet(x)' /\ ToldToShow(x)'
  BY <1>1, <1>8, WindowKept DEF OnInvalidate, OnFBVsyncRequest, srvVars
<1>9. CASE UNCHANGED vars
  BY <1>1, <1>9, WindowKept DEF vars, srvVars, appVars
<1>10. QED
  BY <1>2, <1>3, <1>4, <1>5, <1>6, <1>7, <1>8, <1>9 DEF Next

-----------------------------------------------------------------------------

LEMMA InitIInv == Init => IInv
<1>1. ASSUME Init, NEW w \in Windows PROVE NoAnswerYet(w) /\ ToldToShow(w)
  BY <1>1 DEF Init, NoAnswerYet, ToldToShow
<1>2. QED
  BY <1>1, InitTyped DEF IInv

LEMMA NextIInv == IInv /\ [Next]_vars => IInv'
<1> SUFFICES ASSUME IInv, [Next]_vars PROVE IInv'
  OBVIOUS
<1>1. TypeOK'
  BY NextTyped DEF IInv
<1>2. \A w \in Windows : NoAnswerYet(w)' /\ ToldToShow(w)'
  BY <1>1, NextShown
<1>3. QED
  BY <1>1, <1>2 DEF IInv

LEMMA InvAlways == Spec => []IInv
BY InitIInv, NextIInv, PTL DEF Spec

(* The state of every window, and the calls on their way, keep their types. *)
THEOREM TypeCorrect == Spec => []TypeOK
<1>1. IInv => TypeOK
  BY DEF IInv
<1>2. QED
  BY <1>1, InvAlways, PTL

(***************************************************************************)
(* The windows of a visible token are visible on both sides when every     *)
(* call has arrived, for any number of windows and of calls on their way.  *)
(***************************************************************************)
THEOREM AlwaysShownWithToken == Spec => []ShownWithToken
<1>1. IInv => ShownWithToken
  <2> SUFFICES ASSUME IInv, NEW w \in Windows, Settled(w), tokenVisibility = "visible"
               PROVE  appVisible[w] /\ visibility[w] = "visible"
    BY DEF ShownWithToken
  <2>1. toApp[w] = << >> /\ calling[w] = "none" /\ appVisible[w] \in BOOLEAN
    BY DEF Settled, IInv, TypeOK
  <2>2. ~Hides(toApp[w]) /\ ~\E j \in 1 .. Len(toApp[w]) : toApp[w][j] = "show"
    BY <2>1 DEF Hides
  <2>3. QED
    BY <2>1, <2>2 DEF IInv, ToldToShow, RelayoutDue, EndsShown
<1>2. QED
  BY <1>1, InvAlways, PTL
-----------------------------------------------------------------------------
(* The requests for frames *)

OneFrame(calls) == \E i \in 1 .. Len(calls) : calls[i] = "frame"
TwoFrames(calls) ==
  \E i, j \in 1 .. Len(calls) : i < j /\ calls[i] = "frame" /\ calls[j] = "frame"

(* The request req after the frames among calls; two end every request that ends. *)
Counted(req, calls) ==
  IF TwoFrames(calls) THEN NextVsyncState(NextVsyncState(req))
  ELSE IF OneFrame(calls) THEN NextVsyncState(req) ELSE req

(* The server's request after those on their way. *)
Asked(w) == IF toServer[w] = << >> THEN srvReq[w] ELSE toServer[w][Len(toServer[w])]

(* The app of w is hidden, or about to be. *)
Going(w) == Hides(toApp[w]) \/ ~appVisible[w]
Showing(w) == calling[w] = "setVisible"

HiddenAsksNothing(w) == ~appVisible[w] /\ ~Showing(w) => appReq[w] = None
ListenerAsks(w) == vsyncEvents[w] /\ appVisible[w] /\ ~Showing(w) => appReq[w] = Periodic
ShowWillAsk(w) == Showing(w) /\ appVisible[w] /\ ~vsyncEvents[w] => appReq[w] # Single
GoneIsDue(w) ==
  visibility[w] = "visible" \/ (visibility[w] = "gone" /\ (Going(w) \/ (Showing(w) /\ answer[w] = "none")))
AskedEnough(w) == Going(w) \/ Asked(w) >= Counted(appReq[w], toApp[w])
TimerRuns(w) ==
  \/ vsyncEnabled \/ vsyncEvents[w] \/ toServer[w] # << >>
  \/ Going(w) \/ Showing(w) \/ Counted(appReq[w], toApp[w]) = None

Wakes(w) ==
  /\ HiddenAsksNothing(w) /\ ListenerAsks(w) /\ ShowWillAsk(w)
  /\ GoneIsDue(w) /\ AskedEnough(w) /\ TimerRuns(w)

WakeInv == IInv /\ \A w \in Windows : Wakes(w)

(* Nothing is put on HOLD (see README, "Where the code falls short"). *)
NoHold == Visibilities \subseteq {"visible", "gone"}

-----------------------------------------------------------------------------
(* Requests *)

LEMMA Requests ==
  /\ None = -2 /\ Single = -1 /\ SingleSuppress = 0 /\ Periodic = 1
  /\ VsyncRequest = {-2, -1, 0, 1}
  /\ NextVsyncState(-2) = -2 /\ NextVsyncState(-1) = -2
  /\ NextVsyncState(0) = -1 /\ NextVsyncState(1) = 1
BY DEF VsyncRequest, NextVsyncState, None, Single, SingleSuppress, Periodic

LEMMA NextMonotone ==
  ASSUME NEW r \in VsyncRequest, NEW s \in VsyncRequest, r <= s
  PROVE  NextVsyncState(r) <= NextVsyncState(s) /\ NextVsyncState(r) <= r
BY Requests

LEMMA CountedTyped ==
  ASSUME NEW r \in VsyncRequest, NEW calls
  PROVE  Counted(r, calls) \in VsyncRequest /\ Counted(r, calls) <= r
BY Requests DEF Counted

LEMMA CountedNone == \A calls : Counted(None, calls) = None
BY Requests DEF Counted

LEMMA CountedPeriodic == \A calls : Counted(Periodic, calls) = Periodic
BY Requests DEF Counted

(* A frame more counts the request down once more. *)
LEMMA CountedFrame ==
  ASSUME NEW r \in VsyncRequest, NEW calls \in Seq(Calls)
  PROVE  /\ Counted(r, Append(calls, "frame")) = NextVsyncState(Counted(r, calls))
         /\ Hides(Append(calls, "frame")) <=> Hides(calls)
<1> DEFINE more == Append(calls, "frame")
<1>1. /\ Len(calls) \in Nat /\ Len(more) = Len(calls) + 1
      /\ \A i \in 1 .. Len(calls) : more[i] = calls[i]
      /\ more[Len(calls) + 1] = "frame"
  OBVIOUS
<1> HIDE DEF more
<1>2. OneFrame(more)
  BY <1>1 DEF OneFrame
<1>3. TwoFrames(more) <=> OneFrame(calls)
  <2>1. ASSUME OneFrame(calls) PROVE TwoFrames(more)
    BY <1>1, <2>1 DEF OneFrame, TwoFrames
  <2>2. ASSUME TwoFrames(more) PROVE OneFrame(calls)
    BY <1>1, <2>2 DEF OneFrame, TwoFrames
  <2>3. QED
    BY <2>1, <2>2
<1>4. TwoFrames(calls) => OneFrame(calls)
  BY DEF OneFrame, TwoFrames
<1>5. Counted(r, more) = NextVsyncState(Counted(r, calls))
  BY <1>2, <1>3, <1>4, Requests DEF Counted
<1>6. Hides(more) <=> Hides(calls)
  BY <1>1 DEF Hides
<1>7. QED
  BY <1>5, <1>6 DEF more

(* A call to show counts nothing down; one to hide is seen. *)
LEMMA CountedCall ==
  ASSUME NEW r \in VsyncRequest, NEW calls \in Seq(Calls), NEW c \in {"show", "hide"}
  PROVE  /\ Counted(r, calls \o <<c>>) = Counted(r, calls)
         /\ Hides(calls \o <<c>>) <=> Hides(calls) \/ c = "hide"
<1> DEFINE more == calls \o <<c>>
<1>1. /\ Len(calls) \in Nat /\ Len(more) = Len(calls) + 1
      /\ \A i \in 1 .. Len(calls) : more[i] = calls[i]
      /\ more[Len(calls) + 1] = c
  OBVIOUS
<1> HIDE DEF more
<1>2. OneFrame(more) <=> OneFrame(calls)
  BY <1>1 DEF OneFrame
<1>3. TwoFrames(more) <=> TwoFrames(calls)
  BY <1>1 DEF TwoFrames
<1>4. Hides(more) <=> Hides(calls) \/ c = "hide"
  BY <1>1 DEF Hides
<1>5. QED
  BY <1>2, <1>3, <1>4 DEF Counted, more

(* The app takes the first call. *)
LEMMA CountedTail ==
  ASSUME NEW r \in VsyncRequest, NEW calls \in Seq(Calls), calls # << >>
  PROVE  /\ Head(calls) = "frame" => Counted(NextVsyncState(r), Tail(calls)) = Counted(r, calls)
         /\ Head(calls) # "frame" => Counted(r, Tail(calls)) = Counted(r, calls)
         /\ Hides(calls) <=> Head(calls) = "hide" \/ Hides(Tail(calls))
<1> DEFINE rest == Tail(calls)
<1>1. /\ Len(calls) \in Nat /\ Len(calls) >= 1 /\ Len(rest) = Len(calls) - 1
      /\ Head(calls) = calls[1]
      /\ \A i \in 1 .. Len(rest) : rest[i] = calls[i + 1]
  OBVIOUS
<1>2. \A j \in 2 .. Len(calls) : j - 1 \in 1 .. Len(rest) /\ rest[j - 1] = calls[j]
  BY <1>1
<1> HIDE DEF rest
<1>3. \A i \in 1 .. Len(rest) : i + 1 \in 2 .. Len(calls) /\ calls[i + 1] = rest[i]
  BY <1>1
<1>4. OneFrame(calls) <=> calls[1] = "frame" \/ OneFrame(rest)
  BY <1>1, <1>2, <1>3 DEF OneFrame
<1>5. TwoFrames(calls) <=> (calls[1] = "frame" /\ OneFrame(rest)) \/ TwoFrames(rest)
  <2>1. ASSUME TwoFrames(calls)
        PROVE  (calls[1] = "frame" /\ OneFrame(rest)) \/ TwoFrames(rest)
    <3>1. PICK i, j \in 1 .. Len(calls) : i < j /\ calls[i] = "frame" /\ calls[j] = "frame"
      BY <2>1 DEF TwoFrames
    <3>2. j \in 2 .. Len(calls)
      BY <1>1, <3>1
    <3>3. CASE i = 1
      BY <1>2, <3>1, <3>2, <3>3 DEF OneFrame
    <3>4. CASE i # 1
      <4>1. i - 1 \in 1 .. Len(rest) /\ j - 1 \in 1 .. Len(rest) /\ i - 1 < j - 1
        BY <1>1, <3>1, <3>4
      <4>2. QED
        BY <1>1, <1>2, <3>1, <3>2, <3>4, <4>1 DEF TwoFrames
    <3>5. QED
      BY <3>3, <3>4
  <2>2. ASSUME calls[1] = "frame", OneFrame(rest) PROVE TwoFrames(calls)
    BY <1>1, <1>3, <2>2 DEF OneFrame, TwoFrames
  <2>3. ASSUME TwoFrames(rest) PROVE TwoFrames(calls)
    <3>1. PICK i, j \in 1 .. Len(rest) : i < j /\ rest[i] = "frame" /\ rest[j] = "frame"
      BY <2>3 DEF TwoFrames
    <3>2. i + 1 \in 1 .. Len(calls) /\ j + 1 \in 1 .. Len(calls) /\ i + 1 < j + 1
      BY <1>1, <3>1
    <3>3. QED
      BY <1>3, <3>1, <3>2 DEF TwoFrames
  <2>4. QED
    BY <2>1, <2>2, <2>3
<1>6. TwoFrames(rest) => OneFrame(rest)
  BY DEF OneFrame, TwoFrames
<1>7. Hides(calls) <=> calls[1] = "hide" \/ Hides(rest)
  BY <1>1, <1>2, <1>3 DEF Hides
<1>8. calls[1] = "frame" => Counted(NextVsyncState(r), rest) = Counted(r, calls)
  BY <1>4, <1>5, <1>6, Requests DEF Counted
<1>9. calls[1] # "frame" => Counted(r, rest) = Counted(r, calls)
  BY <1>4, <1>5 DEF Counted
<1>10. QED
  BY <1>1, <1>7, <1>8, <1>9 DEF rest

-----------------------------------------------------------------------------
(* What a step leaves alone, and what a request does *)

LEMMA WakesKept ==
  ASSUME NEW w \in Windows, Wakes(w), vsyncEnabled => vsyncEnabled',
         UNCHANGED <<visibility[w], srvReq[w], appVisible[w], appReq[w], vsyncEvents[w],
                     calling[w], answer[w], toApp[w], toServer[w]>>
  PROVE  Wakes(w)'
BY DEF Wakes, HiddenAsksNothing, ListenerAsks, ShowWillAsk, GoneIsDue, AskedEnough, TimerRuns,
       Going, Showing, Asked, Counted, OneFrame, TwoFrames, Hides

LEMMA AskedTyped ==
  ASSUME TypeOK, NEW w \in Windows
  PROVE  Asked(w) \in VsyncRequest
BY DEF Asked, TypeOK

LEMMA RequestSent ==
  ASSUME TypeOK, NEW w \in Windows, NEW freq \in VsyncRequest, NEW req \in VsyncRequest,
         NEW listening \in BOOLEAN, Request(w, freq, req, listening), srvReq' = srvReq,
         NEW new, new = IF listening THEN Periodic ELSE freq
  PROVE  /\ \A z \in Windows \ {w} : appReq'[z] = appReq[z] /\ toServer'[z] = toServer[z]
         /\ ~appVisible'[w] => appReq'[w] = req /\ toServer'[w] = toServer[w]
         /\ appVisible'[w] => appReq'[w] = new
         /\ appVisible'[w] /\ new # req => toServer'[w] # << >> /\ Asked(w)' = new
         /\ appVisible'[w] /\ new = req => toServer'[w] = toServer[w] /\ Asked(w)' = Asked(w)
<1>1. new \in VsyncRequest /\ toServer[w] \in Seq(VsyncRequest)
  BY Requests DEF TypeOK
<1>2. /\ Append(toServer[w], new) # << >>
      /\ Append(toServer[w], new)[Len(Append(toServer[w], new))] = new
  BY <1>1
<1>3. CASE appVisible'[w] /\ new # req
  <2>1. appReq'[w] = new /\ toServer'[w] = Append(toServer[w], new)
    BY <1>3 DEF Request, TypeOK
  <2>2. Asked(w)' = new
    BY <1>2, <2>1 DEF Asked
  <2>3. QED
    BY <1>2, <1>3, <2>1, <2>2 DEF Request, TypeOK
<1>4. CASE ~(appVisible'[w] /\ new # req)
  BY <1>4 DEF Request, TypeOK, Asked
<1>5. QED
  BY <1>3, <1>4

-----------------------------------------------------------------------------
(* Steps of the server *)

LEMMA UpdateWakes ==
  ASSUME NoHold, WakeInv, NEW v \in Visibilities, UpdateTokenVisibility(v), NEW x \in Windows
  PROVE  Wakes(x)'
<1>1. TypeOK /\ Wakes(x) /\ v \in {"visible", "gone"} /\ appReq[x] \in VsyncRequest
  BY DEF WakeInv, IInv, NoHold, TypeOK
<1>2. /\ UNCHANGED <<appVisible[x], appReq[x], vsyncEvents[x], calling[x], answer[x], toServer[x]>>
      /\ vsyncEnabled => vsyncEnabled'
  BY DEF UpdateTokenVisibility, appVars, EnableVsync
<1>3. CASE x \notin Told(v)
  <2>1. UNCHANGED <<visibility[x], srvReq[x], toApp[x]>>
    BY <1>3 DEF UpdateTokenVisibility
  <2>2. QED
    BY <1>1, <1>2, <2>1, WakesKept
<1>4. CASE x \in Told(v)
  <2>1. /\ visibility'[x] = v /\ srvReq'[x] = RequestWith(v, srvReq[x])
        /\ toApp'[x] = toApp[x] \o CallFor(v) /\ vsyncEnabled'
    BY <1>4 DEF UpdateTokenVisibility, EnableVsync
  <2>2. toApp[x] \in Seq(Calls)
    BY <1>1 DEF TypeOK, Calls
  <2>3. CASE v = "gone"
    <3>1. Hides(toApp'[x])
      BY <2>1, <2>2, <2>3, CountedCall, Requests DEF CallFor
    <3>2. Going(x)'
      BY <3>1 DEF Going
    <3>3. QED
      BY <1>1, <1>2, <2>1, <2>3, <3>2 DEF Wakes, HiddenAsksNothing, ListenerAsks, ShowWillAsk, GoneIsDue,
                                   AskedEnough, TimerRuns, Showing
  <2>4. CASE v = "visible"
    <3>1. /\ Counted(appReq[x], toApp'[x]) = Counted(appReq[x], toApp[x])
          /\ Hides(toApp'[x]) <=> Hides(toApp[x])
      BY <1>1, <2>1, <2>2, <2>4, CountedCall DEF CallFor
    <3>2. srvReq'[x] >= srvReq[x] /\ srvReq'[x] \in VsyncRequest
      BY <1>1, <2>1, <2>4, Requests DEF RequestWith, TypeOK
    <3>3. AskedEnough(x)'
      <4>1. /\ Asked(x)' >= Asked(x)
            /\ Asked(x) \in Int /\ Asked(x)' \in Int /\ Counted(appReq[x], toApp[x]) \in Int
        <5>1. srvReq[x] \in Int /\ srvReq'[x] \in Int /\ Asked(x) \in Int
          BY <1>1, <3>2, AskedTyped, Requests DEF TypeOK
        <5>2. Counted(appReq[x], toApp[x]) \in Int
          BY <1>1, CountedTyped, Requests
        <5>3. CASE toServer[x] = << >>
          BY <1>2, <3>2, <5>1, <5>2, <5>3 DEF Asked
        <5>4. CASE toServer[x] # << >>
          BY <1>2, <5>1, <5>2, <5>4 DEF Asked
        <5>5. QED
          BY <5>3, <5>4
      <4>2. Going(x) <=> Going(x)'
        BY <1>2, <3>1 DEF Going
      <4>3. Going(x) \/ Asked(x) >= Counted(appReq[x], toApp[x])
        BY <1>1 DEF Wakes, AskedEnough
      <4>4. QED
        BY <1>2, <3>1, <4>1, <4>2, <4>3 DEF AskedEnough
    <3>4. QED
      BY <1>1, <1>2, <2>1, <2>4, <3>3 DEF Wakes, HiddenAsksNothing, ListenerAsks, ShowWillAsk, GoneIsDue,
                                         TimerRuns, Showing
  <2>5. QED
    BY <1>1, <2>3, <2>4
<1>5. QED
  BY <1>3, <1>4

(***************************************************************************)
(* The timer stops only when the server owes nobody a frame; then nobody   *)
(* who is shown waits for more frames than are on their way.               *)
(***************************************************************************)
LEMMA ResponseWakes ==
  ASSUME WakeInv, ResponseVsync, NEW x \in Windows
  PROVE  Wakes(x)'
<1>1. TypeOK /\ Wakes(x) /\ appReq[x] \in VsyncRequest /\ srvReq[x] \in VsyncRequest /\ toApp[x] \in Seq(Calls)
  BY DEF WakeInv, IInv, TypeOK, Calls
<1>2. UNCHANGED <<visibility[x], appVisible[x], appReq[x], vsyncEvents[x], calling[x], answer[x], toServer[x]>>
  BY DEF ResponseVsync, appVars
<1> DEFINE before == Counted(appReq[x], toApp[x])
           after  == Counted(appReq[x], toApp'[x])
<1>3. before \in VsyncRequest /\ after \in VsyncRequest /\ after <= before
      /\ (Hides(toApp'[x]) <=> Hides(toApp[x]))
      /\ (x \in Shown /\ srvReq[x] # None =>
            srvReq'[x] = NextVsyncState(srvReq[x]) /\ after = NextVsyncState(before))
      /\ (~(x \in Shown /\ srvReq[x] # None) => srvReq'[x] = srvReq[x] /\ after = before)
  <2>1. CASE x \in Shown /\ srvReq[x] # None
    <3>1. toApp'[x] = Append(toApp[x], "frame") /\ srvReq'[x] = NextVsyncState(srvReq[x])
      BY <2>1 DEF ResponseVsync, OnVsync
    <3>2. after = NextVsyncState(before) /\ (Hides(toApp'[x]) <=> Hides(toApp[x]))
      BY <1>1, <3>1, CountedFrame
    <3>3. before \in VsyncRequest
      BY <1>1, CountedTyped
    <3>4. QED
      BY <2>1, <3>1, <3>2, <3>3, Requests
  <2>2. CASE ~(x \in Shown /\ srvReq[x] # None)
    <3>1. toApp'[x] = toApp[x] /\ srvReq'[x] = srvReq[x]
      BY <2>2 DEF ResponseVsync, OnVsync
    <3>2. QED
      BY <1>1, <2>2, <3>1, CountedTyped, Requests DEF Hides
  <2>3. QED
    BY <2>1, <2>2
<1> HIDE DEF before, after
<1>4. (Going(x) <=> Going(x)') /\ (Showing(x) <=> Showing(x)')
  BY <1>2, <1>3 DEF Going, Showing
<1>5. AskedEnough(x)'
  <2>1. CASE Going(x)
    BY <1>4, <2>1 DEF AskedEnough
  <2>2. CASE ~Going(x)
    <3>1. Asked(x) >= before
      BY <1>1, <2>2 DEF Wakes, AskedEnough, before
    <3>2. CASE toServer[x] = << >>
      <4>1. srvReq[x] >= before
        BY <3>1, <3>2 DEF Asked
      <4>2. srvReq'[x] >= after
        BY <1>1, <1>3, <4>1, NextMonotone
      <4>3. QED
        BY <1>2, <3>2, <4>2 DEF AskedEnough, Asked, after
    <3>3. CASE toServer[x] # << >>
      <4>1. Asked(x)' = Asked(x) /\ Asked(x) \in VsyncRequest
        BY <1>1, <1>2, <3>3, AskedTyped DEF Asked
      <4>2. Asked(x)' >= after
        BY <1>3, <3>1, <4>1, Requests
      <4>3. QED
        BY <1>2, <4>2 DEF AskedEnough, after
    <3>4. QED
      BY <3>2, <3>3
  <2>3. QED
    BY <2>1, <2>2
<1>6. TimerRuns(x)'
  <2> SUFFICES ASSUME ~vsyncEnabled', ~vsyncEvents[x], toServer[x] = << >>, ~Going(x), ~Showing(x)
               PROVE  after = None
    BY <1>2, <1>4 DEF TimerRuns, after
  <2>1. x \in Shown
    BY <1>1 DEF Wakes, GoneIsDue, Shown
  <2>2. srvReq'[x] = None
    BY <2>1 DEF ResponseVsync, EnableVsync, Shown
  <2>3. srvReq'[x] >= after
    BY <1>2, <1>4, <1>5 DEF AskedEnough, Asked, after
  <2>4. QED
    BY <1>3, <2>2, <2>3, Requests
<1>7. QED
  BY <1>1, <1>2, <1>4, <1>5, <1>6 DEF Wakes, HiddenAsksNothing, ListenerAsks, ShowWillAsk, GoneIsDue, Showing

LEMMA LastOfTail ==
  ASSUME NEW reqs \in Seq(VsyncRequest), reqs # << >>
  PROVE  reqs[Len(reqs)] = IF Tail(reqs) = << >> THEN Head(reqs) ELSE Tail(reqs)[Len(Tail(reqs))]
<1> DEFINE rest == Tail(reqs)
<1>1. /\ Len(reqs) \in Nat /\ Len(reqs) >= 1 /\ Len(rest) = Len(reqs) - 1
      /\ Head(reqs) = reqs[1]
      /\ \A i \in 1 .. Len(rest) : rest[i] = reqs[i + 1]
      /\ rest \in Seq(VsyncRequest)
  OBVIOUS
<1> HIDE DEF rest
<1>2. rest = << >> <=> Len(rest) = 0
  BY <1>1
<1>3. QED
  BY <1>1, <1>2 DEF rest

LEMMA ScheduleWakes ==
  ASSUME WakeInv, NEW w \in Windows, ScheduleVsync(w), NEW x \in Windows
  PROVE  Wakes(x)'
<1>1. TypeOK /\ Wakes(x) /\ vsyncEnabled'
  BY DEF WakeInv, IInv, ScheduleVsync, EnableVsync
<1>2. UNCHANGED <<visibility, appVisible, appReq, vsyncEvents, calling, answer, toApp>>
  BY DEF ScheduleVsync, appVars
<1>3. CASE x # w
  <2>1. UNCHANGED <<srvReq[x], toServer[x]>>
    BY <1>1, <1>3 DEF ScheduleVsync, TypeOK
  <2>2. QED
    BY <1>1, <1>2, <2>1, WakesKept
<1>4. CASE x = w
  <2>1. toServer[x] \in Seq(VsyncRequest) /\ toServer[x] # << >>
    BY <1>1, <1>4 DEF ScheduleVsync, TypeOK
  <2>2. srvReq'[x] = Head(toServer[x]) /\ toServer'[x] = Tail(toServer[x])
    BY <1>1, <1>4 DEF ScheduleVsync, TypeOK
  <2>3. Asked(x)' = Asked(x)
    BY <2>1, <2>2, LastOfTail DEF Asked
  <2>4. AskedEnough(x)' /\ TimerRuns(x)'
    BY <1>1, <1>2, <2>3 DEF Wakes, AskedEnough, TimerRuns, Going
  <2>5. QED
    BY <1>1, <1>2, <2>4 DEF Wakes, HiddenAsksNothing, ListenerAsks, ShowWillAsk, GoneIsDue, Going, Showing
<1>5. QED
  BY <1>3, <1>4

LEMMA RelayoutWakes ==
  ASSUME WakeInv, NEW w \in Windows, Relayout(w), NEW x \in Windows
  PROVE  Wakes(x)'
<1>1. TypeOK /\ Wakes(x)
  BY DEF WakeInv, IInv
<1>2. UNCHANGED <<srvReq, vsyncEnabled, appVisible, appReq, vsyncEvents, calling, toApp, toServer>>
  BY DEF Relayout
<1>3. CASE x # w
  <2>1. UNCHANGED <<visibility[x], answer[x]>>
    BY <1>1, <1>3 DEF Relayout, TypeOK
  <2>2. QED
    BY <1>1, <1>2, <2>1, WakesKept
<1>4. CASE x = w
  <2>1. visibility'[x] = IF appVisible[x] THEN "visible" ELSE "gone"
    BY <1>1, <1>4 DEF Relayout, TypeOK
  <2>2. GoneIsDue(x)'
    BY <1>2, <2>1 DEF GoneIsDue, Going
  <2>3. QED
    BY <1>1, <1>2, <2>2 DEF Wakes, HiddenAsksNothing, ListenerAsks, ShowWillAsk, AskedEnough, TimerRuns,
                            Asked, Going, Showing
<1>5. QED
  BY <1>3, <1>4

-----------------------------------------------------------------------------
(* Steps of an app *)

LEMMA ReturnWakes ==
  ASSUME WakeInv, NEW w \in Windows, RelayoutReturns(w), NEW x \in Windows
  PROVE  Wakes(x)'
<1>1. TypeOK /\ Wakes(x) /\ Wakes(w) /\ appReq[w] \in VsyncRequest /\ vsyncEvents[w] \in BOOLEAN
  BY DEF WakeInv, IInv, TypeOK
<1>2. UNCHANGED <<visibility, srvReq, vsyncEnabled, appVisible, vsyncEvents, toApp>>
  BY DEF RelayoutReturns, srvVars
<1>3. /\ \A z \in Windows \ {w} : UNCHANGED <<calling[z], answer[z]>>
      /\ calling'[w] = "none" /\ answer[w] # "none"
  BY <1>1 DEF RelayoutReturns, TypeOK
<1>4. visibility[w] = "gone" => Going(w)
  BY <1>1, <1>3 DEF Wakes, GoneIsDue
<1>5. CASE calling[w] = "setVisible" /\ appVisible[w]
  <2> DEFINE new == IF vsyncEvents[w] THEN Periodic ELSE Single
  <2>1. Request(w, Single, appReq[w], vsyncEvents[w])
    BY <1>5 DEF RelayoutReturns
  <2>2. /\ \A z \in Windows \ {w} : appReq'[z] = appReq[z] /\ toServer'[z] = toServer[z]
        /\ appReq'[w] = new
        /\ new # appReq[w] => toServer'[w] # << >> /\ Asked(w)' = new
        /\ new = appReq[w] => toServer'[w] = toServer[w] /\ Asked(w)' = Asked(w)
    BY <1>1, <1>2, <1>5, <2>1, RequestSent, Requests
  <2>3. CASE x # w
    BY <1>1, <1>2, <1>3, <2>2, <2>3, WakesKept
  <2>4. CASE x = w
    <3>1. new \in VsyncRequest /\ Counted(new, toApp[w]) <= new
      BY CountedTyped, Requests
    <3>2. AskedEnough(w)'
      BY <1>1, <1>2, <2>2, <3>1, Requests DEF Wakes, AskedEnough, Going
    <3>3. TimerRuns(w)'
      BY <1>1, <1>2, <1>5, <2>2 DEF Wakes, ShowWillAsk, TimerRuns, Showing
    <3>4. QED
      BY <1>1, <1>2, <1>3, <1>4, <1>5, <2>2, <2>4, <3>2, <3>3
         DEF Wakes, HiddenAsksNothing, ListenerAsks, ShowWillAsk, GoneIsDue, Going, Showing
  <2>5. QED
    BY <2>3, <2>4
<1>6. CASE calling[w] = "setVisible" /\ ~appVisible[w]
  <2>1. appReq'[w] = None /\ toServer' = toServer /\ \A z \in Windows \ {w} : appReq'[z] = appReq[z]
    BY <1>1, <1>6 DEF RelayoutReturns, TypeOK
  <2>2. CASE x # w
    BY <1>1, <1>2, <1>3, <2>1, <2>2, WakesKept
  <2>3. CASE x = w
    BY <1>1, <1>2, <1>3, <1>4, <1>6, <2>1, <2>3
       DEF Wakes, HiddenAsksNothing, ListenerAsks, ShowWillAsk, GoneIsDue, AskedEnough, TimerRuns, Going, Showing
  <2>4. QED
    BY <2>2, <2>3
<1>7. CASE calling[w] # "setVisible"
  <2>1. appReq' = appReq /\ toServer' = toServer
    BY <1>7 DEF RelayoutReturns
  <2>2. CASE x # w
    BY <1>1, <1>2, <1>3, <2>1, <2>2, WakesKept
  <2>3. CASE x = w
    BY <1>1, <1>2, <1>3, <1>4, <1>7, <2>1, <2>3
       DEF Wakes, HiddenAsksNothing, ListenerAsks, ShowWillAsk, GoneIsDue, AskedEnough, TimerRuns, Asked,
           Going, Showing
  <2>4. QED
    BY <2>2, <2>3
<1>8. QED
  BY <1>5, <1>6, <1>7

(* The app takes the next call. *)
LEMMA Took ==
  ASSUME TypeOK, NEW w \in Windows, NEW call \in Calls, Received(w, call)
  PROVE  /\ calling[w] = "none"
         /\ \A z \in Windows \ {w} : toApp'[z] = toApp[z]
         /\ \A r \in VsyncRequest :
              /\ call = "frame" => Counted(NextVsyncState(r), toApp'[w]) = Counted(r, toApp[w])
              /\ call # "frame" => Counted(r, toApp'[w]) = Counted(r, toApp[w])
         /\ Hides(toApp[w]) <=> call = "hide" \/ Hides(toApp'[w])
<1>1. toApp[w] \in Seq(Calls) /\ toApp[w] # << >> /\ Head(toApp[w]) = call
  BY DEF Received, TypeOK, Calls
<1>2. toApp'[w] = Tail(toApp[w]) /\ \A z \in Windows \ {w} : toApp'[z] = toApp[z]
  BY DEF Received, TypeOK
<1>3. ASSUME NEW r \in VsyncRequest
      PROVE  /\ call = "frame" => Counted(NextVsyncState(r), toApp'[w]) = Counted(r, toApp[w])
             /\ call # "frame" => Counted(r, toApp'[w]) = Counted(r, toApp[w])
             /\ Hides(toApp[w]) <=> call = "hide" \/ Hides(toApp'[w])
  BY <1>1, <1>2, CountedTail
<1>4. calling[w] = "none"
  BY DEF Received, Idle
<1>5. Hides(toApp[w]) <=> call = "hide" \/ Hides(toApp'[w])
  BY <1>3, Requests
<1>6. QED
  BY <1>2, <1>3, <1>4, <1>5, Zenon

LEMMA SetVisibleWakes ==
  ASSUME WakeInv, NEW w \in Windows, NEW v \in BOOLEAN, SetVisible(w, v), NEW x \in Windows
  PROVE  Wakes(x)'
<1>1. TypeOK /\ Wakes(x) /\ Wakes(w) /\ appReq[w] \in VsyncRequest /\ vsyncEvents[w] \in BOOLEAN
  BY DEF WakeInv, IInv, TypeOK
<1>2. UNCHANGED <<visibility, srvReq, vsyncEnabled, vsyncEvents, answer>>
  BY DEF SetVisible, srvVars
<1>3. /\ calling[w] = "none" /\ calling'[w] = "setVisible" /\ appVisible'[w] = v /\ v # appVisible[w]
      /\ \A z \in Windows \ {w} : UNCHANGED <<calling[z], appVisible[z], toApp[z]>>
  BY <1>1, Took DEF SetVisible, Calls, TypeOK, Received, Idle
<1>4. CASE appReq' = appReq /\ toServer' = toServer
  <2>1. CASE x # w
    BY <1>1, <1>2, <1>3, <1>4, <2>1, WakesKept
  <2>2. CASE x = w /\ v
    <3>1. appReq[w] = None /\ answer[w] = "none"
      BY <1>1, <1>3, <2>2 DEF Wakes, HiddenAsksNothing, Showing, WakeInv, IInv, NoAnswerYet
    <3>2. AskedEnough(w)'
      <4>1. Asked(w)' = Asked(w) /\ Asked(w) \in VsyncRequest
        BY <1>1, <1>2, <1>4, AskedTyped DEF Asked
      <4>2. Counted(appReq[w], toApp'[w]) = None
        BY <3>1, CountedNone
      <4>3. QED
        BY <1>4, <4>1, <4>2, Requests DEF AskedEnough
    <3>3. QED
      BY <1>1, <1>2, <1>3, <1>4, <2>2, <3>1, <3>2, Requests
         DEF Wakes, HiddenAsksNothing, ListenerAsks, ShowWillAsk, GoneIsDue, TimerRuns, Showing
  <2>3. CASE x = w /\ ~v
    BY <1>1, <1>2, <1>3, <1>4, <2>3
       DEF Wakes, HiddenAsksNothing, ListenerAsks, ShowWillAsk, GoneIsDue, AskedEnough, TimerRuns, Going, Showing
  <2>4. QED
    BY <2>1, <2>2, <2>3
<1>5. ASSUME NEW freq \in {SingleSuppress, Periodic}, v, Request(w, freq, appReq[w], vsyncEvents[w])
      PROVE  Wakes(x)'
  <2> DEFINE new == IF vsyncEvents[w] THEN Periodic ELSE freq
  <2>1. appReq[w] = None /\ answer[w] = "none"
    BY <1>1, <1>3, <1>5 DEF Wakes, HiddenAsksNothing, Showing, WakeInv, IInv, NoAnswerYet
  <2>2. freq \in VsyncRequest /\ new \in VsyncRequest /\ new # None /\ (~vsyncEvents[w] => new # Single)
    BY Requests
  <2>3. /\ \A z \in Windows \ {w} : appReq'[z] = appReq[z] /\ toServer'[z] = toServer[z]
        /\ appReq'[w] = new /\ Asked(w)' = new
    <3>1. appVisible'[w] /\ appReq[w] # new
      BY <1>3, <1>5, <2>1, <2>2, Zenon
    <3>2. QED
      BY <1>1, <1>2, <1>5, <2>2, <3>1, RequestSent
  <2>4. CASE x # w
    BY <1>1, <1>2, <1>3, <2>3, <2>4, WakesKept
  <2>5. CASE x = w
    <3>1. AskedEnough(w)'
      BY <2>2, <2>3, CountedTyped, Requests DEF AskedEnough
    <3>2. QED
      BY <1>1, <1>2, <1>3, <1>5, <2>1, <2>2, <2>3, <2>5, <3>1
         DEF Wakes, HiddenAsksNothing, ListenerAsks, ShowWillAsk, GoneIsDue, TimerRuns, Showing
  <2>6. QED
    BY <2>4, <2>5
<1>6. QED
  BY <1>4, <1>5 DEF SetVisible

LEMMA AlreadyWakes ==
  ASSUME WakeInv, NEW w \in Windows, SetVisibleAlready(w), NEW x \in Windows
  PROVE  Wakes(x)'
<1>1. TypeOK /\ Wakes(x) /\ appReq[w] \in VsyncRequest
  BY DEF WakeInv, IInv, TypeOK
<1>2. UNCHANGED <<visibility, srvReq, vsyncEnabled, appVisible, appReq, vsyncEvents, calling, answer, toServer>>
  BY DEF SetVisibleAlready, srvVars, appVars
<1>3. /\ \A z \in Windows \ {w} : toApp'[z] = toApp[z]
      /\ Counted(appReq[w], toApp'[w]) = Counted(appReq[w], toApp[w])
      /\ appVisible[w] => (Hides(toApp[w]) <=> Hides(toApp'[w]))
  BY <1>1, Took DEF SetVisibleAlready, Calls
<1>4. CASE x # w
  BY <1>1, <1>2, <1>3, <1>4, WakesKept
<1>5. CASE x = w
  <2>1. Going(w) <=> Going(w)'
    BY <1>2, <1>3 DEF Going
  <2>2. AskedEnough(w)' /\ TimerRuns(w)'
    BY <1>1, <1>2, <1>3, <1>5, <2>1 DEF Wakes, AskedEnough, TimerRuns, Asked, Showing
  <2>3. QED
    BY <1>1, <1>2, <1>5, <2>1, <2>2 DEF Wakes, HiddenAsksNothing, ListenerAsks, ShowWillAsk, GoneIsDue, Showing
<1>6. QED
  BY <1>4, <1>5

(* A frame is counted down when it is taken, which was foreseen. *)
LEMMA FrameWakes ==
  ASSUME WakeInv, NEW w \in Windows, OnFrame(w) \/ OnFrameNoSurface(w), NEW x \in Windows
  PROVE  Wakes(x)'
<1>1. TypeOK /\ Wakes(x) /\ appReq[w] \in VsyncRequest
  BY DEF WakeInv, IInv, TypeOK
<1>2. UNCHANGED <<visibility, srvReq, vsyncEnabled, appVisible, vsyncEvents, answer, toServer>>
  BY DEF OnFrame, OnFrameNoSurface, srvVars
<1>3. /\ Received(w, "frame")
      /\ appReq'[w] = NextVsyncState(appReq[w])
      /\ \A z \in Windows \ {w} : UNCHANGED <<appReq[z], calling[z]>>
      /\ calling'[w] # "setVisible"
  BY <1>1 DEF OnFrame, OnFrameNoSurface, TypeOK, Received, Idle
<1>4. /\ calling[w] = "none"
      /\ \A z \in Windows \ {w} : toApp'[z] = toApp[z]
      /\ Counted(appReq'[w], toApp'[w]) = Counted(appReq[w], toApp[w])
      /\ Hides(toApp[w]) <=> Hides(toApp'[w])
  BY <1>1, <1>3, Took DEF Calls
<1>5. CASE x # w
  BY <1>1, <1>2, <1>3, <1>4, <1>5, WakesKept
<1>6. CASE x = w
  <2>1. (Going(w) <=> Going(w)') /\ ~Showing(w) /\ ~Showing(w)'
    BY <1>2, <1>3, <1>4 DEF Going, Showing
  <2>2. AskedEnough(w)' /\ TimerRuns(w)'
    BY <1>1, <1>2, <1>4, <1>6, <2>1 DEF Wakes, AskedEnough, TimerRuns, Asked
  <2>3. HiddenAsksNothing(w)' /\ ListenerAsks(w)' /\ ShowWillAsk(w)'
    BY <1>1, <1>2, <1>3, <1>6, <2>1, Requests DEF Wakes, HiddenAsksNothing, ListenerAsks, ShowWillAsk
  <2>4. GoneIsDue(w)'
    BY <1>1, <1>2, <1>6, <2>1 DEF Wakes, GoneIsDue
  <2>5. QED
    BY <1>6, <2>2, <2>3, <2>4 DEF Wakes
<1>7. QED
  BY <1>5, <1>6

LEMMA NoBufferWakes ==
  ASSUME WakeInv, NEW w \in Windows, OnFrameNoBuffer(w), NEW x \in Windows
  PROVE  Wakes(x)'
<1> DEFINE req == NextVsyncState(appReq[w])
<1>1. TypeOK /\ Wakes(x) /\ Wakes(w) /\ appReq[w] \in VsyncRequest /\ req \in VsyncRequest
      /\ vsyncEvents[w] \in BOOLEAN
  BY Requests DEF WakeInv, IInv, TypeOK
<1>2. /\ UNCHANGED <<visibility, srvReq, vsyncEnabled, appVisible, vsyncEvents, calling, answer>>
      /\ Received(w, "frame") /\ appVisible[w]
  BY DEF OnFrameNoBuffer, srvVars
<1>3. /\ calling[w] = "none"
      /\ \A z \in Windows \ {w} : toApp'[z] = toApp[z]
      /\ Counted(req, toApp'[w]) = Counted(appReq[w], toApp[w])
      /\ Hides(toApp[w]) <=> Hides(toApp'[w])
  BY <1>1, <1>2, Took DEF Calls
<1>4. (Going(w) <=> Going(w)') /\ ~Showing(w) /\ ~Showing(w)'
  BY <1>2, <1>3 DEF Going, Showing
<1>5. CASE req = Periodic
  <2>1. appReq' = appReq /\ toServer' = toServer /\ appReq[w] = req
    BY <1>1, <1>5, Requests DEF OnFrameNoBuffer
  <2>2. CASE x # w
    BY <1>1, <1>2, <1>3, <2>1, <2>2, WakesKept
  <2>3. CASE x = w
    <3>1. AskedEnough(w)' /\ TimerRuns(w)'
      BY <1>1, <1>2, <1>3, <1>4, <2>1 DEF Wakes, AskedEnough, TimerRuns, Asked
    <3>2. QED
      BY <1>1, <1>2, <1>4, <2>1, <2>3, <3>1
         DEF Wakes, HiddenAsksNothing, ListenerAsks, ShowWillAsk, GoneIsDue, Showing
  <2>4. QED
    BY <2>2, <2>3
<1>6. CASE req # Periodic
  <2>1. ~vsyncEvents[w]
    BY <1>1, <1>2, <1>4, <1>6, Requests DEF Wakes, ListenerAsks
  <2>2. Request(w, SingleSuppress, req, vsyncEvents[w])
    BY <1>6 DEF OnFrameNoBuffer
  <2>3. /\ \A z \in Windows \ {w} : appReq'[z] = appReq[z] /\ toServer'[z] = toServer[z]
        /\ appReq'[w] = SingleSuppress
        /\ SingleSuppress # req => toServer'[w] # << >> /\ Asked(w)' = SingleSuppress
        /\ SingleSuppress = req => toServer'[w] = toServer[w] /\ Asked(w)' = Asked(w)
    BY <1>1, <1>2, <2>1, <2>2, RequestSent, Requests
  <2>4. CASE x # w
    BY <1>1, <1>2, <1>3, <2>3, <2>4, WakesKept
  <2>5. CASE x = w
    <3>1. AskedEnough(w)'
      <4>1. CASE SingleSuppress # req
        BY <2>3, <4>1, CountedTyped, Requests DEF AskedEnough
      <4>2. CASE SingleSuppress = req
        BY <1>1, <1>3, <1>4, <2>3, <4>2 DEF Wakes, AskedEnough
      <4>3. QED
        BY <4>1, <4>2
    <3>2. TimerRuns(w)'
      <4>1. CASE SingleSuppress # req
        BY <2>3, <4>1 DEF TimerRuns
      <4>2. CASE SingleSuppress = req
        BY <1>1, <1>2, <1>3, <1>4, <2>3, <4>2 DEF Wakes, TimerRuns
      <4>3. QED
        BY <4>1, <4>2
    <3>3. QED
      BY <1>1, <1>2, <1>4, <2>1, <2>3, <2>5, <3>1, <3>2
         DEF Wakes, HiddenAsksNothing, ListenerAsks, ShowWillAsk, GoneIsDue, Showing
  <2>6. QED
    BY <2>4, <2>5
<1>7. QED
  BY <1>5, <1>6

(* LVGL asks for a frame, or begins or ends to listen. *)
LEMMA AskWakes ==
  ASSUME WakeInv, NEW w \in Windows, OnInvalidate(w) \/ OnFBVsyncRequest(w), NEW x \in Windows
  PROVE  Wakes(x)'
<1>1. TypeOK /\ Wakes(x) /\ Wakes(w) /\ appReq[w] \in VsyncRequest /\ vsyncEvents[w] \in BOOLEAN
  BY DEF WakeInv, IInv, TypeOK
<1>2. /\ UNCHANGED <<visibility, srvReq, vsyncEnabled, appVisible, calling, answer, toApp>>
      /\ calling[w] = "none"
  BY DEF OnInvalidate, OnFBVsyncRequest, srvVars, Idle
<1>3. PICK freq \in {SingleSuppress, Periodic} :
         /\ Request(w, freq, appReq[w], vsyncEvents'[w])
         /\ vsyncEvents'[w] # vsyncEvents[w] => freq = IF vsyncEvents'[w] THEN Periodic ELSE SingleSuppress
  BY DEF OnInvalidate, OnFBVsyncRequest
<1>4. vsyncEvents'[w] \in BOOLEAN /\ \A z \in Windows \ {w} : vsyncEvents'[z] = vsyncEvents[z]
  BY <1>1 DEF OnInvalidate, OnFBVsyncRequest, TypeOK
<1> DEFINE new == IF vsyncEvents'[w] THEN Periodic ELSE freq
<1>5. freq \in VsyncRequest /\ new \in VsyncRequest
  BY Requests
<1>6. /\ \A z \in Windows \ {w} : appReq'[z] = appReq[z] /\ toServer'[z] = toServer[z]
      /\ ~appVisible[w] => appReq'[w] = appReq[w] /\ toServer'[w] = toServer[w]
      /\ appVisible[w] => appReq'[w] = new
      /\ appVisible[w] /\ new # appReq[w] => toServer'[w] # << >> /\ Asked(w)' = new
      /\ appVisible[w] /\ new = appReq[w] => toServer'[w] = toServer[w] /\ Asked(w)' = Asked(w)
  BY <1>1, <1>2, <1>3, <1>4, <1>5, RequestSent
<1>7. CASE x # w
  BY <1>1, <1>2, <1>4, <1>6, <1>7, WakesKept
<1>8. CASE x = w /\ ~appVisible[w]
  BY <1>1, <1>2, <1>6, <1>8
     DEF Wakes, HiddenAsksNothing, ListenerAsks, ShowWillAsk, GoneIsDue, AskedEnough, TimerRuns, Going, Showing
<1>9. CASE x = w /\ appVisible[w]
  <2>1. AskedEnough(w)'
    <3>1. CASE new # appReq[w]
      BY <1>5, <1>6, <1>9, <3>1, CountedTyped, Requests DEF AskedEnough
    <3>2. CASE new = appReq[w]
      BY <1>1, <1>2, <1>6, <1>9, <3>2 DEF Wakes, AskedEnough, Going
    <3>3. QED
      BY <3>1, <3>2
  <2>2. TimerRuns(w)'
    <3>1. CASE new # appReq[w]
      BY <1>6, <1>9, <3>1 DEF TimerRuns
    <3>2. CASE new = appReq[w]
      <4>1. vsyncEvents'[w] = vsyncEvents[w] \/ vsyncEvents'[w]
        <5>1. ASSUME ~vsyncEvents'[w], vsyncEvents[w] PROVE FALSE
          <6>1. new = SingleSuppress
            BY <1>3, <5>1
          <6>2. appReq[w] = Periodic
            BY <1>1, <1>2, <1>9, <5>1 DEF Wakes, ListenerAsks, Showing
          <6>3. QED
            BY <3>2, <6>1, <6>2, Requests
        <5>2. QED
          BY <1>1, <1>4, <5>1
      <4>2. QED
        BY <1>1, <1>2, <1>6, <1>9, <3>2, <4>1 DEF Wakes, TimerRuns, Going, Showing
    <3>3. QED
      BY <3>1, <3>2
  <2>3. QED
    BY <1>1, <1>2, <1>6, <1>9, <2>1, <2>2
       DEF Wakes, HiddenAsksNothing, ListenerAsks, ShowWillAsk, GoneIsDue, Going, Showing
<1>10. QED
  BY <1>7, <1>8, <1>9

-----------------------------------------------------------------------------

LEMMA NextWakes ==
  ASSUME NoHold, WakeInv, [Next]_vars, NEW x \in Windows
  PROVE  Wakes(x)'
<1>1. ASSUME NEW v \in Visibilities, UpdateTokenVisibility(v) PROVE Wakes(x)'
  BY <1>1, UpdateWakes
<1>2. CASE ResponseVsync
  BY <1>2, ResponseWakes
<1>3. ASSUME NEW w \in Windows, ScheduleVsync(w) PROVE Wakes(x)'
  BY <1>3, ScheduleWakes
<1>4. ASSUME NEW w \in Windows, Relayout(w) PROVE Wakes(x)'
  BY <1>4, RelayoutWakes
<1>5. ASSUME NEW w \in Windows, RelayoutReturns(w) PROVE Wakes(x)'
  BY <1>5, ReturnWakes
<1>6. ASSUME NEW w \in Windows, HandleCall(w) PROVE Wakes(x)'
  BY <1>6, SetVisibleWakes, AlreadyWakes, FrameWakes, NoBufferWakes DEF HandleCall
<1>7. ASSUME NEW w \in Windows, OnInvalidate(w) \/ OnFBVsyncRequest(w) PROVE Wakes(x)'
  BY <1>7, AskWakes
<1>8. CASE UNCHANGED vars
  BY <1>8, WakesKept DEF WakeInv, vars, srvVars, appVars
<1>9. QED
  BY <1>1, <1>2, <1>3, <1>4, <1>5, <1>6, <1>7, <1>8 DEF Next

LEMMA InitWakes == Init => WakeInv
<1> SUFFICES ASSUME Init PROVE WakeInv
  OBVIOUS
<1>1. IInv
  BY InitIInv
<1>2. ASSUME NEW w \in Windows PROVE Wakes(w)
  BY <1>2, Requests
     DEF Init, Wakes, HiddenAsksNothing, ListenerAsks, ShowWillAsk, GoneIsDue, AskedEnough, TimerRuns,
         Going, Showing
<1>3. QED
  BY <1>1, <1>2 DEF WakeInv

(***************************************************************************)
(* A window that waits for a frame is known to the server to wait for it,  *)
(* and the timer that all windows share runs, for any number of windows    *)
(* and of calls on their way, if nothing is put on HOLD.                   *)
(***************************************************************************)
THEOREM NoWakeupIsLost ==
  ASSUME NoHold
  PROVE  Spec => []NoLostWakeup
<1>1. Init => WakeInv
  BY InitWakes
<1>2. WakeInv /\ [Next]_vars => WakeInv'
  BY NextWakes, NextIInv DEF WakeInv
<1>3. WakeInv => NoLostWakeup
  <2> SUFFICES ASSUME WakeInv, NEW w \in Windows, Settled(w), appVisible[w], appReq[w] # None
               PROVE  /\ srvReq[w] >= appReq[w] /\ visibility[w] # "gone"
                      /\ vsyncEnabled \/ vsyncEvents[w]
    BY DEF NoLostWakeup
  <2>1. Wakes(w) /\ toApp[w] = << >> /\ toServer[w] = << >> /\ calling[w] = "none"
    BY DEF WakeInv, Settled
  <2>2. ~Going(w) /\ ~Showing(w) /\ Counted(appReq[w], toApp[w]) = appReq[w] /\ Asked(w) = srvReq[w]
    BY <2>1 DEF Going, Showing, Hides, Counted, OneFrame, TwoFrames, Asked
  <2>3. QED
    BY <2>1, <2>2 DEF Wakes, GoneIsDue, AskedEnough, TimerRuns
<1>4. QED
  BY <1>1, <1>2, <1>3, PTL DEF Spec

-----------------------------------------------------------------------------
(* Periodic requests *)

ToBeShown(calls) == \E i \in 1 .. Len(calls) : calls[i] = "show"

(* What the server sends a hidden app for every frame ends with relayout, or the app is about to be shown. *)
HiddenStops(w) ==
  Asked(w) = Periodic /\ ~appVisible[w] /\ ~(Showing(w) /\ answer[w] = "none")
    => visibility[w] = "gone" \/ ToBeShown(toApp[w])

ShownKeeps(w) == Asked(w) = Periodic /\ appVisible[w] => appReq[w] = Periodic \/ Showing(w)

Wanted(w) == HiddenStops(w) /\ ShownKeeps(w)

WantedInv == WakeInv /\ \A w \in Windows : Wanted(w)

LEMMA WantedKept ==
  ASSUME NEW x \in Windows, Wanted(x),
         UNCHANGED <<appVisible[x], answer[x]>>,
         Asked(x)' = Periodic => Asked(x) = Periodic,
         appReq[x] = Periodic => appReq'[x] = Periodic,
         Showing(x) => Showing(x)',
         visibility[x] = "gone" => visibility'[x] = "gone" \/ ToBeShown(toApp'[x]),
         ~appVisible[x] /\ ToBeShown(toApp[x]) => ToBeShown(toApp'[x])
  PROVE  Wanted(x)'
<1>1. HiddenStops(x)'
  BY DEF Wanted, HiddenStops
<1>2. ShownKeeps(x)'
  BY DEF Wanted, ShownKeeps
<1>3. QED
  BY <1>1, <1>2 DEF Wanted

LEMMA NothingNew ==
  ASSUME NEW x \in Windows, Wanted(x),
         UNCHANGED <<visibility[x], srvReq[x], appVisible[x], appReq[x], calling[x], answer[x],
                     toApp[x], toServer[x]>>
  PROVE  Wanted(x)'
BY DEF Wanted, HiddenStops, ShownKeeps, Asked, Showing, ToBeShown

LEMMA ShowAdded ==
  ASSUME NEW calls \in Seq(Calls), NEW call \in Calls
  PROVE  /\ ToBeShown(calls) => ToBeShown(Append(calls, call))
         /\ call = "show" => ToBeShown(Append(calls, call))
<1> DEFINE more == Append(calls, call)
<1>1. /\ Len(calls) \in Nat /\ Len(more) = Len(calls) + 1
      /\ \A i \in 1 .. Len(calls) : more[i] = calls[i]
      /\ more[Len(more)] = call
  OBVIOUS
<1> HIDE DEF more
<1>2. QED
  BY <1>1 DEF ToBeShown, more

LEMMA ShowLeft ==
  ASSUME NEW calls \in Seq(Calls), calls # << >>, Head(calls) # "show", ToBeShown(calls)
  PROVE  ToBeShown(Tail(calls))
<1> DEFINE rest == Tail(calls)
<1>1. /\ Len(calls) \in Nat /\ Len(calls) >= 1 /\ Len(rest) = Len(calls) - 1
      /\ Head(calls) = calls[1]
      /\ \A i \in 1 .. Len(rest) : rest[i] = calls[i + 1]
  OBVIOUS
<1> HIDE DEF rest
<1>2. PICK i \in 1 .. Len(calls) : calls[i] = "show"
  BY DEF ToBeShown
<1>3. i - 1 \in 1 .. Len(rest) /\ rest[i - 1] = "show"
  BY <1>1, <1>2
<1>4. QED
  BY <1>3 DEF ToBeShown, rest

LEMMA UpdateWanted ==
  ASSUME NoHold, WantedInv, NEW v \in Visibilities, UpdateTokenVisibility(v), NEW x \in Windows
  PROVE  Wanted(x)'
<1>1. TypeOK /\ Wanted(x) /\ v \in {"visible", "gone"} /\ srvReq[x] \in VsyncRequest /\ toApp[x] \in Seq(Calls)
  BY DEF WantedInv, WakeInv, IInv, NoHold, TypeOK, Calls
<1>2. UNCHANGED <<appVisible[x], appReq[x], calling[x], answer[x], toServer[x]>>
  BY DEF UpdateTokenVisibility, appVars
<1>3. CASE x \notin Told(v)
  <2>1. UNCHANGED <<visibility[x], srvReq[x], toApp[x]>>
    BY <1>3 DEF UpdateTokenVisibility
  <2>2. QED
    BY <1>1, <1>2, <2>1, NothingNew
<1>4. CASE x \in Told(v)
  <2>1. /\ visibility'[x] = v /\ srvReq'[x] = RequestWith(v, srvReq[x])
        /\ toApp'[x] = toApp[x] \o CallFor(v)
    BY <1>4 DEF UpdateTokenVisibility
  <2>2. srvReq'[x] = Periodic => srvReq[x] = Periodic
    BY <1>1, <2>1, Requests DEF RequestWith
  <2>3. Asked(x)' = Periodic => Asked(x) = Periodic
    BY <1>2, <2>2 DEF Asked
  <2>4. visibility'[x] = "gone" \/ ToBeShown(toApp'[x])
    <3>1. CASE v = "gone"
      BY <2>1, <3>1
    <3>2. CASE v = "visible"
      <4>1. toApp'[x] = Append(toApp[x], "show")
        BY <1>1, <2>1, <3>2 DEF CallFor
      <4>2. QED
        BY <1>1, <4>1, ShowAdded DEF Calls
    <3>3. QED
      BY <1>1, <3>1, <3>2
  <2>5. HiddenStops(x)'
    BY <2>4 DEF HiddenStops
  <2>6. ShownKeeps(x)'
    BY <1>1, <1>2, <2>3 DEF Wanted, ShownKeeps, Showing
  <2>7. QED
    BY <2>5, <2>6 DEF Wanted
<1>5. QED
  BY <1>3, <1>4

LEMMA ResponseWanted ==
  ASSUME WantedInv, ResponseVsync, NEW x \in Windows
  PROVE  Wanted(x)'
<1>1. TypeOK /\ Wanted(x) /\ srvReq[x] \in VsyncRequest /\ toApp[x] \in Seq(Calls)
  BY DEF WantedInv, WakeInv, IInv, TypeOK, Calls
<1>2. UNCHANGED <<visibility[x], appVisible[x], appReq[x], calling[x], answer[x], toServer[x]>>
  BY DEF ResponseVsync, appVars
<1>3. /\ srvReq'[x] \in {srvReq[x], NextVsyncState(srvReq[x])}
      /\ toApp'[x] \in {toApp[x], Append(toApp[x], "frame")}
  BY DEF ResponseVsync, OnVsync
<1>4. srvReq'[x] = Periodic => srvReq[x] = Periodic
  BY <1>1, <1>3, Requests
<1>5. Asked(x)' = Periodic => Asked(x) = Periodic
  BY <1>2, <1>4 DEF Asked
<1>6. ToBeShown(toApp[x]) => ToBeShown(toApp'[x])
  BY <1>1, <1>3, ShowAdded DEF Calls
<1>7. QED
  BY <1>1, <1>2, <1>5, <1>6, WantedKept DEF Showing

LEMMA ScheduleWanted ==
  ASSUME WantedInv, NEW w \in Windows, ScheduleVsync(w), NEW x \in Windows
  PROVE  Wanted(x)'
<1>1. TypeOK /\ Wanted(x)
  BY DEF WantedInv, WakeInv, IInv
<1>2. UNCHANGED <<visibility, appVisible, appReq, calling, answer, toApp>>
  BY DEF ScheduleVsync, appVars
<1>3. CASE x # w
  <2>1. UNCHANGED <<srvReq[x], toServer[x]>>
    BY <1>1, <1>3 DEF ScheduleVsync, TypeOK
  <2>2. QED
    BY <1>1, <1>2, <2>1, NothingNew
<1>4. CASE x = w
  <2>1. toServer[x] \in Seq(VsyncRequest) /\ toServer[x] # << >>
    BY <1>1, <1>4 DEF ScheduleVsync, TypeOK
  <2>2. srvReq'[x] = Head(toServer[x]) /\ toServer'[x] = Tail(toServer[x])
    BY <1>1, <1>4 DEF ScheduleVsync, TypeOK
  <2>3. Asked(x)' = Asked(x)
    BY <2>1, <2>2, LastOfTail DEF Asked
  <2>4. QED
    BY <1>1, <1>2, <2>3, WantedKept DEF Showing
<1>5. QED
  BY <1>3, <1>4

(* The relayout of a window that was hidden is what ends its request. *)
LEMMA RelayoutWanted ==
  ASSUME WantedInv, NEW w \in Windows, Relayout(w), NEW x \in Windows
  PROVE  Wanted(x)'
<1>1. TypeOK /\ Wanted(x)
  BY DEF WantedInv, WakeInv, IInv
<1>2. UNCHANGED <<srvReq, appVisible, appReq, calling, toApp, toServer>>
  BY DEF Relayout
<1>3. CASE x # w
  <2>1. UNCHANGED <<visibility[x], answer[x]>>
    BY <1>1, <1>3 DEF Relayout, TypeOK
  <2>2. QED
    BY <1>1, <1>2, <2>1, NothingNew
<1>4. CASE x = w
  <2>1. visibility'[x] = IF appVisible[x] THEN "visible" ELSE "gone"
    BY <1>1, <1>4 DEF Relayout, TypeOK
  <2>2. HiddenStops(x)'
    BY <1>2, <2>1 DEF HiddenStops
  <2>3. ShownKeeps(x)'
    BY <1>1, <1>2 DEF Wanted, ShownKeeps, Asked, Showing
  <2>4. QED
    BY <2>2, <2>3 DEF Wanted
<1>5. QED
  BY <1>3, <1>4

LEMMA ReturnWanted ==
  ASSUME WantedInv, NEW w \in Windows, RelayoutReturns(w), NEW x \in Windows
  PROVE  Wanted(x)'
<1>1. TypeOK /\ Wanted(x) /\ Wakes(w) /\ appReq[w] \in VsyncRequest /\ vsyncEvents[w] \in BOOLEAN
  BY DEF WantedInv, WakeInv, IInv, TypeOK
<1>2. UNCHANGED <<visibility, srvReq, appVisible, vsyncEvents, toApp>>
  BY DEF RelayoutReturns, srvVars
<1>3. /\ \A z \in Windows \ {w} : UNCHANGED <<calling[z], answer[z]>>
      /\ answer[w] # "none"
  BY <1>1 DEF RelayoutReturns, TypeOK
<1>4. CASE calling[w] = "setVisible" /\ appVisible[w]
  <2> DEFINE new == IF vsyncEvents[w] THEN Periodic ELSE Single
  <2>1. Request(w, Single, appReq[w], vsyncEvents[w])
    BY <1>4 DEF RelayoutReturns
  <2>2. /\ \A z \in Windows \ {w} : appReq'[z] = appReq[z] /\ toServer'[z] = toServer[z]
        /\ appReq'[w] = new
        /\ new # appReq[w] => Asked(w)' = new
    BY <1>1, <1>2, <1>4, <2>1, RequestSent, Requests
  <2>3. CASE x # w
    BY <1>1, <1>2, <1>3, <2>2, <2>3, NothingNew
  <2>4. CASE x = w
    <3>1. ~vsyncEvents[w] => appReq[w] # Single
      BY <1>1, <1>4 DEF Wakes, ShowWillAsk, Showing
    <3>2. Asked(w)' = Periodic => appReq'[w] = Periodic
      BY <1>1, <2>2, <3>1
    <3>3. QED
      BY <1>2, <1>4, <2>4, <3>2 DEF Wanted, HiddenStops, ShownKeeps
  <2>5. QED
    BY <2>3, <2>4
<1>5. CASE calling[w] = "setVisible" /\ ~appVisible[w]
  <2>1. toServer' = toServer /\ \A z \in Windows \ {w} : appReq'[z] = appReq[z]
    BY <1>1, <1>5 DEF RelayoutReturns, TypeOK
  <2>2. CASE x # w
    BY <1>1, <1>2, <1>3, <2>1, <2>2, NothingNew
  <2>3. CASE x = w
    BY <1>1, <1>2, <1>3, <1>5, <2>1, <2>3 DEF Wanted, HiddenStops, ShownKeeps, Asked
  <2>4. QED
    BY <2>2, <2>3
<1>6. CASE calling[w] # "setVisible"
  <2>1. appReq' = appReq /\ toServer' = toServer
    BY <1>6 DEF RelayoutReturns
  <2>2. CASE x # w
    BY <1>1, <1>2, <1>3, <2>1, <2>2, NothingNew
  <2>3. CASE x = w
    BY <1>1, <1>2, <1>6, <2>1, <2>3 DEF Wanted, HiddenStops, ShownKeeps, Asked, Showing
  <2>4. QED
    BY <2>2, <2>3
<1>7. QED
  BY <1>4, <1>5, <1>6

LEMMA SetVisibleWanted ==
  ASSUME WantedInv, NEW w \in Windows, NEW v \in BOOLEAN, SetVisible(w, v), NEW x \in Windows
  PROVE  Wanted(x)'
<1>1. TypeOK /\ Wanted(x) /\ appReq[w] \in VsyncRequest /\ vsyncEvents[w] \in BOOLEAN /\ NoAnswerYet(w)
  BY DEF WantedInv, WakeInv, IInv, TypeOK
<1>2. UNCHANGED <<visibility, srvReq, answer>>
  BY DEF SetVisible, srvVars
<1>3. /\ calling[w] = "none" /\ calling'[w] = "setVisible"
      /\ \A z \in Windows \ {w} : UNCHANGED <<calling[z], appVisible[z], toApp[z]>>
  BY <1>1, Took DEF SetVisible, Calls, TypeOK
<1>4. \A z \in Windows \ {w} : appReq'[z] = appReq[z] /\ toServer'[z] = toServer[z]
  <2>1. CASE appReq' = appReq /\ toServer' = toServer
    BY <2>1
  <2>2. ASSUME NEW freq \in {SingleSuppress, Periodic}, Request(w, freq, appReq[w], vsyncEvents[w])
        PROVE  \A z \in Windows \ {w} : appReq'[z] = appReq[z] /\ toServer'[z] = toServer[z]
    BY <1>1, <1>2, <2>2, RequestSent, Requests
  <2>3. QED
    BY <2>1, <2>2 DEF SetVisible
<1>5. CASE x # w
  BY <1>1, <1>2, <1>3, <1>4, <1>5, NothingNew
<1>6. CASE x = w
  BY <1>1, <1>2, <1>3, <1>6 DEF Wanted, HiddenStops, ShownKeeps, Showing, NoAnswerYet
<1>7. QED
  BY <1>5, <1>6

(* A call that is taken and asks for nothing. *)
LEMMA TakenWanted ==
  ASSUME WantedInv, NEW w \in Windows, NEW call \in Calls, Received(w, call),
         UNCHANGED <<visibility, srvReq, appVisible, answer, toServer>>,
         \A z \in Windows \ {w} : UNCHANGED <<appReq[z], calling[z]>>,
         ~appVisible[w] => call # "show",
         appReq[w] = Periodic => appReq'[w] = Periodic,
         NEW x \in Windows
  PROVE  Wanted(x)'
<1>1. TypeOK /\ Wanted(x)
  BY DEF WantedInv, WakeInv, IInv
<1>2. calling[w] = "none" /\ \A z \in Windows \ {w} : toApp'[z] = toApp[z]
  BY <1>1, Took
<1>3. CASE x # w
  BY <1>1, <1>2, <1>3, NothingNew
<1>4. CASE x = w
  <2>1. toApp[w] \in Seq(Calls) /\ toApp[w] # << >> /\ Head(toApp[w]) = call /\ toApp'[w] = Tail(toApp[w])
    BY <1>1 DEF Received, TypeOK, Calls
  <2>2. ~appVisible[w] /\ ToBeShown(toApp[w]) => ToBeShown(toApp'[w])
    BY <2>1, ShowLeft
  <2>3. ~Showing(w) /\ Asked(w)' = Asked(w)
    BY <1>2 DEF Showing, Asked
  <2>4. QED
    BY <1>1, <1>4, <2>2, <2>3, WantedKept
<1>5. QED
  BY <1>3, <1>4

LEMMA AlreadyWanted ==
  ASSUME WantedInv, NEW w \in Windows, SetVisibleAlready(w), NEW x \in Windows
  PROVE  Wanted(x)'
<1>1. PICK call \in Calls : Received(w, call) /\ (~appVisible[w] => call # "show")
  BY DEF SetVisibleAlready, Calls
<1>2. UNCHANGED <<visibility, srvReq, appVisible, appReq, calling, answer, toServer>>
  BY DEF SetVisibleAlready, srvVars, appVars
<1>3. QED
  BY <1>1, <1>2, TakenWanted

LEMMA FrameWanted ==
  ASSUME WantedInv, NEW w \in Windows, OnFrame(w) \/ OnFrameNoSurface(w), NEW x \in Windows
  PROVE  Wanted(x)'
<1>1. TypeOK /\ Received(w, "frame")
  BY DEF WantedInv, WakeInv, IInv, OnFrame, OnFrameNoSurface
<1>2. UNCHANGED <<visibility, srvReq, appVisible, answer, toServer>>
  BY DEF OnFrame, OnFrameNoSurface, srvVars
<1>3. /\ appReq'[w] = NextVsyncState(appReq[w])
      /\ \A z \in Windows \ {w} : UNCHANGED <<appReq[z], calling[z]>>
  BY <1>1 DEF OnFrame, OnFrameNoSurface, TypeOK
<1>4. appReq[w] = Periodic => appReq'[w] = Periodic
  BY <1>3, Requests
<1>5. QED
  BY <1>1, <1>2, <1>3, <1>4, TakenWanted DEF Calls

(* A request of a shown window replaces what it asked for before. *)
LEMMA AskedWanted ==
  ASSUME TypeOK, NEW w \in Windows, Wanted(w), appVisible[w], calling'[w] = calling[w],
         appVisible'[w] = appVisible[w], NEW new \in VsyncRequest, NEW req \in VsyncRequest,
         appReq[w] = Periodic => req = Periodic,
         appReq'[w] = new,
         new # req => Asked(w)' = new,
         new = req => Asked(w)' = Asked(w)
  PROVE  Wanted(w)'
<1>1. Asked(w)' = Periodic => appReq'[w] = Periodic \/ Showing(w)'
  <2>1. CASE new # req
    BY <2>1
  <2>2. CASE new = req
    BY <2>2 DEF Wanted, ShownKeeps, Showing
  <2>3. QED
    BY <2>1, <2>2
<1>2. QED
  BY <1>1 DEF Wanted, HiddenStops, ShownKeeps

LEMMA NoBufferWanted ==
  ASSUME WantedInv, NEW w \in Windows, OnFrameNoBuffer(w), NEW x \in Windows
  PROVE  Wanted(x)'
<1> DEFINE req == NextVsyncState(appReq[w])
<1>1. /\ TypeOK /\ Wanted(x) /\ Wakes(w) /\ appReq[w] \in VsyncRequest /\ req \in VsyncRequest
      /\ vsyncEvents[w] \in BOOLEAN
  BY Requests DEF WantedInv, WakeInv, IInv, TypeOK
<1>2. /\ UNCHANGED <<visibility, srvReq, appVisible, vsyncEvents, calling, answer>>
      /\ Received(w, "frame") /\ appVisible[w]
  BY DEF OnFrameNoBuffer, srvVars
<1>3. CASE req = Periodic
  <2>1. appReq' = appReq /\ toServer' = toServer
    BY <1>1, <1>3, Requests DEF OnFrameNoBuffer
  <2>2. QED
    BY <1>2, <2>1, TakenWanted DEF Calls
<1>4. CASE req # Periodic
  <2> DEFINE new == IF vsyncEvents[w] THEN Periodic ELSE SingleSuppress
  <2>1. Request(w, SingleSuppress, req, vsyncEvents[w])
    BY <1>4 DEF OnFrameNoBuffer
  <2>2. /\ \A z \in Windows \ {w} : appReq'[z] = appReq[z] /\ toServer'[z] = toServer[z]
        /\ appReq'[w] = new
        /\ new # req => Asked(w)' = new
        /\ new = req => Asked(w)' = Asked(w)
    BY <1>1, <1>2, <2>1, RequestSent, Requests
  <2>3. CASE x # w
    <3>1. toApp'[x] = toApp[x]
      BY <1>1, <1>2, <2>3, Took DEF Calls
    <3>2. QED
      BY <1>1, <1>2, <2>2, <2>3, <3>1, NothingNew
  <2>4. CASE x = w
    <3>1. new \in VsyncRequest /\ (appReq[w] = Periodic => req = Periodic)
      BY Requests
    <3>2. QED
      BY <1>1, <1>2, <2>2, <2>4, <3>1, AskedWanted
  <2>5. QED
    BY <2>3, <2>4
<1>5. QED
  BY <1>3, <1>4

LEMMA AskWanted ==
  ASSUME WantedInv, NEW w \in Windows, OnInvalidate(w) \/ OnFBVsyncRequest(w), NEW x \in Windows
  PROVE  Wanted(x)'
<1>1. TypeOK /\ Wanted(x) /\ appReq[w] \in VsyncRequest /\ vsyncEvents[w] \in BOOLEAN
  BY DEF WantedInv, WakeInv, IInv, TypeOK
<1>2. UNCHANGED <<visibility, srvReq, appVisible, calling, answer, toApp>>
  BY DEF OnInvalidate, OnFBVsyncRequest, srvVars
<1>3. PICK freq \in {SingleSuppress, Periodic} : Request(w, freq, appReq[w], vsyncEvents'[w])
  BY DEF OnInvalidate, OnFBVsyncRequest
<1>4. vsyncEvents'[w] \in BOOLEAN
  BY <1>1 DEF OnInvalidate, OnFBVsyncRequest, TypeOK
<1> DEFINE new == IF vsyncEvents'[w] THEN Periodic ELSE freq
<1>5. freq \in VsyncRequest /\ new \in VsyncRequest
  BY Requests
<1>6. /\ \A z \in Windows \ {w} : appReq'[z] = appReq[z] /\ toServer'[z] = toServer[z]
      /\ ~appVisible[w] => appReq'[w] = appReq[w] /\ toServer'[w] = toServer[w]
      /\ appVisible[w] => appReq'[w] = new
      /\ appVisible[w] /\ new # appReq[w] => Asked(w)' = new
      /\ appVisible[w] /\ new = appReq[w] => Asked(w)' = Asked(w)
  BY <1>1, <1>2, <1>3, <1>4, <1>5, RequestSent
<1>7. CASE x # w \/ ~appVisible[w]
  BY <1>1, <1>2, <1>6, <1>7, NothingNew
<1>8. CASE x = w /\ appVisible[w]
  BY <1>1, <1>2, <1>5, <1>6, <1>8, AskedWanted
<1>9. QED
  BY <1>7, <1>8

LEMMA NextWanted ==
  ASSUME NoHold, WantedInv, [Next]_vars, NEW x \in Windows
  PROVE  Wanted(x)'
<1>1. ASSUME NEW v \in Visibilities, UpdateTokenVisibility(v) PROVE Wanted(x)'
  BY <1>1, UpdateWanted
<1>2. CASE ResponseVsync
  BY <1>2, ResponseWanted
<1>3. ASSUME NEW w \in Windows, ScheduleVsync(w) PROVE Wanted(x)'
  BY <1>3, ScheduleWanted
<1>4. ASSUME NEW w \in Windows, Relayout(w) PROVE Wanted(x)'
  BY <1>4, RelayoutWanted
<1>5. ASSUME NEW w \in Windows, RelayoutReturns(w) PROVE Wanted(x)'
  BY <1>5, ReturnWanted
<1>6. ASSUME NEW w \in Windows, HandleCall(w) PROVE Wanted(x)'
  BY <1>6, SetVisibleWanted, AlreadyWanted, FrameWanted, NoBufferWanted DEF HandleCall
<1>7. ASSUME NEW w \in Windows, OnInvalidate(w) \/ OnFBVsyncRequest(w) PROVE Wanted(x)'
  BY <1>7, AskWanted
<1>8. CASE UNCHANGED vars
  BY <1>8, NothingNew DEF WantedInv, vars, srvVars, appVars
<1>9. QED
  BY <1>1, <1>2, <1>3, <1>4, <1>5, <1>6, <1>7, <1>8 DEF Next

(***************************************************************************)
(* The server wakes an app for every frame only as long as the app wants   *)
(* that, however the window was hidden and shown while the requests were   *)
(* on their way, for any number of windows and of calls on their way, if   *)
(* nothing is put on HOLD.                                                 *)
(***************************************************************************)
THEOREM NoPeriodicIsLeft ==
  ASSUME NoHold
  PROVE  Spec => []PeriodicIsWanted
<1>1. Init => WantedInv
  <2> SUFFICES ASSUME Init PROVE WantedInv
    OBVIOUS
  <2>1. WakeInv
    BY InitWakes
  <2>2. ASSUME NEW w \in Windows PROVE Wanted(w)
    BY <2>2, Requests DEF Init, Wanted, HiddenStops, ShownKeeps, Asked
  <2>3. QED
    BY <2>1, <2>2 DEF WantedInv
<1>2. WantedInv /\ [Next]_vars => WantedInv'
  BY NextWanted, NextWakes, NextIInv DEF WantedInv, WakeInv
<1>3. WantedInv => PeriodicIsWanted
  <2> SUFFICES ASSUME WantedInv, NEW w \in Windows, Settled(w), visibility[w] # "gone", srvReq[w] = Periodic
               PROVE  appReq[w] = Periodic
    BY DEF PeriodicIsWanted
  <2>1. Wanted(w) /\ appVisible[w] \in BOOLEAN
    BY DEF WantedInv, WakeInv, IInv, TypeOK
  <2>2. Asked(w) = Periodic /\ ~Showing(w) /\ ~ToBeShown(toApp[w])
    BY DEF Settled, Asked, Showing, ToBeShown
  <2>3. QED
    BY <2>1, <2>2 DEF Wanted, HiddenStops, ShownKeeps
<1>4. QED
  BY <1>1, <1>2, <1>3, PTL DEF Spec
-----------------------------------------------------------------------------
(* Loops *)

LEMMA LeastOf ==
  ASSUME NEW T \in SUBSET Nat, T # {}
  PROVE  \E n \in T : \A m \in T : n <= m
<1>1. IsWellFoundedOn(OpToRel(<, Nat), Nat)
  BY NatLessThanWellFounded
<1>2. PICK n \in T : \A m \in T : <<m, n>> \notin OpToRel(<, Nat)
  BY <1>1, WFMin
<1>3. \A m \in T : ~(m < n)
  BY <1>2 DEF OpToRel
<1>4. QED
  BY <1>3

(* Induction, for a set in the place of a predicate. *)
LEMMA Induction ==
  ASSUME NEW P, 0 \in P, \A n \in Nat : n \in P => n + 1 \in P
  PROVE  Nat \subseteq P
<1>1. SUFFICES ASSUME Nat \ P # {} PROVE FALSE
  OBVIOUS
<1>2. PICK n \in Nat \ P : \A m \in Nat \ P : n <= m
  BY <1>1, LeastOf
<1>3. n # 0 /\ n - 1 \in Nat /\ n - 1 \notin Nat \ P
  BY <1>2
<1>4. n - 1 \in P /\ (n - 1) + 1 = n
  BY <1>3
<1>5. QED
  BY <1>2, <1>3, <1>4

(* A loop of N turns, of which the n-th takes x to step[n][x], has a run. *)
LEMMA LoopRuns ==
  ASSUME NEW S, NEW a \in S, NEW N \in Nat, NEW step \in [1 .. N -> [S -> S]]
  PROVE  \E f \in [0 .. N -> S] : f[0] = a /\ \A n \in 1 .. N : f[n] = step[n][f[n - 1]]
<1> DEFINE Run(m, f) == f[0] = a /\ \A n \in 1 .. m : f[n] = step[n][f[n - 1]]
           P == {m \in Nat : m <= N => \E f \in [0 .. m -> S] : Run(m, f)}
<1>1. 0 \in P
  <2>1. [i \in 0 .. 0 |-> a] \in [0 .. 0 -> S] /\ Run(0, [i \in 0 .. 0 |-> a])
    OBVIOUS
  <2>2. QED
    BY <2>1
<1>2. ASSUME NEW m \in Nat, m \in P, m + 1 <= N
      PROVE  \E f \in [0 .. m + 1 -> S] : Run(m + 1, f)
  <2>1. PICK f \in [0 .. m -> S] : Run(m, f)
    BY <1>2
  <2> DEFINE g == [i \in 0 .. m + 1 |-> IF i = m + 1 THEN step[m + 1][f[m]] ELSE f[i]]
  <2>2. f[m] \in S /\ m + 1 \in 1 .. N
    BY <1>2
  <2>3. step[m + 1][f[m]] \in S
    BY <2>2
  <2>4. g \in [0 .. m + 1 -> S]
    BY <2>3
  <2>5. g[m + 1] = step[m + 1][f[m]] /\ \A i \in 0 .. m : g[i] = f[i]
    OBVIOUS
  <2> HIDE DEF g
  <2>6. Run(m + 1, g)
    <3>1. g[0] = a
      BY <2>1, <2>5
    <3>2. ASSUME NEW n \in 1 .. m + 1 PROVE g[n] = step[n][g[n - 1]]
      <4>1. CASE n = m + 1
        BY <2>5, <4>1
      <4>2. CASE n # m + 1
        <5>1. n \in 1 .. m /\ n - 1 \in 0 .. m /\ n \in 0 .. m
          BY <4>2
        <5>2. QED
          BY <2>1, <2>5, <5>1
      <4>3. QED
        BY <4>1, <4>2
    <3>3. QED
      BY <3>1, <3>2
  <2>7. QED
    BY <2>4, <2>6
<1>3. \A m \in Nat : m \in P => m + 1 \in P
  <2>1. ASSUME NEW m \in Nat, m \in P PROVE m + 1 \in P
    <3>1. m + 1 <= N => \E f \in [0 .. m + 1 -> S] : Run(m + 1, f)
      BY <1>2, <2>1, Zenon
    <3>2. m + 1 \in Nat
      OBVIOUS
    <3>3. QED
      BY <3>1, <3>2, Zenon
  <2>2. QED
    BY <2>1
<1> HIDE DEF P
<1>4. N \in P
  BY <1>1, <1>3, Induction
<1>5. QED
  BY <1>4 DEF P

-----------------------------------------------------------------------------
(* Lists *)

(* What is in a list, and in one of no elements. *)
LEMMA ListOf ==
  ASSUME NEW S, NEW s \in Seq(S)
  PROVE  /\ DOMAIN s = 1 .. Len(s) /\ Len(s) \in Nat /\ Range(s) \subseteq S
         /\ \A x : x \in Range(s) <=> \E i \in 1 .. Len(s) : s[i] = x
         /\ \A i \in 1 .. Len(s) : s[i] \in Range(s) /\ s[i] \in S
         /\ s = << >> <=> Range(s) = {}
<1>1. DOMAIN s = 1 .. Len(s) /\ Len(s) \in Nat /\ \A i \in 1 .. Len(s) : s[i] \in S
  OBVIOUS
<1>2. \A x : x \in Range(s) <=> \E i \in 1 .. Len(s) : s[i] = x
  BY <1>1 DEF Range
<1>3. s # << >> => 1 \in 1 .. Len(s)
  BY EmptySeq
<1>4. s = << >> => Len(s) = 0
  OBVIOUS
<1>5. s = << >> => Range(s) = {}
  BY <1>1, <1>2, <1>4
<1>6. s # << >> => s[1] \in Range(s)
  BY <1>2, <1>3
<1>7. Range(s) \subseteq S /\ \A i \in 1 .. Len(s) : s[i] \in Range(s) /\ s[i] \in S
  BY <1>1, <1>2
<1>8. s = << >> <=> Range(s) = {}
  BY <1>5, <1>6, Zenon
<1>9. QED
  BY <1>1, <1>2, <1>7, <1>8

LEMMA FirstTaken ==
  ASSUME NEW S, NEW s \in Seq(S), s # << >>, IsInjective(s)
  PROVE  /\ Tail(s) \in Seq(S) /\ Head(s) \in Range(s) /\ IsInjective(Tail(s))
         /\ Range(Tail(s)) = Range(s) \ {Head(s)}
<1>1. /\ Tail(s) \in Seq(S) /\ Len(Tail(s)) = Len(s) - 1 /\ Len(s) \in Nat \ {0}
      /\ Head(s) = s[1]
      /\ \A i \in 1 .. Len(s) - 1 : Tail(s)[i] = s[i + 1]
  OBVIOUS
<1>2. DOMAIN s = 1 .. Len(s) /\ DOMAIN Tail(s) = 1 .. Len(s) - 1
  BY <1>1
<1>3. \A i, j \in 1 .. Len(s) : s[i] = s[j] => i = j
  BY <1>2 DEF IsInjective
<1>4. \A x : x \in Range(s) <=> \E i \in 1 .. Len(s) : s[i] = x
  BY <1>2 DEF Range
<1>5. \A x : x \in Range(Tail(s)) <=> \E i \in 1 .. Len(s) - 1 : s[i + 1] = x
  BY <1>1, <1>2 DEF Range
<1>6. IsInjective(Tail(s))
  <2>1. \A i \in 1 .. Len(s) - 1 : i + 1 \in 1 .. Len(s)
    BY <1>1
  <2>2. \A i, j \in 1 .. Len(s) - 1 : Tail(s)[i] = Tail(s)[j] => i = j
    BY <1>1, <1>3, <2>1
  <2>3. QED
    BY <1>2, <2>2 DEF IsInjective
<1>7. Head(s) \in Range(s)
  BY <1>1, <1>4
<1>8. ASSUME NEW x PROVE x \in Range(Tail(s)) <=> x \in Range(s) /\ x # Head(s)
  <2>1. ASSUME NEW i \in 1 .. Len(s) - 1, s[i + 1] = x PROVE x \in Range(s) /\ x # Head(s)
    <3>1. i + 1 \in 1 .. Len(s) /\ i + 1 # 1 /\ 1 \in 1 .. Len(s)
      BY <1>1
    <3>2. QED
      BY <1>1, <1>3, <1>4, <2>1, <3>1
  <2>2. ASSUME NEW i \in 1 .. Len(s), s[i] = x, x # Head(s) PROVE x \in Range(Tail(s))
    <3>1. i - 1 \in 1 .. Len(s) - 1 /\ (i - 1) + 1 = i
      BY <1>1, <2>2
    <3>2. QED
      BY <1>5, <2>2, <3>1
  <2>3. QED
    BY <1>4, <1>5, <2>1, <2>2
<1>9. QED
  BY <1>1, <1>6, <1>7, <1>8

LEMMA LastAdded ==
  ASSUME NEW S, NEW s \in Seq(S), NEW x \in S
  PROVE  /\ Append(s, x) \in Seq(S) /\ Append(s, x) # << >>
         /\ Range(Append(s, x)) = Range(s) \cup {x}
         /\ IsInjective(s) /\ x \notin Range(s) => IsInjective(Append(s, x))
<1>1. /\ Append(s, x) \in Seq(S) /\ Len(Append(s, x)) = Len(s) + 1 /\ Len(s) \in Nat
      /\ \A i \in 1 .. Len(s) : Append(s, x)[i] = s[i]
      /\ Append(s, x)[Len(s) + 1] = x
  OBVIOUS
<1>2. DOMAIN s = 1 .. Len(s) /\ DOMAIN Append(s, x) = 1 .. Len(s) + 1
  BY <1>1
<1>3. \A i \in 1 .. Len(s) + 1 : i \in 1 .. Len(s) \/ i = Len(s) + 1
  BY <1>1
<1>4. Len(s) + 1 \in 1 .. Len(s) + 1 /\ \A i \in 1 .. Len(s) : i \in 1 .. Len(s) + 1
  BY <1>1
<1>5. Range(Append(s, x)) = Range(s) \cup {x}
  BY <1>1, <1>2, <1>3, <1>4 DEF Range
<1>6. ASSUME IsInjective(s), x \notin Range(s) PROVE IsInjective(Append(s, x))
  <2>1. \A i, j \in 1 .. Len(s) : s[i] = s[j] => i = j
    BY <1>2, <1>6 DEF IsInjective
  <2>2. \A i \in 1 .. Len(s) : s[i] # x
    BY <1>2, <1>6 DEF Range
  <2>3. \A i, j \in 1 .. Len(s) + 1 : Append(s, x)[i] = Append(s, x)[j] => i = j
    BY <1>1, <1>3, <2>1, <2>2
  <2>4. QED
    BY <1>2, <2>3 DEF IsInjective
<1>7. Append(s, x) # << >>
  BY <1>1
<1>8. QED
  BY <1>1, <1>5, <1>6, <1>7

LEMMA Joined ==
  ASSUME NEW S, NEW s \in Seq(S), NEW t \in Seq(S)
  PROVE  /\ s \o t \in Seq(S)
         /\ Range(s \o t) = Range(s) \cup Range(t)
         /\ IsInjective(s) /\ IsInjective(t) /\ Range(s) \cap Range(t) = {} => IsInjective(s \o t)
<1>1. /\ s \o t \in Seq(S) /\ Len(s \o t) = Len(s) + Len(t) /\ Len(s) \in Nat /\ Len(t) \in Nat
      /\ \A i \in 1 .. Len(s) + Len(t) : (s \o t)[i] = IF i <= Len(s) THEN s[i] ELSE t[i - Len(s)]
  BY ConcatProperties, LenProperties
<1>2. DOMAIN s = 1 .. Len(s) /\ DOMAIN t = 1 .. Len(t) /\ DOMAIN (s \o t) = 1 .. Len(s) + Len(t)
  BY <1>1
<1>3. \A i \in 1 .. Len(s) : i \in 1 .. Len(s) + Len(t) /\ (s \o t)[i] = s[i]
  BY <1>1
<1>4. \A i \in 1 .. Len(t) : i + Len(s) \in 1 .. Len(s) + Len(t) /\ (s \o t)[i + Len(s)] = t[i]
  BY <1>1
<1>5. \A i \in 1 .. Len(s) + Len(t) : i \in 1 .. Len(s) \/ (i - Len(s) \in 1 .. Len(t) /\ ~(i <= Len(s)))
  BY <1>1
<1>6. \A x : x \in Range(s) <=> \E i \in 1 .. Len(s) : s[i] = x
  BY <1>2 DEF Range
<1>7. \A x : x \in Range(t) <=> \E i \in 1 .. Len(t) : t[i] = x
  BY <1>2 DEF Range
<1>8. \A x : x \in Range(s \o t) <=> \E i \in 1 .. Len(s) + Len(t) : (s \o t)[i] = x
  BY <1>2 DEF Range
<1>9. Range(s \o t) = Range(s) \cup Range(t)
  <2>1. ASSUME NEW i \in 1 .. Len(s) + Len(t) PROVE (s \o t)[i] \in Range(s) \cup Range(t)
    BY <1>1, <1>5, <1>6, <1>7
  <2>2. \A x \in Range(s) \cup Range(t) : x \in Range(s \o t)
    BY <1>3, <1>4, <1>6, <1>7, <1>8
  <2>3. QED
    BY <1>8, <2>1, <2>2
<1>10. ASSUME IsInjective(s), IsInjective(t), Range(s) \cap Range(t) = {}
       PROVE  IsInjective(s \o t)
  <2>1. \A i, j \in 1 .. Len(s) : s[i] = s[j] => i = j
    BY <1>2, <1>10 DEF IsInjective
  <2>2. \A i, j \in 1 .. Len(t) : t[i] = t[j] => i = j
    BY <1>2, <1>10 DEF IsInjective
  <2>3. \A i \in 1 .. Len(s), j \in 1 .. Len(t) : s[i] # t[j]
    BY <1>6, <1>7, <1>10
  <2>4. ASSUME NEW i \in 1 .. Len(s) + Len(t), NEW j \in 1 .. Len(s) + Len(t), (s \o t)[i] = (s \o t)[j]
        PROVE  i = j
    <3>1. CASE i \in 1 .. Len(s) /\ j \in 1 .. Len(s)
      BY <1>3, <2>1, <2>4, <3>1
    <3>2. CASE i \in 1 .. Len(s) /\ ~(j <= Len(s))
      BY <1>1, <1>5, <2>3, <2>4, <3>2
    <3>3. CASE ~(i <= Len(s)) /\ j \in 1 .. Len(s)
      BY <1>1, <1>5, <2>3, <2>4, <3>3
    <3>4. CASE ~(i <= Len(s)) /\ ~(j <= Len(s))
      <4>1. i - Len(s) \in 1 .. Len(t) /\ j - Len(s) \in 1 .. Len(t) /\ t[i - Len(s)] = t[j - Len(s)]
        BY <1>1, <1>5, <2>4, <3>4
      <4>2. i - Len(s) = j - Len(s)
        BY <2>2, <4>1
      <4>3. QED
        BY <1>1, <4>2
    <3>5. QED
      BY <1>5, <3>1, <3>2, <3>3, <3>4
  <2>5. QED
    BY <1>2, <2>4 DEF IsInjective
<1>11. QED
  BY <1>1, <1>9, <1>10
-----------------------------------------------------------------------------
(* The operators of WindowLifecycle *)

(* A list without duplicates loses the window that is erased, and no other. *)
LEMMA OneIsErased ==
  ASSUME NEW S, NEW s \in Seq(S), IsInjective(s), NEW w \in Range(s)
  PROVE  /\ WithoutFirst(s, w) \in Seq(S)
         /\ IsInjective(WithoutFirst(s, w))
         /\ Range(WithoutFirst(s, w)) = Range(s) \ {w}
<1> DEFINE i == CHOOSE j \in DOMAIN s : s[j] = w /\ \A k \in 1 .. j - 1 : s[k] # w
           n == Len(s)
           t == [j \in 1 .. n - 1 |-> IF j < i THEN s[j] ELSE s[j + 1]]
<1>1. DOMAIN s = 1 .. n /\ n \in Nat /\ \A j \in 1 .. n : s[j] \in S
  OBVIOUS
<1>2. \A j, k \in 1 .. n : s[j] = s[k] => j = k
  BY <1>1 DEF IsInjective
<1>3. i \in 1 .. n /\ s[i] = w
  <2>1. PICK j \in 1 .. n : s[j] = w
    BY <1>1 DEF Range
  <2>2. \A k \in 1 .. j - 1 : k \in 1 .. n /\ k # j
    BY <1>1
  <2>3. \A k \in 1 .. j - 1 : s[k] # w
    BY <1>2, <2>1, <2>2
  <2>4. \E m \in DOMAIN s : s[m] = w /\ \A k \in 1 .. m - 1 : s[k] # w
    BY <1>1, <2>1, <2>3
  <2>5. QED
    BY <1>1, <2>4
<1>4. WithoutFirst(s, w) = t
  BY DEF WithoutFirst
<1> HIDE DEF i
<1>5. \A j \in 1 .. n - 1 : j \in 1 .. n /\ j + 1 \in 1 .. n /\ (j + 1 = i => j < i)
  BY <1>1, <1>3
<1>6. n - 1 \in Nat /\ \A j \in 1 .. n - 1 : t[j] \in S
  BY <1>1, <1>3, <1>5
<1>7. t \in Seq(S) /\ DOMAIN t = 1 .. n - 1
  BY <1>6, IsASeq
<1>8. IsInjective(t)
  <2> SUFFICES ASSUME NEW a \in 1 .. n - 1, NEW b \in 1 .. n - 1, t[a] = t[b] PROVE a = b
    BY <1>7 DEF IsInjective
  <2> DEFINE up(x) == IF x < i THEN x ELSE x + 1
  <2>1. up(a) \in 1 .. n /\ up(b) \in 1 .. n /\ s[up(a)] = s[up(b)]
    BY <1>5
  <2>2. up(a) = up(b)
    BY <1>2, <2>1
  <2>3. QED
    BY <1>3, <2>2
<1>9. \A x : x \in Range(s) <=> \E j \in 1 .. n : s[j] = x
  BY <1>1 DEF Range
<1>10. \A x : x \in Range(t) <=> \E j \in 1 .. n - 1 : t[j] = x
  BY <1>7 DEF Range
<1>11. Range(t) = Range(s) \ {w}
  <2>1. ASSUME NEW j \in 1 .. n - 1 PROVE t[j] \in Range(s) /\ t[j] # w
    <3>1. CASE j < i
      BY <1>2, <1>3, <1>5, <1>9, <3>1
    <3>2. CASE ~(j < i)
      <4>1. t[j] = s[j + 1] /\ j + 1 \in 1 .. n /\ j + 1 # i
        BY <1>5, <3>2
      <4>2. QED
        BY <1>2, <1>3, <1>9, <4>1
    <3>3. QED
      BY <3>1, <3>2
  <2>2. ASSUME NEW j \in 1 .. n, s[j] # w PROVE s[j] \in Range(t)
    <3>1. CASE j < i
      <4>1. j \in 1 .. n - 1 /\ t[j] = s[j]
        BY <1>1, <1>3, <3>1
      <4>2. QED
        BY <1>10, <4>1
    <3>2. CASE ~(j < i)
      <4>1. j # i
        BY <1>3, <2>2
      <4>2. j - 1 \in 1 .. n - 1 /\ ~(j - 1 < i) /\ (j - 1) + 1 = j
        BY <1>1, <1>3, <3>2, <4>1
      <4>3. t[j - 1] = s[j]
        BY <4>2
      <4>4. QED
        BY <1>10, <4>2, <4>3
    <3>3. QED
      BY <3>1, <3>2
  <2> HIDE DEF t
  <2>3. QED
    BY <1>9, <1>10, <2>1, <2>2
<1>12. QED
  BY <1>4, <1>7, <1>8, <1>11

WindowStates == [client : Clients, token : TokenIds, removed : BOOLEAN]
TokenStates == [binder : Binders, children : Seq(WindowIds), removed : BOOLEAN]

(***************************************************************************)
(* The loop of removeIfPossible, as a run: what it has posted after n      *)
(* turns.                                                                  *)
(***************************************************************************)
LEMMA PostedInTurn ==
  ASSUME NEW ws \in Seq(WindowIds)
  PROVE  \E f \in [0 .. Len(ws) -> Seq(WindowIds)] :
           /\ NotMarked(ws) = f[Len(ws)]
           /\ f[0] = << >>
           /\ \A n \in 1 .. Len(ws) :
                f[n] = IF windows[ws[n]].removed THEN f[n - 1] ELSE Append(f[n - 1], ws[n])
<1> DEFINE N == Len(ws)
           S == Seq(WindowIds)
           Turn(n, x) == IF windows[ws[n]].removed THEN x ELSE Append(x, ws[n])
           step == [n \in 1 .. N |-> [x \in S |-> Turn(n, x)]]
           Loop(f) == [n \in 0 .. N |-> IF n = 0 THEN << >> ELSE Turn(n, f[n - 1])]
<1>1. N \in Nat /\ << >> \in S /\ \A n \in 1 .. N : ws[n] \in WindowIds
  OBVIOUS
<1>2. \A n \in 1 .. N, x \in S : Turn(n, x) \in S
  BY <1>1
<1>3. step \in [1 .. N -> [S -> S]]
  BY <1>2
<1>4. \A n \in 1 .. N, x \in S : step[n][x] = Turn(n, x)
  OBVIOUS
<1>5. \A f : NotMarked(ws) = (CHOOSE g : g = Loop(g))[N]
  BY DEF NotMarked
<1> HIDE DEF S, Turn, step
<1>6. PICK f \in [0 .. N -> S] : f[0] = << >> /\ \A n \in 1 .. N : f[n] = step[n][f[n - 1]]
  <2>1. PICK none \in S : none = << >>
    BY <1>1
  <2>2. N \in Nat
    BY <1>1
  <2> HIDE DEF N
  <2>3. \E f \in [0 .. N -> S] : f[0] = none /\ \A n \in 1 .. N : f[n] = step[n][f[n - 1]]
    BY <1>3, <2>2, LoopRuns
  <2>4. QED
    BY <2>1, <2>3
<1>7. \A n \in 1 .. N : n - 1 \in 0 .. N /\ f[n] = Turn(n, f[n - 1])
  BY <1>1, <1>4, <1>6
<1>8. f = Loop(f)
  <2>1. \A n \in 0 .. N : n # 0 => n \in 1 .. N
    BY <1>1
  <2>2. \A n \in 0 .. N : f[n] = (IF n = 0 THEN << >> ELSE Turn(n, f[n - 1]))
    BY <1>6, <1>7, <2>1
  <2>3. QED
    BY <1>6, <2>2
<1> DEFINE g == CHOOSE h : h = Loop(h)
<1>9. g = Loop(g)
  BY <1>8
<1> HIDE DEF g
<1>10. DOMAIN g = 0 .. N /\ g[0] = << >> /\ \A n \in 1 .. N : g[n] = Turn(n, g[n - 1])
  <2>1. 0 \in 0 .. N /\ \A n \in 1 .. N : n \in 0 .. N /\ n # 0
    BY <1>1
  <2>2. \A n \in 0 .. N : Loop(g)[n] = IF n = 0 THEN << >> ELSE Turn(n, g[n - 1])
    OBVIOUS
  <2>3. DOMAIN Loop(g) = 0 .. N
    OBVIOUS
  <2> HIDE DEF Loop
  <2>4. QED
    BY <1>9, <2>1, <2>2, <2>3
<1>11. \A n \in 0 .. N : g[n] \in S
  <2> DEFINE P == {n \in Nat : n <= N => g[n] \in S}
  <2>1. 0 \in P
    BY <1>1, <1>10
  <2>2. ASSUME NEW n \in Nat, n \in P PROVE n + 1 \in P
    <3>1. CASE n + 1 <= N
      <4>1. n + 1 \in 1 .. N /\ (n + 1) - 1 = n /\ n <= N
        BY <1>1, <3>1
      <4>2. g[n] \in S
        BY <2>2, <4>1
      <4>3. g[n + 1] = Turn(n + 1, g[n])
        BY <1>10, <4>1
      <4>4. QED
        BY <1>2, <4>1, <4>2, <4>3
    <3>2. CASE ~(n + 1 <= N)
      BY <3>2
    <3>3. QED
      BY <3>1, <3>2
  <2> HIDE DEF P
  <2>3. Nat \subseteq P
    BY <2>1, <2>2, Induction
  <2>4. QED
    BY <1>1, <2>3 DEF P
<1>12. g \in [0 .. N -> S]
  <2>1. g = [n \in 0 .. N |-> g[n]]
    BY <1>9, <1>10
  <2>2. QED
    BY <1>11, <2>1
<1>13. NotMarked(ws) = g[N]
  BY <1>5 DEF g
<1>14. QED
  BY <1>10, <1>12, <1>13 DEF S, Turn

(* It posts a task for each of the windows that was not removed before, once. *)
LEMMA PostedOnce ==
  ASSUME NEW ws \in Seq(WindowIds), IsInjective(ws)
  PROVE  /\ NotMarked(ws) \in Seq(WindowIds)
         /\ IsInjective(NotMarked(ws))
         /\ Range(NotMarked(ws)) = {i \in Range(ws) : ~windows[i].removed}
<1> DEFINE N == Len(ws)
<1>1. N \in Nat /\ DOMAIN ws = 1 .. N /\ \A n \in 1 .. N : ws[n] \in WindowIds
  OBVIOUS
<1>2. \A m, n \in 1 .. N : ws[m] = ws[n] => m = n
  BY <1>1 DEF IsInjective
<1>3. PICK f \in [0 .. N -> Seq(WindowIds)] :
        /\ NotMarked(ws) = f[N]
        /\ f[0] = << >>
        /\ \A n \in 1 .. N : f[n] = IF windows[ws[n]].removed THEN f[n - 1] ELSE Append(f[n - 1], ws[n])
  BY PostedInTurn
<1> DEFINE Posted(n) ==
             /\ IsInjective(f[n])
             /\ \A x : x \in Range(f[n]) <=> \E m \in 1 .. n : x = ws[m] /\ ~windows[ws[m]].removed
           P == {n \in Nat : n <= N => Posted(n)}
<1>4. 0 \in P
  <2>1. IsInjective(f[0]) /\ Range(f[0]) = {}
    BY <1>3 DEF IsInjective, Range
  <2>2. QED
    BY <2>1
<1>5. ASSUME NEW n \in Nat, n \in P, n + 1 <= N
      PROVE  Posted(n + 1)
  <2>1. n <= N /\ n \in 0 .. N /\ n + 1 \in 1 .. N /\ (n + 1) - 1 = n
    BY <1>1, <1>5
  <2>2. Posted(n)
    BY <1>5, <2>1
  <2>3. \A m \in 1 .. n : m \in 1 .. N /\ m # n + 1 /\ m \in 1 .. n + 1
    BY <1>1, <2>1
  <2>4. \A m \in 1 .. n + 1 : m \in 1 .. n \/ m = n + 1
    OBVIOUS
  <2>5. n + 1 \in 1 .. n + 1
    OBVIOUS
  <2>6. f[n + 1] = IF windows[ws[n + 1]].removed THEN f[n] ELSE Append(f[n], ws[n + 1])
    BY <1>3, <2>1
  <2>7. CASE windows[ws[n + 1]].removed
    <3>1. f[n + 1] = f[n]
      BY <2>6, <2>7
    <3>2. QED
      BY <2>2, <2>3, <2>4, <2>5, <2>7, <3>1
  <2>8. CASE ~windows[ws[n + 1]].removed
    <3>1. f[n + 1] = Append(f[n], ws[n + 1])
      BY <2>6, <2>8
    <3>2. ws[n + 1] \notin Range(f[n])
      <4>1. \A m \in 1 .. n : ws[m] # ws[n + 1]
        BY <1>2, <2>1, <2>3
      <4>2. QED
        BY <2>2, <4>1
    <3>3. f[n] \in Seq(WindowIds) /\ ws[n + 1] \in WindowIds
      BY <1>1, <1>3, <2>1
    <3>4. IsInjective(f[n + 1]) /\ Range(f[n + 1]) = Range(f[n]) \cup {ws[n + 1]}
      BY <2>2, <3>1, <3>2, <3>3, LastAdded
    <3>5. QED
      BY <2>2, <2>3, <2>4, <2>5, <2>8, <3>4
  <2>9. QED
    BY <2>7, <2>8
<1>6. ASSUME NEW n \in Nat, n \in P PROVE n + 1 \in P
  <2>1. n + 1 <= N => Posted(n + 1)
    BY <1>5, <1>6, Zenon
  <2>2. n + 1 \in Nat
    OBVIOUS
  <2>3. QED
    BY <2>1, <2>2, Zenon
<1> HIDE DEF P
<1>7. N \in P
  BY <1>1, <1>4, <1>6, Induction
<1>8. Posted(N)
  BY <1>1, <1>7 DEF P
<1>9. \A x : x \in Range(ws) <=> \E m \in 1 .. N : x = ws[m]
  BY <1>1 DEF Range
<1>10. f[N] \in Seq(WindowIds)
  BY <1>1, <1>3
<1>11. QED
  BY <1>3, <1>8, <1>9, <1>10

-----------------------------------------------------------------------------
(* The inductive invariant of WindowLifecycle *)

(***************************************************************************)
(* What the numbers stand for: an entry of a map is an object that has     *)
(* been made, for the client or binder it is under; a window belongs to a  *)
(* token; and only a token that a window was given as its own has a number *)
(* for a binder, which is its own.                                         *)
(***************************************************************************)
WindowsKnown ==
  /\ \A c \in Clients : windowMap[c] # Nothing =>
       windowMap[c] \in DOMAIN windows /\ windows[windowMap[c]].client = c
  /\ \A i \in DOMAIN windows : windows[i].token \in DOMAIN tokens

TokensKnown ==
  /\ \A b \in Binders : tokenMap[b] # Nothing =>
       tokenMap[b] \in DOMAIN tokens /\ tokens[tokenMap[b]].binder = b
  /\ \A t \in DOMAIN tokens : tokens[t].binder \in AppTokens \cup {t}

(* The windows that have a task are those that were removed and are still there. *)
RemovedHaveTasks == \A i \in alive : windows[i].removed <=> i \in Range(tasks)

LifecycleInv ==
  /\ LifecycleTypeOK /\ WindowsKnown /\ TokensKnown /\ RemovedHaveTasks
  /\ TaskFindsItsWindow /\ PointersAgree /\ TokensAgree /\ OwnTokensAreUsed

(* The objects and the lists, as the steps of the proof use them. *)
LEMMA ObjectsTyped ==
  ASSUME LifecycleTypeOK
  PROVE  /\ windows \in Seq(WindowStates) /\ tokens \in Seq(TokenStates) /\ tasks \in Seq(WindowIds)
         /\ DOMAIN windows = 1 .. Len(windows) /\ Len(windows) \in Nat
         /\ DOMAIN tokens = 1 .. Len(tokens) /\ Len(tokens) \in Nat
         /\ \A i \in DOMAIN windows : windows[i] \in WindowStates
         /\ \A t \in DOMAIN tokens : tokens[t] \in TokenStates /\ tokens[t].children \in Seq(WindowIds)
         /\ alive \subseteq DOMAIN windows
         /\ Nothing \notin WindowIds /\ Nothing \notin TokenIds
<1>1. windows \in Seq(WindowStates) /\ tokens \in Seq(TokenStates) /\ tasks \in Seq(WindowIds)
  BY DEF LifecycleTypeOK, WindowStates, TokenStates
<1>2. \A i \in DOMAIN windows : windows[i] \in WindowStates
  BY <1>1
<1>3. \A t \in DOMAIN tokens : tokens[t] \in TokenStates
  BY <1>1
<1>4. \A t \in DOMAIN tokens : tokens[t].children \in Seq(WindowIds)
  BY <1>3 DEF TokenStates
<1>5. Nothing \notin WindowIds /\ Nothing \notin TokenIds
  BY LimitAssumption DEF Nothing, WindowIds, TokenIds
<1>6. QED
  BY <1>1, <1>2, <1>3, <1>4, <1>5 DEF LifecycleTypeOK

LEMMA Allocated ==
  ASSUME NEW S, NEW s \in Seq(S), NEW x \in S
  PROVE  /\ Append(s, x) \in Seq(S)
         /\ DOMAIN Append(s, x) = DOMAIN s \cup {Len(s) + 1} /\ Len(s) + 1 \notin DOMAIN s
         /\ \A i \in DOMAIN s : Append(s, x)[i] = s[i]
         /\ Append(s, x)[Len(s) + 1] = x
OBVIOUS

(***************************************************************************)
(* Windows are removed: they are marked, and have a task afterwards,       *)
(* posted now or before.                                                   *)
(***************************************************************************)
LEMMA Removal ==
  ASSUME LifecycleInv, NEW ws \in Seq(WindowIds), IsInjective(ws), Range(ws) \subseteq alive,
         RemoveWindows(ws)
  PROVE  /\ windows' \in Seq(WindowStates) /\ DOMAIN windows' = DOMAIN windows
         /\ \A i \in DOMAIN windows :
              /\ windows'[i].client = windows[i].client /\ windows'[i].token = windows[i].token
              /\ windows'[i].removed <=> windows[i].removed \/ i \in Range(ws)
         /\ tasks' \in Seq(WindowIds) /\ IsInjective(tasks')
         /\ Range(tasks') = Range(tasks) \cup Range(ws)
<1> USE DEF LifecycleInv
<1>1. /\ windows \in Seq(WindowStates) /\ tasks \in Seq(WindowIds)
      /\ DOMAIN windows = 1 .. Len(windows) /\ Len(windows) \in Nat
      /\ \A i \in DOMAIN windows : windows[i] \in WindowStates
      /\ alive \subseteq DOMAIN windows
  BY ObjectsTyped
<1>2. windows' = Marked(ws)
  BY DEF RemoveWindows
<1>3. DOMAIN windows' = DOMAIN windows
      /\ \A i \in DOMAIN windows : windows'[i] = [windows[i] EXCEPT !.removed = @ \/ i \in Range(ws)]
  BY <1>2 DEF Marked
<1>4. ASSUME NEW i \in DOMAIN windows
      PROVE  /\ windows'[i].client = windows[i].client /\ windows'[i].token = windows[i].token
             /\ windows'[i].removed <=> windows[i].removed \/ i \in Range(ws)
             /\ windows'[i] \in WindowStates
  <2> DEFINE gone == windows[i].removed \/ i \in Range(ws)
  <2>1. windows'[i] = [windows[i] EXCEPT !.removed = gone]
    BY <1>3
  <2>2. gone \in BOOLEAN
    BY Zenon
  <2>3. windows[i] \in WindowStates
    BY <1>1
  <2> HIDE DEF gone
  <2>4. /\ windows'[i].client = windows[i].client /\ windows'[i].token = windows[i].token
        /\ windows'[i].removed = gone /\ windows'[i] \in WindowStates
    BY <2>1, <2>2, <2>3 DEF WindowStates
  <2>5. QED
    BY <2>4, Zenon DEF gone
<1>5. windows' \in Seq(WindowStates)
  <2>1. windows' = [i \in 1 .. Len(windows) |-> windows'[i]]
    BY <1>1, <1>2 DEF Marked
  <2>2. \A i \in 1 .. Len(windows) : windows'[i] \in WindowStates
    BY <1>1, <1>4
  <2> HIDE DEF LifecycleInv
  <2>3. [i \in 1 .. Len(windows) |-> windows'[i]] \in Seq(WindowStates)
    BY <1>1, <2>2, IsASeq
  <2>4. QED
    BY <2>1, <2>3
<1>6. tasks' = tasks \o NotMarked(ws)
  BY DEF RemoveWindows
<1>7. /\ NotMarked(ws) \in Seq(WindowIds) /\ IsInjective(NotMarked(ws))
      /\ Range(NotMarked(ws)) = {i \in Range(ws) : ~windows[i].removed}
  BY PostedOnce
<1>8. IsInjective(tasks) /\ Range(tasks) \subseteq alive
      /\ \A i \in alive : windows[i].removed <=> i \in Range(tasks)
  BY DEF TaskFindsItsWindow, RemovedHaveTasks
<1>9. Range(tasks) \cap Range(NotMarked(ws)) = {}
  BY <1>7, <1>8
<1>10. Range(tasks) \cup Range(NotMarked(ws)) = Range(tasks) \cup Range(ws)
  BY <1>7, <1>8
<1>11. /\ tasks' \in Seq(WindowIds) /\ IsInjective(tasks')
       /\ Range(tasks') = Range(tasks) \cup Range(ws)
  BY <1>1, <1>6, <1>7, <1>8, <1>9, <1>10, Joined
<1>12. QED
  BY <1>3, <1>4, <1>5, <1>11

(* What does not depend on the tokens' own removal is kept. *)
LEMMA RemovalKeeps ==
  ASSUME LifecycleInv, NEW ws \in Seq(WindowIds), IsInjective(ws), Range(ws) \subseteq alive,
         RemoveWindows(ws), UNCHANGED <<windowMap, alive>>,
         DOMAIN tokens' = DOMAIN tokens,
         \A t \in DOMAIN tokens : tokens'[t].children = tokens[t].children
  PROVE  TaskFindsItsWindow' /\ RemovedHaveTasks' /\ PointersAgree' /\ WindowsKnown'
<1>1. /\ DOMAIN windows' = DOMAIN windows
      /\ \A i \in DOMAIN windows :
           /\ windows'[i].client = windows[i].client /\ windows'[i].token = windows[i].token
           /\ windows'[i].removed <=> windows[i].removed \/ i \in Range(ws)
      /\ IsInjective(tasks') /\ Range(tasks') = Range(tasks) \cup Range(ws)
  BY Removal
<1>2. alive \subseteq DOMAIN windows /\ alive' = alive /\ windowMap' = windowMap
  BY ObjectsTyped DEF LifecycleInv
<1>3. \A i \in alive : windowMap[windows[i].client] = i
  BY DEF LifecycleInv, PointersAgree
<1>4. TaskFindsItsWindow'
  BY <1>1, <1>2, <1>3 DEF LifecycleInv, TaskFindsItsWindow
<1>5. RemovedHaveTasks'
  BY <1>1, <1>2 DEF LifecycleInv, RemovedHaveTasks
<1>6. PointersAgree'
  <2>1. alive = {windowMap[c] : c \in Clients} \ {Nothing}
    BY DEF LifecycleInv, PointersAgree
  <2>2. \A i \in alive : windows'[i].client = windows[i].client /\ windows'[i].token = windows[i].token
    BY <1>1, <1>2
  <2>3. ASSUME NEW t \in DOMAIN tokens
        PROVE  /\ IsInjective(tokens'[t].children)
               /\ Range(tokens'[t].children) = {i \in alive : windows'[i].token = t}
    <3>1. IsInjective(tokens[t].children) /\ Range(tokens[t].children) = {i \in alive : windows[i].token = t}
      BY DEF LifecycleInv, PointersAgree
    <3>2. QED
      BY <2>2, <3>1
  <2>4. alive' = {windowMap'[c] : c \in Clients} \ {Nothing}
    BY <1>2, <2>1
  <2>5. \A i \in alive' : windowMap'[windows'[i].client] = i
    BY <1>2, <1>3, <2>2
  <2>6. \A t \in DOMAIN tokens' :
          /\ IsInjective(tokens'[t].children)
          /\ Range(tokens'[t].children) = {i \in alive' : windows'[i].token = t}
    BY <1>2, <2>3
  <2>7. QED
    BY <2>4, <2>5, <2>6, Zenon DEF PointersAgree
<1>7. WindowsKnown'
  BY <1>1, <1>2 DEF LifecycleInv, WindowsKnown
<1>8. QED
  BY <1>4, <1>5, <1>6, <1>7

-----------------------------------------------------------------------------
(* Each action keeps the invariant *)

LEMMA LifecycleStart == LifecycleInit => LifecycleInv
<1> SUFFICES ASSUME LifecycleInit PROVE LifecycleInv
  OBVIOUS
<1>1. windows = << >> /\ tokens = << >> /\ tasks = << >> /\ alive = {} /\ dead = {}
  BY DEF LifecycleInit
<1>2. DOMAIN windows = {} /\ DOMAIN tokens = {} /\ Range(tasks) = {} /\ IsInjective(tasks)
  BY <1>1 DEF Range, IsInjective
<1>3. /\ windowMap = [c \in Clients |-> Nothing] /\ tokenMap = [b \in Binders |-> Nothing]
  BY DEF LifecycleInit
<1>4. LifecycleTypeOK
  <2>1. /\ windows \in Seq([client : Clients, token : TokenIds, removed : BOOLEAN])
        /\ tokens \in Seq([binder : Binders, children : Seq(WindowIds), removed : BOOLEAN])
        /\ tasks \in Seq(WindowIds)
    BY <1>1
  <2>2. QED
    BY <1>1, <1>2, <1>3, <2>1 DEF LifecycleTypeOK
<1>5. PointersAgree
  <2>1. {windowMap[c] : c \in Clients} \ {Nothing} = {}
    BY <1>3
  <2>2. QED
    BY <1>1, <1>2, <2>1 DEF PointersAgree
<1>6. QED
  BY <1>1, <1>2, <1>3, <1>4, <1>5
     DEF LifecycleInv, WindowsKnown, TokensKnown, RemovedHaveTasks, TaskFindsItsWindow, TokensAgree,
         OwnTokensAreUsed

(* A token of no windows is made. *)
LEMMA AddWindowTokenKeeps ==
  ASSUME LifecycleInv, NEW b \in AppTokens, AddWindowToken(b)
  PROVE  LifecycleInv'
<1> DEFINE n == Len(tokens) + 1
<1>1. /\ windows \in Seq(WindowStates) /\ tokens \in Seq(TokenStates)
      /\ DOMAIN tokens = 1 .. Len(tokens) /\ Len(tokens) \in Nat
      /\ \A t \in DOMAIN tokens : tokens[t] \in TokenStates
      /\ alive \subseteq DOMAIN windows
      /\ Nothing \notin TokenIds
  BY ObjectsTyped DEF LifecycleInv
<1>2. b \in Binders /\ n \in TokenIds /\ n # Nothing
  <2>1. MaxTokens \in Nat
    BY LimitAssumption
  <2>2. QED
    BY <1>1, <2>1 DEF AddWindowToken, Binders, TokenIds, Nothing
<1>3. NewToken(b) \in TokenStates
  BY <1>2 DEF NewToken, TokenStates
<1>4. /\ tokens' = Append(tokens, NewToken(b)) /\ tokenMap' = [tokenMap EXCEPT ![b] = n]
      /\ tokenMap[b] = Nothing
      /\ UNCHANGED <<windowMap, windows, alive, tasks, dead>>
  BY DEF AddWindowToken
<1>5. /\ tokens' \in Seq(TokenStates)
      /\ DOMAIN tokens' = DOMAIN tokens \cup {n} /\ n \notin DOMAIN tokens
      /\ \A t \in DOMAIN tokens : tokens'[t] = tokens[t]
      /\ tokens'[n] = NewToken(b)
  BY <1>1, <1>3, <1>4, Allocated
<1>6. tokens'[n].binder = b /\ tokens'[n].children = << >> /\ ~tokens'[n].removed
  BY <1>5 DEF NewToken
<1> HIDE DEF n
<1>7. tokenMap \in [Binders -> TokenIds \cup {Nothing}]
  BY DEF LifecycleInv, LifecycleTypeOK
<1>8. tokenMap'[b] = n /\ \A x \in Binders : x # b => tokenMap'[x] = tokenMap[x]
  BY <1>2, <1>4, <1>7
<1>9. LifecycleTypeOK'
  <2>1. tokenMap' \in [Binders -> TokenIds \cup {Nothing}]
    BY <1>2, <1>4, <1>7
  <2>2. tokens' \in Seq([binder : Binders, children : Seq(WindowIds), removed : BOOLEAN])
    BY <1>5 DEF TokenStates
  <2>3. QED
    BY <1>4, <2>1, <2>2 DEF LifecycleInv, LifecycleTypeOK
<1>10. WindowsKnown'
  BY <1>4, <1>5 DEF LifecycleInv, WindowsKnown
<1>11. TokensKnown'
  <2>1. ASSUME NEW x \in Binders, tokenMap'[x] # Nothing
        PROVE  tokenMap'[x] \in DOMAIN tokens' /\ tokens'[tokenMap'[x]].binder = x
    <3>1. CASE x = b
      BY <1>5, <1>6, <1>8, <3>1
    <3>2. CASE x # b
      <4>1. tokenMap'[x] = tokenMap[x]
        BY <1>8, <3>2
      <4>2. tokenMap[x] \in DOMAIN tokens /\ tokens[tokenMap[x]].binder = x
        BY <2>1, <4>1 DEF LifecycleInv, TokensKnown
      <4>3. QED
        BY <1>5, <4>1, <4>2
    <3>3. QED
      BY <3>1, <3>2
  <2>2. \A t \in DOMAIN tokens : tokens[t].binder \in AppTokens \cup {t}
    BY DEF LifecycleInv, TokensKnown
  <2>3. \A t \in DOMAIN tokens' : tokens'[t].binder \in AppTokens \cup {t}
    BY <1>5, <1>6, <2>2
  <2>4. QED
    BY <2>1, <2>3 DEF TokensKnown
<1>12. RemovedHaveTasks' /\ TaskFindsItsWindow'
  BY <1>4 DEF LifecycleInv, RemovedHaveTasks, TaskFindsItsWindow
<1>13. PointersAgree'
  <2>1. ASSUME NEW t \in DOMAIN tokens'
        PROVE  /\ IsInjective(tokens'[t].children)
               /\ Range(tokens'[t].children) = {i \in alive : windows[i].token = t}
    <3>1. CASE t \in DOMAIN tokens
      BY <1>5, <3>1 DEF LifecycleInv, PointersAgree
    <3>2. CASE t = n
      <4>1. \A i \in alive : windows[i].token # n
        BY <1>1, <1>5 DEF LifecycleInv, WindowsKnown
      <4>2. IsInjective(<< >>) /\ Range(<< >>) = {}
        BY DEF IsInjective, Range
      <4>3. QED
        BY <1>6, <3>2, <4>1, <4>2
    <3>3. QED
      BY <1>5, <3>1, <3>2
  <2>2. alive' = {windowMap'[c] : c \in Clients} \ {Nothing}
    BY <1>4 DEF LifecycleInv, PointersAgree
  <2>3. \A i \in alive' : windowMap'[windows'[i].client] = i
    BY <1>4 DEF LifecycleInv, PointersAgree
  <2>4. \A t \in DOMAIN tokens' :
          /\ IsInjective(tokens'[t].children)
          /\ Range(tokens'[t].children) = {i \in alive' : windows'[i].token = t}
    BY <1>4, <2>1
  <2>5. QED
    BY <2>2, <2>3, <2>4, Zenon DEF PointersAgree
<1>14. TokensAgree'
  <2>1. ASSUME NEW t \in DOMAIN tokens'
        PROVE  /\ ~tokens'[t].removed <=> tokenMap'[tokens'[t].binder] = t
               /\ tokens'[t].removed => \A i \in Range(tokens'[t].children) : windows'[i].removed
    <3>1. CASE t \in DOMAIN tokens
      <4>1. tokens'[t] = tokens[t] /\ t # n /\ t # Nothing /\ tokens[t].binder \in Binders
        BY <1>1, <1>5, <3>1 DEF TokenStates, Nothing
      <4>2. tokenMap'[tokens[t].binder] = t <=> tokenMap[tokens[t].binder] = t
        BY <1>4, <1>8, <4>1
      <4>3. /\ ~tokens[t].removed <=> tokenMap[tokens[t].binder] = t
            /\ tokens[t].removed => \A i \in Range(tokens[t].children) : windows[i].removed
        BY <3>1, Zenon DEF LifecycleInv, TokensAgree
      <4>4. windows' = windows
        BY <1>4
      <4>5. QED
        BY <4>1, <4>2, <4>3, <4>4, Zenon
    <3>2. CASE t = n
      BY <1>6, <1>8, <3>2
    <3>3. QED
      BY <1>5, <3>1, <3>2
  <2>2. QED
    BY <2>1, Zenon DEF TokensAgree
<1>15. OwnTokensAreUsed'
  BY <1>5, <1>6 DEF LifecycleInv, OwnTokensAreUsed
<1>16. QED
  BY <1>9, <1>10, <1>11, <1>12, <1>13, <1>14, <1>15 DEF LifecycleInv

(* What holds once the window w of client c has been made on the token t. *)
MadeFor(c, t, w) ==
  /\ w \in WindowIds /\ w \notin DOMAIN windows /\ w # Nothing
  /\ windows' \in Seq(WindowStates) /\ DOMAIN windows' = DOMAIN windows \cup {w}
  /\ \A i \in DOMAIN windows : windows'[i] = windows[i]
  /\ windows'[w].token = t /\ windows'[w].client = c /\ ~windows'[w].removed
  /\ alive' = alive \cup {w} /\ alive' \subseteq DOMAIN windows'
  /\ windowMap' \in [Clients -> WindowIds \cup {Nothing}]
  /\ \A d \in Clients : windowMap'[d] # Nothing =>
       windowMap'[d] \in DOMAIN windows' /\ windows'[windowMap'[d]].client = d
  /\ alive' = {windowMap'[d] : d \in Clients} \ {Nothing}
  /\ \A i \in alive' : windowMap'[windows'[i].client] = i
  /\ TaskFindsItsWindow' /\ RemovedHaveTasks'

(***************************************************************************)
(* A window is made for a client that has none, on the token t: what holds *)
(* of the windows and their tasks goes on to hold.                         *)
(***************************************************************************)
LEMMA WindowMade ==
  ASSUME LifecycleInv, NEW c \in Clients, NEW t \in TokenIds, CanAdd(c), NewWindow(c, t),
         UNCHANGED tasks, NEW w, w = Len(windows) + 1
  PROVE  MadeFor(c, t, w)
<1>1. /\ windows \in Seq(WindowStates)
      /\ DOMAIN windows = 1 .. Len(windows) /\ Len(windows) \in Nat
      /\ alive \subseteq DOMAIN windows
      /\ \A i \in DOMAIN windows : windows[i] \in WindowStates
  BY ObjectsTyped DEF LifecycleInv
<1>2. /\ windows' = Append(windows, NewState(c, t)) /\ alive' = alive \cup {w}
      /\ windowMap' = [windowMap EXCEPT ![c] = w]
      /\ windowMap[c] = Nothing /\ Len(windows) < MaxWindows
  BY DEF NewWindow, CanAdd
<1>3. w \in WindowIds /\ w # Nothing
  <2>1. MaxWindows \in Nat
    BY LimitAssumption
  <2>2. QED
    BY <1>1, <1>2, <2>1 DEF WindowIds, Nothing
<1>4. NewState(c, t) \in WindowStates
  BY DEF NewState, WindowStates
<1>5. /\ windows' \in Seq(WindowStates) /\ DOMAIN windows' = DOMAIN windows \cup {w}
      /\ w \notin DOMAIN windows
      /\ \A i \in DOMAIN windows : windows'[i] = windows[i]
      /\ windows'[w] = NewState(c, t)
  BY <1>1, <1>2, <1>4, Allocated
<1>6. windows'[w].token = t /\ windows'[w].client = c /\ ~windows'[w].removed
  BY <1>5 DEF NewState
<1>7. windowMap \in [Clients -> WindowIds \cup {Nothing}]
  BY DEF LifecycleInv, LifecycleTypeOK
<1>8. windowMap'[c] = w /\ \A d \in Clients : d # c => windowMap'[d] = windowMap[d]
  BY <1>2, <1>7
<1>9. windowMap' \in [Clients -> WindowIds \cup {Nothing}]
  BY <1>2, <1>3, <1>7
<1>10. /\ alive = {windowMap[d] : d \in Clients} \ {Nothing}
       /\ \A i \in alive : windowMap[windows[i].client] = i
  BY DEF LifecycleInv, PointersAgree
<1>11. \A i \in alive : i \in DOMAIN windows /\ windows'[i] = windows[i] /\ windows[i].client \in Clients
  BY <1>1, <1>5 DEF WindowStates
<1>12. \A i \in alive : windows[i].client # c /\ windowMap'[windows'[i].client] = i
  <2>1. \A i \in alive : i # Nothing
    BY <1>10
  <2>2. QED
    BY <1>2, <1>8, <1>10, <1>11, <2>1
<1>13. \A d \in Clients : windowMap'[d] # Nothing =>
         windowMap'[d] \in DOMAIN windows' /\ windows'[windowMap'[d]].client = d
  <2>1. ASSUME NEW d \in Clients, windowMap'[d] # Nothing
        PROVE  windowMap'[d] \in DOMAIN windows' /\ windows'[windowMap'[d]].client = d
    <3>1. CASE d = c
      BY <1>5, <1>6, <1>8, <3>1
    <3>2. CASE d # c
      <4>1. windowMap'[d] = windowMap[d]
        BY <1>8, <3>2
      <4>2. windowMap[d] \in DOMAIN windows /\ windows[windowMap[d]].client = d
        BY <2>1, <4>1 DEF LifecycleInv, WindowsKnown
      <4>3. QED
        BY <1>5, <4>1, <4>2
    <3>3. QED
      BY <3>1, <3>2
  <2>2. QED
    BY <2>1
<1>14. alive' = {windowMap'[d] : d \in Clients} \ {Nothing}
  <2>1. ASSUME NEW d \in Clients, windowMap'[d] # Nothing PROVE windowMap'[d] \in alive'
    BY <1>2, <1>8, <1>10, <2>1
  <2>2. ASSUME NEW i \in alive PROVE i # Nothing /\ \E d \in Clients : windowMap'[d] = i
    BY <1>10, <1>11, <1>12, <2>2
  <2>3. w # Nothing /\ \E d \in Clients : windowMap'[d] = w
    BY <1>3, <1>8
  <2>4. alive' = alive \cup {w}
    BY <1>2
  <2>5. QED
    BY <2>1, <2>2, <2>3, <2>4
<1>15. \A i \in alive' : windowMap'[windows'[i].client] = i
  BY <1>2, <1>6, <1>8, <1>12
<1>16. TaskFindsItsWindow'
  <2>1. IsInjective(tasks) /\ \A i \in Range(tasks) : i \in alive
    BY DEF LifecycleInv, TaskFindsItsWindow
  <2>2. QED
    BY <1>2, <1>12, <2>1 DEF TaskFindsItsWindow
<1>17. RemovedHaveTasks'
  <2>1. w \notin Range(tasks)
    BY <1>1, <1>5 DEF LifecycleInv, TaskFindsItsWindow
  <2>2. \A i \in alive : windows'[i].removed <=> i \in Range(tasks)
    BY <1>11 DEF LifecycleInv, RemovedHaveTasks
  <2>3. QED
    BY <1>2, <1>6, <2>1, <2>2 DEF RemovedHaveTasks
<1>18. alive' \subseteq DOMAIN windows'
  BY <1>1, <1>2, <1>5
<1>19. QED
  BY <1>2, <1>3, <1>5, <1>6, <1>9, <1>13, <1>14, <1>15, <1>16, <1>17, <1>18 DEF MadeFor

LEMMA AddWindowKeeps ==
  ASSUME LifecycleInv, NEW c \in Clients, NEW b \in AppTokens, AddWindow(c, b)
  PROVE  LifecycleInv'
<1>1. PICK w : w = Len(windows) + 1
  OBVIOUS
<1>0. PICK t : t = tokenMap[b]
  OBVIOUS
<1>2. b \in Binders /\ t \in TokenIds /\ t \in DOMAIN tokens /\ tokens[t].binder = b
  BY <1>0 DEF AddWindow, LifecycleInv, LifecycleTypeOK, TokensKnown, Binders
<1>3. CanAdd(c) /\ NewWindow(c, t) /\ UNCHANGED <<tokenMap, tasks, dead>>
      /\ tokens' = [tokens EXCEPT ![t].children = Append(@, w)]
  BY <1>0, <1>1 DEF AddWindow, WithChild
<1>4. /\ tokens \in Seq(TokenStates) /\ tasks \in Seq(WindowIds)
      /\ DOMAIN tokens = 1 .. Len(tokens) /\ Len(tokens) \in Nat
      /\ \A x \in DOMAIN tokens : tokens[x] \in TokenStates /\ tokens[x].children \in Seq(WindowIds)
      /\ alive \subseteq DOMAIN windows
  BY ObjectsTyped DEF LifecycleInv
<1>5. /\ w \in WindowIds /\ w \notin DOMAIN windows /\ w # Nothing
      /\ windows' \in Seq(WindowStates) /\ DOMAIN windows' = DOMAIN windows \cup {w}
      /\ \A i \in DOMAIN windows : windows'[i] = windows[i]
      /\ windows'[w].token = t /\ windows'[w].client = c /\ ~windows'[w].removed
      /\ alive' = alive \cup {w} /\ alive' \subseteq DOMAIN windows'
      /\ windowMap' \in [Clients -> WindowIds \cup {Nothing}]
      /\ \A d \in Clients : windowMap'[d] # Nothing =>
           windowMap'[d] \in DOMAIN windows' /\ windows'[windowMap'[d]].client = d
      /\ alive' = {windowMap'[d] : d \in Clients} \ {Nothing}
      /\ \A i \in alive' : windowMap'[windows'[i].client] = i
      /\ TaskFindsItsWindow' /\ RemovedHaveTasks'
  <2>1. CanAdd(c) /\ NewWindow(c, t) /\ UNCHANGED tasks
    BY <1>3
  <2>2. t \in TokenIds
    BY <1>2
  <2>3. MadeFor(c, t, w)
    BY <1>1, <2>1, <2>2, WindowMade
  <2>4. QED
    BY <2>3 DEF MadeFor
<1>6. /\ Append(tokens[t].children, w) \in Seq(WindowIds)
      /\ Append(tokens[t].children, w) # << >>
      /\ Range(Append(tokens[t].children, w)) = Range(tokens[t].children) \cup {w}
      /\ IsInjective(Append(tokens[t].children, w))
  <2>1. IsInjective(tokens[t].children) /\ w \notin Range(tokens[t].children)
    BY <1>2, <1>4, <1>5 DEF LifecycleInv, PointersAgree
  <2>2. PICK children \in Seq(WindowIds) : children = tokens[t].children
    BY <1>2, <1>4
  <2>3. QED
    BY <1>5, <2>1, <2>2, LastAdded
<1>7. /\ DOMAIN tokens' = DOMAIN tokens
      /\ \A x \in DOMAIN tokens : x # t => tokens'[x] = tokens[x]
      /\ tokens'[t] = [tokens[t] EXCEPT !.children = Append(tokens[t].children, w)]
  BY <1>2, <1>3
<1>8. /\ tokens'[t].binder = b /\ tokens'[t].removed = tokens[t].removed
      /\ tokens'[t].children = Append(tokens[t].children, w)
      /\ tokens'[t] \in TokenStates
  BY <1>2, <1>4, <1>6, <1>7 DEF TokenStates
<1>9. tokens' \in Seq(TokenStates)
  <2>1. PICK x \in TokenStates : x = tokens'[t]
    BY <1>8
  <2>2. tokens' = [tokens EXCEPT ![t] = x]
    BY <1>2, <1>3, <1>7, <2>1
  <2>3. QED
    BY <1>2, <1>4, <2>2, ExceptSeq
<1>10. \A x \in DOMAIN tokens : tokens'[x].binder = tokens[x].binder /\ tokens'[x].removed = tokens[x].removed
  BY <1>2, <1>7, <1>8
<1>11. LifecycleTypeOK'
  <2>1. /\ tokenMap' \in [Binders -> TokenIds \cup {Nothing}] /\ dead' \subseteq Clients
        /\ tasks' \in Seq(WindowIds)
    BY <1>3 DEF LifecycleInv, LifecycleTypeOK
  <2>2. QED
    BY <1>5, <1>9, <2>1 DEF LifecycleTypeOK, WindowStates, TokenStates
<1>12. WindowsKnown'
  BY <1>2, <1>5, <1>7 DEF LifecycleInv, WindowsKnown
<1>13. TokensKnown'
  BY <1>3, <1>7, <1>10 DEF LifecycleInv, TokensKnown
<1>14. PointersAgree'
  <2>1. ASSUME NEW x \in DOMAIN tokens
        PROVE  /\ IsInjective(tokens'[x].children)
               /\ Range(tokens'[x].children) = {i \in alive' : windows'[i].token = x}
    <3>1. IsInjective(tokens[x].children)
          /\ Range(tokens[x].children) = {i \in alive : windows[i].token = x}
      BY DEF LifecycleInv, PointersAgree
    <3>2. \A i \in alive : windows'[i].token = windows[i].token
      BY <1>4, <1>5
    <3>3. CASE x = t
      <4>1. Range(tokens'[t].children) = {i \in alive : windows[i].token = t} \cup {w}
        BY <1>6, <1>8, <3>1, <3>3
      <4>2. {i \in alive' : windows'[i].token = t} = {i \in alive : windows[i].token = t} \cup {w}
        BY <1>5, <3>2
      <4>3. QED
        BY <1>6, <1>8, <3>3, <4>1, <4>2
    <3>4. CASE x # t
      <4>1. {i \in alive' : windows'[i].token = x} = {i \in alive : windows[i].token = x}
        BY <1>5, <3>2, <3>4
      <4>2. QED
        BY <1>7, <3>1, <3>4, <4>1
    <3>5. QED
      BY <3>3, <3>4
  <2>2. \A x \in DOMAIN tokens' :
          /\ IsInjective(tokens'[x].children)
          /\ Range(tokens'[x].children) = {i \in alive' : windows'[i].token = x}
    BY <1>7, <2>1
  <2>3. QED
    BY <1>5, <2>2, Zenon DEF PointersAgree
<1>15. TokensAgree'
  <2>1. ~tokens[t].removed
    BY <1>0, <1>2, Zenon DEF LifecycleInv, TokensAgree
  <2>2. ASSUME NEW x \in DOMAIN tokens
        PROVE  /\ ~tokens'[x].removed <=> tokenMap'[tokens'[x].binder] = x
               /\ tokens'[x].removed => \A i \in Range(tokens'[x].children) : windows'[i].removed
    <3>1. /\ ~tokens[x].removed <=> tokenMap[tokens[x].binder] = x
          /\ tokens[x].removed => \A i \in Range(tokens[x].children) : windows[i].removed
      BY Zenon DEF LifecycleInv, TokensAgree
    <3>2. ~tokens'[x].removed <=> tokenMap'[tokens'[x].binder] = x
      BY <1>3, <1>10, <3>1
    <3>3. ASSUME tokens'[x].removed PROVE \A i \in Range(tokens'[x].children) : windows'[i].removed
      <4>1. x # t /\ tokens'[x] = tokens[x]
        BY <1>7, <1>10, <2>1, <3>3
      <4>2. Range(tokens[x].children) \subseteq alive
        BY DEF LifecycleInv, PointersAgree
      <4>3. \A i \in alive : windows'[i].removed = windows[i].removed
        BY <1>4, <1>5
      <4>4. QED
        BY <3>1, <3>3, <4>1, <4>2, <4>3
    <3>4. QED
      BY <3>2, <3>3
  <2>3. QED
    BY <1>7, <2>2, Zenon DEF TokensAgree
<1>16. OwnTokensAreUsed'
  BY <1>2, <1>7, <1>8, <1>6 DEF LifecycleInv, OwnTokensAreUsed
<1>17. QED
  BY <1>5, <1>11, <1>12, <1>13, <1>14, <1>15, <1>16 DEF LifecycleInv

(* A window and a token are made for one another. *)
LEMMA AddWindowOfItsOwnKeeps ==
  ASSUME LifecycleInv, NEW c \in Clients, AddWindowOfItsOwn(c)
  PROVE  LifecycleInv'
<1>1. PICK w : w = Len(windows) + 1
  OBVIOUS
<1>2. PICK t : t = Len(tokens) + 1
  OBVIOUS
<1>3. /\ tokens \in Seq(TokenStates) /\ tasks \in Seq(WindowIds)
      /\ DOMAIN tokens = 1 .. Len(tokens) /\ Len(tokens) \in Nat
      /\ \A x \in DOMAIN tokens : tokens[x] \in TokenStates /\ tokens[x].children \in Seq(WindowIds)
      /\ alive \subseteq DOMAIN windows
  BY ObjectsTyped DEF LifecycleInv
<1>4. /\ CanAdd(c) /\ t <= MaxTokens /\ NewWindow(c, t)
      /\ tokens' = Append(tokens, [NewToken(t) EXCEPT !.children = <<w>>])
      /\ tokenMap' = [tokenMap EXCEPT ![t] = t]
      /\ tasks' = tasks /\ dead' = dead
  BY <1>1, <1>2 DEF AddWindowOfItsOwn
<1>5. t \in TokenIds /\ t \in Binders /\ t # Nothing /\ t \notin AppTokens
  <2>1. MaxTokens \in Nat /\ AppTokens \cap Nat = {}
    BY LimitAssumption, BindersAssumption
  <2>2. QED
    BY <1>2, <1>3, <1>4, <2>1 DEF TokenIds, Binders, Nothing
<1>6. MadeFor(c, t, w)
  BY <1>1, <1>4, <1>5, WindowMade
<1>7. <<w>> \in Seq(WindowIds) /\ <<w>> # << >> /\ IsInjective(<<w>>) /\ Range(<<w>>) = {w}
  <2>1. w \in WindowIds
    BY <1>6 DEF MadeFor
  <2>2. DOMAIN <<w>> = {1} /\ <<w>>[1] = w
    OBVIOUS
  <2>3. IsInjective(<<w>>) /\ Range(<<w>>) = {w}
    BY <2>2 DEF IsInjective, Range
  <2>4. QED
    BY <2>1, <2>3
<1>8. PICK x \in TokenStates :
        /\ x = [NewToken(t) EXCEPT !.children = <<w>>]
        /\ x.binder = t /\ x.children = <<w>> /\ x.removed = FALSE
  <2> DEFINE x == [NewToken(t) EXCEPT !.children = <<w>>]
  <2>1. x.binder = t /\ x.children = <<w>> /\ x.removed = FALSE
    BY DEF NewToken
  <2>2. x \in TokenStates
    BY <1>5, <1>7 DEF NewToken, TokenStates
  <2> HIDE DEF x
  <2>3. QED
    BY <2>1, <2>2 DEF x
<1>9. /\ tokens' \in Seq(TokenStates)
      /\ DOMAIN tokens' = DOMAIN tokens \cup {t} /\ t \notin DOMAIN tokens
      /\ \A y \in DOMAIN tokens : tokens'[y] = tokens[y]
      /\ tokens'[t] = x
  BY <1>2, <1>3, <1>4, <1>8, Allocated
<1>10. tokenMap \in [Binders -> TokenIds \cup {Nothing}]
  BY DEF LifecycleInv, LifecycleTypeOK
<1>11. tokenMap'[t] = t /\ \A b \in Binders : b # t => tokenMap'[b] = tokenMap[b]
  BY <1>4, <1>5, <1>10
<1>12. \A y \in DOMAIN tokens : tokens[y].binder \in Binders /\ tokens[y].binder # t
  <2>1. ASSUME NEW y \in DOMAIN tokens PROVE tokens[y].binder \in Binders /\ tokens[y].binder # t
    <3>1. tokens[y].binder \in Binders
      BY <1>3 DEF TokenStates
    <3>2. tokens[y].binder \in AppTokens \cup {y} /\ y # t
      BY <1>9 DEF LifecycleInv, TokensKnown
    <3>3. QED
      BY <1>5, <3>1, <3>2
  <2>2. QED
    BY <2>1
<1>13. LifecycleTypeOK'
  <2>1. tokenMap' \in [Binders -> TokenIds \cup {Nothing}] /\ dead' \subseteq Clients
        /\ tasks' \in Seq(WindowIds)
    BY <1>3, <1>4, <1>5, <1>10 DEF LifecycleInv, LifecycleTypeOK
  <2>2. QED
    BY <1>6, <1>9, <2>1 DEF MadeFor, LifecycleTypeOK, WindowStates, TokenStates
<1>14. WindowsKnown'
  BY <1>6, <1>9 DEF MadeFor, LifecycleInv, WindowsKnown
<1>15. TokensKnown'
  <2>1. ASSUME NEW b \in Binders, tokenMap'[b] # Nothing
        PROVE  tokenMap'[b] \in DOMAIN tokens' /\ tokens'[tokenMap'[b]].binder = b
    <3>1. CASE b = t
      BY <1>8, <1>9, <1>11, <3>1
    <3>2. CASE b # t
      <4>1. tokenMap'[b] = tokenMap[b]
        BY <1>11, <3>2
      <4>2. tokenMap[b] \in DOMAIN tokens /\ tokens[tokenMap[b]].binder = b
        BY <2>1, <4>1 DEF LifecycleInv, TokensKnown
      <4>3. QED
        BY <1>9, <4>1, <4>2
    <3>3. QED
      BY <3>1, <3>2
  <2>2. \A y \in DOMAIN tokens' : tokens'[y].binder \in AppTokens \cup {y}
    BY <1>8, <1>9 DEF LifecycleInv, TokensKnown
  <2>3. QED
    BY <2>1, <2>2 DEF TokensKnown
<1>16. PointersAgree'
  <2>1. \A i \in alive : windows'[i] = windows[i] /\ i \in DOMAIN windows /\ windows[i].token # t
    BY <1>3, <1>6, <1>9 DEF MadeFor, LifecycleInv, WindowsKnown
  <2>2. alive' = alive \cup {w} /\ windows'[w].token = t
    BY <1>6 DEF MadeFor
  <2>3. ASSUME NEW y \in DOMAIN tokens'
        PROVE  /\ IsInjective(tokens'[y].children)
               /\ Range(tokens'[y].children) = {i \in alive' : windows'[i].token = y}
    <3>1. CASE y = t
      <4>1. {i \in alive' : windows'[i].token = t} = {w}
        BY <2>1, <2>2
      <4>2. QED
        BY <1>7, <1>8, <1>9, <3>1, <4>1
    <3>2. CASE y # t
      <4>1. y \in DOMAIN tokens /\ tokens'[y] = tokens[y]
        BY <1>9, <3>2
      <4>2. IsInjective(tokens[y].children)
            /\ Range(tokens[y].children) = {i \in alive : windows[i].token = y}
        BY <4>1 DEF LifecycleInv, PointersAgree
      <4>3. {i \in alive' : windows'[i].token = y} = {i \in alive : windows[i].token = y}
        BY <2>1, <2>2, <3>2
      <4>4. QED
        BY <4>1, <4>2, <4>3
    <3>3. QED
      BY <3>1, <3>2
  <2>4. QED
    BY <1>6, <2>3, Zenon DEF MadeFor, PointersAgree
<1>17. TokensAgree'
  <2>1. ASSUME NEW y \in DOMAIN tokens'
        PROVE  /\ ~tokens'[y].removed <=> tokenMap'[tokens'[y].binder] = y
               /\ tokens'[y].removed => \A i \in Range(tokens'[y].children) : windows'[i].removed
    <3>1. CASE y = t
      BY <1>8, <1>9, <1>11, <3>1
    <3>2. CASE y # t
      <4>1. y \in DOMAIN tokens /\ tokens'[y] = tokens[y]
        BY <1>9, <3>2
      <4>2. /\ ~tokens[y].removed <=> tokenMap[tokens[y].binder] = y
            /\ tokens[y].removed => \A i \in Range(tokens[y].children) : windows[i].removed
        BY <4>1, Zenon DEF LifecycleInv, TokensAgree
      <4>3. tokenMap'[tokens[y].binder] = tokenMap[tokens[y].binder]
        BY <1>11, <1>12, <4>1
      <4>4. Range(tokens[y].children) \subseteq alive
        BY <4>1 DEF LifecycleInv, PointersAgree
      <4>5. \A i \in alive : windows'[i] = windows[i]
        BY <1>3, <1>6 DEF MadeFor
      <4>6. QED
        BY <4>1, <4>2, <4>3, <4>4, <4>5
    <3>3. QED
      BY <3>1, <3>2
  <2>2. QED
    BY <2>1, Zenon DEF TokensAgree
<1>18. OwnTokensAreUsed'
  BY <1>7, <1>8, <1>9 DEF LifecycleInv, OwnTokensAreUsed
<1>19. QED
  BY <1>6, <1>13, <1>14, <1>15, <1>16, <1>17, <1>18 DEF LifecycleInv, MadeFor

(* A window of the map is removed, by its app or because its app has died. *)
LEMMA OneRemoved ==
  ASSUME LifecycleInv, NEW c \in Clients, windowMap[c] # Nothing, RemoveWindows(<<windowMap[c]>>),
         UNCHANGED <<windowMap, tokenMap, alive, tokens>>, dead' \subseteq Clients
  PROVE  LifecycleInv'
<1>1. PICK w : w = windowMap[c]
  OBVIOUS
<1>2. w \in alive /\ w \in WindowIds
  <2>1. w \in WindowIds
    BY <1>1 DEF LifecycleInv, LifecycleTypeOK
  <2>2. QED
    BY <1>1, <2>1 DEF LifecycleInv, PointersAgree
<1>3. PICK ws \in Seq(WindowIds) :
        ws = <<windowMap[c]>> /\ IsInjective(ws) /\ Range(ws) = {w}
  <2>1. DOMAIN <<w>> = {1} /\ <<w>>[1] = w
    OBVIOUS
  <2>2. IsInjective(<<w>>) /\ Range(<<w>>) = {w}
    BY <2>1 DEF IsInjective, Range
  <2>3. <<w>> \in Seq(WindowIds)
    BY <1>2
  <2>4. QED
    BY <1>1, <2>2, <2>3
<1>4. RemoveWindows(ws) /\ Range(ws) \subseteq alive
  BY <1>2, <1>3
<1>5. TaskFindsItsWindow' /\ RemovedHaveTasks' /\ PointersAgree' /\ WindowsKnown'
  BY <1>3, <1>4, RemovalKeeps
<1>6. /\ windows' \in Seq(WindowStates) /\ DOMAIN windows' = DOMAIN windows
      /\ \A i \in DOMAIN windows : windows'[i].removed <=> windows[i].removed \/ i \in Range(ws)
      /\ tasks' \in Seq(WindowIds)
  BY <1>3, <1>4, Removal
<1>7. LifecycleTypeOK'
  BY <1>6 DEF LifecycleInv, LifecycleTypeOK, WindowStates
<1>8. TokensKnown' /\ OwnTokensAreUsed'
  BY DEF LifecycleInv, TokensKnown, OwnTokensAreUsed
<1>9. TokensAgree'
  <2>1. ASSUME NEW t \in DOMAIN tokens
        PROVE  /\ ~tokens[t].removed <=> tokenMap[tokens[t].binder] = t
               /\ tokens[t].removed => \A i \in Range(tokens[t].children) : windows'[i].removed
    <3>1. /\ ~tokens[t].removed <=> tokenMap[tokens[t].binder] = t
          /\ tokens[t].removed => \A i \in Range(tokens[t].children) : windows[i].removed
      BY Zenon DEF LifecycleInv, TokensAgree
    <3>2. Range(tokens[t].children) \subseteq DOMAIN windows
      BY ObjectsTyped DEF LifecycleInv, PointersAgree
    <3>3. QED
      BY <1>6, <3>1, <3>2
  <2>2. tokens' = tokens /\ tokenMap' = tokenMap
    OBVIOUS
  <2>3. QED
    BY <2>1, <2>2, Zenon DEF TokensAgree
<1>10. QED
  BY <1>5, <1>7, <1>8, <1>9 DEF LifecycleInv

LEMMA RemoveWindowKeeps ==
  ASSUME LifecycleInv, NEW c \in Clients, RemoveWindow(c)
  PROVE  LifecycleInv'
<1>1. dead' \subseteq Clients
  BY DEF RemoveWindow, LifecycleInv, LifecycleTypeOK
<1>2. QED
  BY <1>1, OneRemoved DEF RemoveWindow

LEMMA NothingMoves ==
  ASSUME LifecycleInv, UNCHANGED <<windowMap, tokenMap, windows, alive, tokens, tasks>>,
         dead' \subseteq Clients
  PROVE  LifecycleInv'
<1>1. LifecycleTypeOK'
  BY DEF LifecycleInv, LifecycleTypeOK
<1>2. WindowsKnown' /\ TokensKnown' /\ RemovedHaveTasks' /\ TaskFindsItsWindow' /\ OwnTokensAreUsed'
  BY DEF LifecycleInv, WindowsKnown, TokensKnown, RemovedHaveTasks, TaskFindsItsWindow, OwnTokensAreUsed
<1>3. PointersAgree' /\ TokensAgree'
  BY DEF LifecycleInv, PointersAgree, TokensAgree
<1>4. QED
  BY <1>1, <1>2, <1>3 DEF LifecycleInv

LEMMA BinderDiedKeeps ==
  ASSUME LifecycleInv, NEW c \in Clients, BinderDied(c)
  PROVE  LifecycleInv'
<1>1. dead' \subseteq Clients
  BY DEF BinderDied, LifecycleInv, LifecycleTypeOK
<1>2. CASE windowMap[c] # Nothing
  BY <1>1, <1>2, OneRemoved DEF BinderDied
<1>3. CASE windowMap[c] = Nothing
  BY <1>1, <1>3, NothingMoves DEF BinderDied
<1>4. QED
  BY <1>2, <1>3

(* A token is dropped, and every window that is left of it is removed. *)
LEMMA RemoveWindowTokenKeeps ==
  ASSUME LifecycleInv, NEW b \in AppTokens, RemoveWindowToken(b)
  PROVE  LifecycleInv'
<1>1. PICK t : t = tokenMap[b]
  OBVIOUS
<1>2. b \in Binders /\ t # Nothing /\ t \in DOMAIN tokens /\ tokens[t].binder = b
  BY <1>1 DEF RemoveWindowToken, LifecycleInv, TokensKnown, Binders
<1>3. ~tokens[t].removed
  BY <1>1, <1>2, Zenon DEF LifecycleInv, TokensAgree
<1>4. /\ RemoveWindows(tokens[t].children)
      /\ tokens' = [tokens EXCEPT ![t].removed = TRUE]
      /\ tokenMap' = [tokenMap EXCEPT ![b] = Nothing]
      /\ windowMap' = windowMap /\ alive' = alive /\ dead' = dead
  BY <1>1, <1>2, <1>3 DEF RemoveWindowToken, TokenDropped, Erased
<1>5. /\ tokens \in Seq(TokenStates)
      /\ DOMAIN tokens = 1 .. Len(tokens) /\ Len(tokens) \in Nat
      /\ \A x \in DOMAIN tokens : tokens[x] \in TokenStates /\ tokens[x].children \in Seq(WindowIds)
      /\ alive \subseteq DOMAIN windows
  BY ObjectsTyped DEF LifecycleInv
<1>6. PICK ws \in Seq(WindowIds) :
        /\ ws = tokens[t].children /\ IsInjective(ws) /\ Range(ws) \subseteq alive
        /\ RemoveWindows(ws)
  BY <1>2, <1>4, <1>5 DEF LifecycleInv, PointersAgree
<1>7. PICK x \in TokenStates :
        /\ x = [tokens[t] EXCEPT !.removed = TRUE]
        /\ x.binder = b /\ x.children = ws /\ x.removed = TRUE
  <2> DEFINE x == [tokens[t] EXCEPT !.removed = TRUE]
  <2>1. x.binder = b /\ x.children = ws /\ x.removed = TRUE /\ x \in TokenStates
    BY <1>2, <1>5, <1>6 DEF TokenStates
  <2> HIDE DEF x
  <2>2. QED
    BY <2>1 DEF x
<1>8. /\ tokens' = [tokens EXCEPT ![t] = x]
      /\ DOMAIN tokens' = DOMAIN tokens /\ tokens'[t] = x
      /\ \A y \in DOMAIN tokens : y # t => tokens'[y] = tokens[y]
  BY <1>2, <1>4, <1>7
<1>9. tokens' \in Seq(TokenStates)
  BY <1>2, <1>5, <1>8, ExceptSeq
<1>10. \A y \in DOMAIN tokens :
         tokens'[y].children = tokens[y].children /\ tokens'[y].binder = tokens[y].binder
  BY <1>2, <1>6, <1>7, <1>8
<1>11. TaskFindsItsWindow' /\ RemovedHaveTasks' /\ PointersAgree' /\ WindowsKnown'
  BY <1>4, <1>6, <1>8, <1>10, RemovalKeeps
<1>12. /\ windows' \in Seq(WindowStates) /\ DOMAIN windows' = DOMAIN windows
       /\ \A i \in DOMAIN windows : windows'[i].removed <=> windows[i].removed \/ i \in Range(ws)
       /\ tasks' \in Seq(WindowIds)
  BY <1>6, Removal
<1>13. tokenMap \in [Binders -> TokenIds \cup {Nothing}]
  BY DEF LifecycleInv, LifecycleTypeOK
<1>14. tokenMap'[b] = Nothing /\ \A y \in Binders : y # b => tokenMap'[y] = tokenMap[y]
  BY <1>2, <1>4, <1>13
<1>15. LifecycleTypeOK'
  <2>1. tokenMap' \in [Binders -> TokenIds \cup {Nothing}]
    BY <1>4, <1>13
  <2>2. QED
    BY <1>4, <1>9, <1>12, <2>1 DEF LifecycleInv, LifecycleTypeOK, WindowStates, TokenStates
<1>16. TokensKnown'
  <2>1. ASSUME NEW y \in Binders, tokenMap'[y] # Nothing
        PROVE  tokenMap'[y] \in DOMAIN tokens' /\ tokens'[tokenMap'[y]].binder = y
    <3>1. tokenMap'[y] = tokenMap[y]
      BY <1>14, <2>1
    <3>2. tokenMap[y] \in DOMAIN tokens /\ tokens[tokenMap[y]].binder = y
      BY <2>1, <3>1 DEF LifecycleInv, TokensKnown
    <3>3. QED
      BY <1>8, <1>10, <3>1, <3>2
  <2>2. \A y \in DOMAIN tokens' : tokens'[y].binder \in AppTokens \cup {y}
    BY <1>8, <1>10 DEF LifecycleInv, TokensKnown
  <2>3. QED
    BY <2>1, <2>2 DEF TokensKnown
<1>17. TokensAgree'
  <2>1. ASSUME NEW y \in DOMAIN tokens
        PROVE  /\ ~tokens'[y].removed <=> tokenMap'[tokens'[y].binder] = y
               /\ tokens'[y].removed => \A i \in Range(tokens'[y].children) : windows'[i].removed
    <3>1. /\ ~tokens[y].removed <=> tokenMap[tokens[y].binder] = y
          /\ tokens[y].removed => \A i \in Range(tokens[y].children) : windows[i].removed
      BY Zenon DEF LifecycleInv, TokensAgree
    <3>2. Range(tokens[y].children) \subseteq DOMAIN windows /\ y # Nothing
      BY <1>5 DEF LifecycleInv, PointersAgree, Nothing
    <3>3. CASE y = t
      <4>1. tokens'[y].removed /\ tokens'[y].binder = b /\ tokens'[y].children = ws
        BY <1>7, <1>8, <3>3
      <4>2. \A i \in Range(ws) : windows'[i].removed
        BY <1>5, <1>6, <1>12
      <4>3. QED
        BY <1>14, <3>2, <4>1, <4>2
    <3>4. CASE y # t
      <4>1. tokens'[y] = tokens[y] /\ tokens[y].binder \in Binders
        BY <1>5, <1>8, <3>4 DEF TokenStates
      <4>2. tokenMap'[tokens[y].binder] = y <=> tokenMap[tokens[y].binder] = y
        <5>1. CASE tokens[y].binder = b
          BY <1>1, <1>14, <3>2, <3>4, <5>1
        <5>2. CASE tokens[y].binder # b
          BY <1>14, <4>1, <5>2
        <5>3. QED
          BY <5>1, <5>2
      <4>3. \A i \in Range(tokens[y].children) : windows[i].removed => windows'[i].removed
        BY <1>12, <3>2
      <4>4. QED
        BY <3>1, <4>1, <4>2, <4>3
    <3>5. QED
      BY <3>3, <3>4
  <2>2. QED
    BY <1>8, <2>1, Zenon DEF TokensAgree
<1>18. OwnTokensAreUsed'
  BY <1>7, <1>8 DEF LifecycleInv, OwnTokensAreUsed
<1>19. QED
  BY <1>11, <1>15, <1>16, <1>17, <1>18 DEF LifecycleInv

(***************************************************************************)
(* The task at the head deletes its window: it is taken from the map of    *)
(* its client, from its token, and from what is alive.  Nothing else of    *)
(* the windows changes.                                                    *)
(***************************************************************************)
LEMMA CleanupDeletes ==
  ASSUME LifecycleInv, Cleanup, NEW w, w = Head(tasks), NEW t, t = windows[w].token,
         NEW c, c = windows[w].client
  PROVE  /\ w \in alive /\ windows[w].removed /\ t \in DOMAIN tokens /\ c \in Clients
         /\ tasks' \in Seq(WindowIds) /\ IsInjective(tasks') /\ Range(tasks') = Range(tasks) \ {w}
         /\ alive' = alive \ {w} /\ windows' = windows /\ dead' = dead
         /\ windowMap' = [windowMap EXCEPT ![c] = Nothing]
         /\ WithoutFirst(tokens[t].children, w) \in Seq(WindowIds)
         /\ IsInjective(WithoutFirst(tokens[t].children, w))
         /\ Range(WithoutFirst(tokens[t].children, w)) = Range(tokens[t].children) \ {w}
<1>1. tasks \in Seq(WindowIds) /\ tasks # << >> /\ IsInjective(tasks)
  BY DEF LifecycleInv, LifecycleTypeOK, TaskFindsItsWindow, Cleanup
<1>2. /\ w \in Range(tasks)
      /\ Tail(tasks) \in Seq(WindowIds) /\ IsInjective(Tail(tasks)) /\ Range(Tail(tasks)) = Range(tasks) \ {w}
  BY <1>1, FirstTaken
<1>3. w \in alive /\ windowMap[c] = w
  BY <1>2 DEF LifecycleInv, TaskFindsItsWindow
<1>4. windows[w].removed
  BY <1>2, <1>3, Zenon DEF LifecycleInv, RemovedHaveTasks
<1>5. w \in DOMAIN windows /\ windows[w] \in WindowStates
  BY <1>3, ObjectsTyped DEF LifecycleInv
<1>6. t \in DOMAIN tokens /\ c \in Clients
  BY <1>5 DEF LifecycleInv, WindowsKnown, WindowStates
<1>7. /\ tasks' = Tail(tasks) /\ windows' = windows /\ dead' = dead
      /\ alive' = alive \ {windowMap[c]} /\ windowMap' = [windowMap EXCEPT ![c] = Nothing]
  BY DEF Cleanup
<1>8. PICK children \in Seq(WindowIds) :
        children = tokens[t].children /\ IsInjective(children) /\ w \in Range(children)
  BY <1>3, <1>6, ObjectsTyped DEF LifecycleInv, PointersAgree
<1>9. /\ WithoutFirst(children, w) \in Seq(WindowIds)
      /\ IsInjective(WithoutFirst(children, w))
      /\ Range(WithoutFirst(children, w)) = Range(children) \ {w}
  BY <1>8, OneIsErased, SMTT(60)
<1>10. QED
  BY <1>2, <1>3, <1>4, <1>6, <1>7, <1>8, <1>9

(* The token t has the children left, and goes with them if goes. *)
TokenChanges(t, left, goes) ==
  /\ tokens' \in Seq(TokenStates) /\ DOMAIN tokens' = DOMAIN tokens
  /\ \A x \in DOMAIN tokens : x # t => tokens'[x] = tokens[x]
  /\ tokens'[t].binder = tokens[t].binder /\ tokens'[t].children = left
  /\ tokens'[t].removed <=> tokens[t].removed \/ goes
  /\ goes => tokenMap' = [tokenMap EXCEPT ![tokens[t].binder] = Nothing]
  /\ ~goes => tokenMap' = tokenMap

(***************************************************************************)
(* What the task makes of the token: its list loses the window, and a      *)
(* token that is left empty and was not removed before goes too.           *)
(***************************************************************************)
LEMMA CleanupDetaches ==
  ASSUME LifecycleInv, Cleanup, NEW w, w = Head(tasks), NEW t, t = windows[w].token, t \in DOMAIN tokens,
         NEW left \in Seq(WindowIds), left = WithoutFirst(tokens[t].children, w),
         NEW goes, goes = (left = << >> /\ ~tokens[t].removed)
  PROVE  TokenChanges(t, left, goes)
<1> DEFINE detached == WithoutChild(t, w)
           one == [tokens[t] EXCEPT !.children = left]
           two == [one EXCEPT !.removed = TRUE]
<1>1. tokens \in Seq(TokenStates) /\ tokens[t] \in TokenStates /\ DOMAIN tokens = 1 .. Len(tokens)
  BY ObjectsTyped DEF LifecycleInv
<1>2. one \in TokenStates /\ one.binder = tokens[t].binder /\ one.children = left
      /\ one.removed = tokens[t].removed
  BY <1>1 DEF TokenStates
<1>3. detached = [tokens EXCEPT ![t] = one]
  BY DEF WithoutChild
<1> HIDE DEF one
<1>4. two \in TokenStates /\ two.binder = tokens[t].binder /\ two.children = left /\ two.removed = TRUE
  BY <1>2 DEF TokenStates
<1>5. TokenDropped(detached, t) = [tokens EXCEPT ![t] = two]
  BY <1>3 DEF TokenDropped
<1> HIDE DEF two
<1>6. detached[t].children = left
  BY <1>2, <1>3
<1>7. IF detached[t].children = << >> /\ ~tokens[t].removed
      THEN tokens' = TokenDropped(detached, t) /\ tokenMap' = Erased(tokens[t].binder)
      ELSE tokens' = detached /\ tokenMap' = tokenMap
  BY DEF Cleanup
<1> HIDE DEF detached
<1> USE DEF TokenChanges
<1>8. CASE goes
  <2>1. tokens' = [tokens EXCEPT ![t] = two] /\ tokenMap' = [tokenMap EXCEPT ![tokens[t].binder] = Nothing]
    BY <1>5, <1>6, <1>7, <1>8 DEF Erased
  <2>2. tokens' \in Seq(TokenStates)
    BY <1>1, <1>4, <2>1, ExceptSeq
  <2>3. DOMAIN tokens' = DOMAIN tokens /\ tokens'[t] = two
        /\ \A x \in DOMAIN tokens : x # t => tokens'[x] = tokens[x]
    BY <2>1
  <2>4. QED
    BY <1>4, <1>8, <2>1, <2>2, <2>3
<1>9. CASE ~goes
  <2>1. tokens' = [tokens EXCEPT ![t] = one] /\ tokenMap' = tokenMap
    BY <1>3, <1>6, <1>7, <1>9
  <2>2. tokens' \in Seq(TokenStates)
    BY <1>1, <1>2, <2>1, ExceptSeq
  <2>3. DOMAIN tokens' = DOMAIN tokens /\ tokens'[t] = one
        /\ \A x \in DOMAIN tokens : x # t => tokens'[x] = tokens[x]
    BY <2>1
  <2>4. QED
    BY <1>2, <1>9, <2>1, <2>2, <2>3
<1>10. QED
  BY <1>8, <1>9

LEMMA CleanupKeeps ==
  ASSUME LifecycleInv, Cleanup
  PROVE  LifecycleInv'
<1>1. PICK w : w = Head(tasks)
  OBVIOUS
<1>2. PICK t : t = windows[w].token
  OBVIOUS
<1>3. PICK c : c = windows[w].client
  OBVIOUS
<1>4. /\ w \in alive /\ windows[w].removed /\ t \in DOMAIN tokens /\ c \in Clients
      /\ tasks' \in Seq(WindowIds) /\ IsInjective(tasks') /\ Range(tasks') = Range(tasks) \ {w}
      /\ alive' = alive \ {w} /\ windows' = windows /\ dead' = dead
      /\ windowMap' = [windowMap EXCEPT ![c] = Nothing]
      /\ WithoutFirst(tokens[t].children, w) \in Seq(WindowIds)
      /\ IsInjective(WithoutFirst(tokens[t].children, w))
      /\ Range(WithoutFirst(tokens[t].children, w)) = Range(tokens[t].children) \ {w}
  BY <1>1, <1>2, <1>3, CleanupDeletes, ZenonT(30)
<1>5. PICK left \in Seq(WindowIds) : left = WithoutFirst(tokens[t].children, w)
  BY <1>4
<1>6. PICK goes : goes = (left = << >> /\ ~tokens[t].removed)
  OBVIOUS
<1>7. /\ tokens' \in Seq(TokenStates) /\ DOMAIN tokens' = DOMAIN tokens
      /\ \A x \in DOMAIN tokens : x # t => tokens'[x] = tokens[x]
      /\ tokens'[t].binder = tokens[t].binder /\ tokens'[t].children = left
      /\ tokens'[t].removed <=> tokens[t].removed \/ goes
      /\ goes => tokenMap' = [tokenMap EXCEPT ![tokens[t].binder] = Nothing]
      /\ ~goes => tokenMap' = tokenMap
  <2>1. TokenChanges(t, left, goes)
    BY <1>1, <1>2, <1>4, <1>5, <1>6, CleanupDetaches
  <2>2. QED
    BY <2>1 DEF TokenChanges
<1>8. IsInjective(left) /\ Range(left) = Range(tokens[t].children) \ {w}
  BY <1>4, <1>5
<1>9. /\ DOMAIN tokens = 1 .. Len(tokens)
      /\ \A x \in DOMAIN tokens : tokens[x] \in TokenStates
      /\ \A i \in DOMAIN windows : windows[i] \in WindowStates
      /\ alive \subseteq DOMAIN windows
  BY ObjectsTyped DEF LifecycleInv
<1>10. /\ windowMap \in [Clients -> WindowIds \cup {Nothing}]
       /\ tokenMap \in [Binders -> TokenIds \cup {Nothing}]
  BY DEF LifecycleInv, LifecycleTypeOK
<1>11. windowMap'[c] = Nothing /\ \A d \in Clients : d # c => windowMap'[d] = windowMap[d]
  BY <1>4, <1>10
<1>12. tokens[t].binder \in Binders
  BY <1>4, <1>9 DEF TokenStates
<1>13. \A x \in DOMAIN tokens : tokens'[x].binder = tokens[x].binder
  BY <1>4, <1>7
<1>14. /\ alive = {windowMap[d] : d \in Clients} \ {Nothing}
       /\ \A i \in alive : windowMap[windows[i].client] = i
  BY DEF LifecycleInv, PointersAgree
<1>15. windowMap[c] = w
  BY <1>3, <1>4, <1>14
<1>16. \A i \in alive' : i \in alive /\ i # w /\ windows[i].client # c /\ windows[i].client \in Clients
  BY <1>4, <1>9, <1>14, <1>15 DEF WindowStates
<1>17. \A i \in alive' : windowMap'[windows[i].client] = i
  BY <1>11, <1>14, <1>16
<1>18. LifecycleTypeOK'
  <2>1. windowMap' \in [Clients -> WindowIds \cup {Nothing}]
    BY <1>4, <1>10
  <2>2. tokenMap' \in [Binders -> TokenIds \cup {Nothing}]
    BY <1>7, <1>10
  <2>3. alive' \subseteq DOMAIN windows' /\ dead' \subseteq Clients /\ windows' \in Seq(WindowStates)
    BY <1>4, <1>9, ObjectsTyped DEF LifecycleInv, LifecycleTypeOK
  <2>4. QED
    BY <1>4, <1>7, <2>1, <2>2, <2>3 DEF LifecycleTypeOK, WindowStates, TokenStates
<1>19. WindowsKnown'
  <2>1. ASSUME NEW d \in Clients, windowMap'[d] # Nothing
        PROVE  windowMap'[d] \in DOMAIN windows' /\ windows'[windowMap'[d]].client = d
    <3>1. windowMap'[d] = windowMap[d]
      BY <1>11, <2>1
    <3>2. windowMap[d] \in DOMAIN windows /\ windows[windowMap[d]].client = d
      BY <2>1, <3>1 DEF LifecycleInv, WindowsKnown
    <3>3. QED
      BY <1>4, <3>1, <3>2
  <2>2. \A i \in DOMAIN windows' : windows'[i].token \in DOMAIN tokens'
    BY <1>4, <1>7 DEF LifecycleInv, WindowsKnown
  <2>3. QED
    BY <2>1, <2>2 DEF WindowsKnown
<1>20. TokensKnown'
  <2>1. ASSUME NEW b \in Binders, tokenMap'[b] # Nothing
        PROVE  tokenMap'[b] \in DOMAIN tokens' /\ tokens'[tokenMap'[b]].binder = b
    <3>1. tokenMap'[b] = tokenMap[b]
      BY <1>7, <1>10, <1>12, <2>1
    <3>2. tokenMap[b] \in DOMAIN tokens /\ tokens[tokenMap[b]].binder = b
      BY <2>1, <3>1 DEF LifecycleInv, TokensKnown
    <3>3. QED
      BY <1>7, <1>13, <3>1, <3>2
  <2>2. \A x \in DOMAIN tokens' : tokens'[x].binder \in AppTokens \cup {x}
    BY <1>7, <1>13 DEF LifecycleInv, TokensKnown
  <2>3. QED
    BY <2>1, <2>2 DEF TokensKnown
<1>21. RemovedHaveTasks'
  <2>1. \A i \in alive : windows[i].removed <=> i \in Range(tasks)
    BY DEF LifecycleInv, RemovedHaveTasks
  <2>2. \A i \in alive' : windows[i].removed <=> i \in Range(tasks')
    BY <1>4, <1>16, <2>1
  <2>3. QED
    BY <1>4, <2>2 DEF RemovedHaveTasks
<1>22. TaskFindsItsWindow'
  <2>1. \A i \in Range(tasks') : i \in alive'
    BY <1>4 DEF LifecycleInv, TaskFindsItsWindow
  <2>2. QED
    BY <1>4, <1>17, <2>1 DEF TaskFindsItsWindow
<1>23. PointersAgree'
  <2>1. alive' = {windowMap'[d] : d \in Clients} \ {Nothing}
    <3>1. ASSUME NEW d \in Clients, windowMap'[d] # Nothing PROVE windowMap'[d] \in alive'
      <4>1. d # c /\ windowMap'[d] = windowMap[d] /\ windowMap[d] \in alive
        BY <1>11, <1>14, <3>1
      <4>2. windows[windowMap[d]].client = d
        BY <3>1, <4>1 DEF LifecycleInv, WindowsKnown
      <4>3. windowMap[d] # w
        BY <1>3, <4>1, <4>2
      <4>4. QED
        BY <1>4, <4>1, <4>3
    <3>2. ASSUME NEW i \in alive' PROVE i # Nothing /\ \E d \in Clients : windowMap'[d] = i
      BY <1>14, <1>16, <1>17
    <3>3. QED
      BY <3>1, <3>2
  <2>2. ASSUME NEW x \in DOMAIN tokens
        PROVE  /\ IsInjective(tokens'[x].children)
               /\ Range(tokens'[x].children) = {i \in alive' : windows[i].token = x}
    <3>1. IsInjective(tokens[x].children)
          /\ Range(tokens[x].children) = {i \in alive : windows[i].token = x}
      BY DEF LifecycleInv, PointersAgree
    <3>2. CASE x = t
      <4>1. {i \in alive' : windows[i].token = t} = {i \in alive : windows[i].token = t} \ {w}
        BY <1>4
      <4>2. QED
        BY <1>7, <1>8, <3>1, <3>2, <4>1
    <3>3. CASE x # t
      <4>1. {i \in alive' : windows[i].token = x} = {i \in alive : windows[i].token = x}
        BY <1>2, <1>4, <3>3
      <4>2. QED
        BY <1>7, <3>1, <3>3, <4>1
    <3>4. QED
      BY <3>2, <3>3
  <2>3. \A i \in alive' : windowMap'[windows'[i].client] = i
    BY <1>4, <1>17
  <2>4. \A x \in DOMAIN tokens' :
          /\ IsInjective(tokens'[x].children)
          /\ Range(tokens'[x].children) = {i \in alive' : windows'[i].token = x}
    BY <1>4, <1>7, <2>2
  <2>5. QED
    BY <2>1, <2>3, <2>4, Zenon DEF PointersAgree
<1>24. TokensAgree'
  <2>1. ASSUME NEW x \in DOMAIN tokens
        PROVE  /\ ~tokens'[x].removed <=> tokenMap'[tokens'[x].binder] = x
               /\ tokens'[x].removed => \A i \in Range(tokens'[x].children) : windows[i].removed
    <3>1. /\ ~tokens[x].removed <=> tokenMap[tokens[x].binder] = x
          /\ tokens[x].removed => \A i \in Range(tokens[x].children) : windows[i].removed
      BY Zenon DEF LifecycleInv, TokensAgree
    <3>2. x # Nothing /\ tokens[x].binder \in Binders
      BY <1>9 DEF TokenStates, Nothing
    <3>3. ~goes => tokenMap'[tokens[x].binder] = tokenMap[tokens[x].binder]
      BY <1>7
    <3>4. CASE x = t
      <4>1. CASE goes
        <5>1. tokens'[t].removed /\ tokenMap'[tokens[t].binder] = Nothing
          BY <1>7, <1>10, <1>12, <4>1
        <5>2. Range(left) = {}
          BY <1>6, <4>1, ListOf
        <5>3. QED
          BY <1>7, <3>2, <3>4, <5>1, <5>2
      <4>2. CASE ~goes
        <5>1. /\ ~tokens[t].removed <=> tokenMap[tokens[t].binder] = t
              /\ tokens[t].removed => \A i \in Range(left) : windows[i].removed
          BY <1>8, <3>1, <3>4
        <5>2. tokens'[t].removed <=> tokens[t].removed
          BY <1>7, <4>2
        <5>3. tokenMap'[tokens[t].binder] = tokenMap[tokens[t].binder]
          BY <3>3, <3>4, <4>2
        <5>4. QED
          BY <1>7, <3>4, <5>1, <5>2, <5>3, Zenon
      <4>3. QED
        BY <4>1, <4>2
    <3>5. CASE x # t
      <4>1. tokens'[x] = tokens[x]
        BY <1>7, <3>5
      <4>2. tokenMap'[tokens[x].binder] = x <=> tokenMap[tokens[x].binder] = x
        <5>1. CASE goes /\ tokens[x].binder = tokens[t].binder
          <6>1. tokenMap[tokens[t].binder] = t
            BY <1>4, <1>6, <5>1, Zenon DEF LifecycleInv, TokensAgree
          <6>2. tokenMap'[tokens[t].binder] = Nothing
            BY <1>7, <1>10, <1>12, <5>1
          <6>3. QED
            BY <3>2, <3>5, <5>1, <6>1, <6>2
        <5>2. CASE goes /\ tokens[x].binder # tokens[t].binder
          <6>1. tokenMap'[tokens[x].binder] = tokenMap[tokens[x].binder]
            BY <1>7, <1>10, <3>2, <5>2
          <6>2. QED
            BY <6>1
        <5>3. CASE ~goes
          BY <3>3, <5>3
        <5>4. QED
          BY <5>1, <5>2, <5>3
      <4>3. QED
        BY <3>1, <4>1, <4>2, Zenon
    <3>6. QED
      BY <3>4, <3>5
  <2>2. QED
    BY <1>4, <1>7, <2>1, Zenon DEF TokensAgree
<1>25. OwnTokensAreUsed'
  <2>1. ASSUME NEW x \in DOMAIN tokens, ~tokens'[x].removed, tokens'[x].binder \notin AppTokens
        PROVE  tokens'[x].children # << >>
    <3>1. CASE x = t
      <4>1. ~goes /\ ~tokens[t].removed
        BY <1>7, <2>1, <3>1
      <4>2. left # << >>
        BY <1>6, <4>1
      <4>3. QED
        BY <1>7, <3>1, <4>2
    <3>2. CASE x # t
      BY <1>7, <2>1, <3>2 DEF LifecycleInv, OwnTokensAreUsed
    <3>3. QED
      BY <3>1, <3>2
  <2>2. QED
    BY <1>7, <2>1, Zenon DEF OwnTokensAreUsed
<1>26. QED
  BY <1>18, <1>19, <1>20, <1>21, <1>22, <1>23, <1>24, <1>25 DEF LifecycleInv

LEMMA LifecycleKept == LifecycleInv /\ [LifecycleNext]_lifecycleVars => LifecycleInv'
<1> SUFFICES ASSUME LifecycleInv, [LifecycleNext]_lifecycleVars PROVE LifecycleInv'
  OBVIOUS
<1>1. ASSUME NEW b \in AppTokens, AddWindowToken(b) PROVE LifecycleInv'
  BY <1>1, AddWindowTokenKeeps
<1>2. ASSUME NEW b \in AppTokens, RemoveWindowToken(b) PROVE LifecycleInv'
  BY <1>2, RemoveWindowTokenKeeps
<1>3. ASSUME NEW c \in Clients, NEW b \in AppTokens, AddWindow(c, b) PROVE LifecycleInv'
  BY <1>3, AddWindowKeeps
<1>4. ASSUME NEW c \in Clients, AddWindowOfItsOwn(c) PROVE LifecycleInv'
  BY <1>4, AddWindowOfItsOwnKeeps
<1>5. ASSUME NEW c \in Clients, RemoveWindow(c) PROVE LifecycleInv'
  BY <1>5, RemoveWindowKeeps
<1>6. ASSUME NEW c \in Clients, BinderDied(c) PROVE LifecycleInv'
  BY <1>6, BinderDiedKeeps
<1>7. CASE Cleanup
  BY <1>7, CleanupKeeps
<1>8. CASE UNCHANGED lifecycleVars
  <2>1. dead' \subseteq Clients
    BY <1>8 DEF lifecycleVars, LifecycleInv, LifecycleTypeOK
  <2>2. QED
    BY <1>8, <2>1, NothingMoves DEF lifecycleVars
<1>9. QED
  BY <1>1, <1>2, <1>3, <1>4, <1>5, <1>6, <1>7, <1>8 DEF LifecycleNext

(* The invariant of the windows and tokens, for any number of either, of clients and of binders. *)
THEOREM LifecycleInvariance == LifecycleSpec => []LifecycleInv
<1>1. QED
  BY LifecycleStart, LifecycleKept, PTL DEF LifecycleSpec

(* The maps, the objects, their lists and the tasks keep their types. *)
THEOREM ObjectsKeepTypes == LifecycleSpec => []LifecycleTypeOK
<1>1. LifecycleInv => LifecycleTypeOK
  BY DEF LifecycleInv
<1>2. QED
  BY <1>1, LifecycleInvariance, PTL

(***************************************************************************)
(* The task that deletes a window finds the very window it was posted for, *)
(* still there, however often the window was removed and whoever did it.   *)
(***************************************************************************)
THEOREM TasksDeleteTheirWindow == LifecycleSpec => []TaskFindsItsWindow
<1>1. LifecycleInv => TaskFindsItsWindow
  BY DEF LifecycleInv
<1>2. QED
  BY <1>1, LifecycleInvariance, PTL

(* No plain pointer to a window outlives it, in the map or in its token. *)
THEOREM NoPointerIsLeft == LifecycleSpec => []PointersAgree
<1>1. LifecycleInv => PointersAgree
  BY DEF LifecycleInv
<1>2. QED
  BY <1>1, LifecycleInvariance, PTL

(* A removed token is not in the map, and has no window that is to stay. *)
THEOREM RemovedTokensAreGone == LifecycleSpec => []TokensAgree
<1>1. LifecycleInv => TokensAgree
  BY DEF LifecycleInv
<1>2. QED
  BY <1>1, LifecycleInvariance, PTL

(* A token that a window was given as its own is not left behind by it. *)
THEOREM NoTokenIsLeft == LifecycleSpec => []OwnTokensAreUsed
<1>1. LifecycleInv => OwnTokensAreUsed
  BY DEF LifecycleInv
<1>2. QED
  BY <1>1, LifecycleInvariance, PTL

(***************************************************************************)
(* What RemovedGoes comes to in every state: the task that deletes a       *)
(* removed window is in the looper, and is about the window that the map   *)
(* has for the client.                                                     *)
(***************************************************************************)
RemovalIsPosted ==
  \A c \in Clients :
    windowMap[c] # Nothing /\ windows[windowMap[c]].removed =>
      \E n \in 1 .. Len(tasks) : tasks[n] = windowMap[c] /\ windows[tasks[n]].client = c

THEOREM RemovalAlwaysPosted == LifecycleSpec => []RemovalIsPosted
<1>1. LifecycleInv => RemovalIsPosted
  <2> SUFFICES ASSUME LifecycleInv, NEW c \in Clients, windowMap[c] # Nothing, windows[windowMap[c]].removed
               PROVE  \E n \in 1 .. Len(tasks) : tasks[n] = windowMap[c] /\ windows[tasks[n]].client = c
    BY DEF RemovalIsPosted
  <2>1. windowMap[c] \in alive
    BY DEF LifecycleInv, PointersAgree
  <2>2. windowMap[c] \in Range(tasks)
    BY <2>1 DEF LifecycleInv, RemovedHaveTasks
  <2>3. tasks \in Seq(WindowIds)
    BY DEF LifecycleInv, LifecycleTypeOK
  <2>4. PICK n \in 1 .. Len(tasks) : tasks[n] = windowMap[c]
    BY <2>2, <2>3 DEF Range
  <2>5. windows[windowMap[c]].client = c
    BY DEF LifecycleInv, WindowsKnown
  <2>6. QED
    BY <2>4, <2>5
<1>2. QED
  BY <1>1, LifecycleInvariance, PTL
=============================================================================
