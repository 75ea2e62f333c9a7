----------------------------- MODULE VsyncRequests -----------------------------
(***************************************************************************)
(* What a window may ask the server for (aidl/os/wm/VsyncRequest.aidl), by *)
(* the number it is sent as, and how both sides count a request down with  *)
(* every frame (include/wm/VsyncRequestOps.h).                             *)
(***************************************************************************)
EXTENDS Integers

None == -2
Single == -1
SingleSuppress == 0
Periodic == 1
VsyncRequest == {None, Single, SingleSuppress, Periodic}

NextVsyncState(req) ==
  CASE req = SingleSuppress -> Single
    [] req = Periodic       -> Periodic
    [] OTHER                -> None
=============================================================================
