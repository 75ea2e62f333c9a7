--------------------------- MODULE WindowLifecycle ---------------------------
(***************************************************************************)
(* The windows and tokens the server knows, from addWindow to the task     *)
(* that deletes a window (server/WindowManagerService.cpp, WindowToken.cpp,*)
(* WindowState.cpp).  A window can be removed by its app, by the removal   *)
(* of its token, by the death of its app, or by any two of them; each only *)
(* marks it and posts one task to the looper, which deletes the            *)
(* WindowState through a plain pointer.  Until the task runs, calls for    *)
(* the window and its token keep coming.                                   *)
(*                                                                         *)
(* WindowState and WindowToken objects are numbered as they are allocated, *)
(* so that a pointer to a deleted object can be told from one to a new     *)
(* object for the same binder.  Surfaces are in SurfaceBuffers, visibility *)
(* in WindowSession; no token is persistent (mPersistOnEmpty is never set) *)
(* and the transition animation, which delays a removal, is off.           *)
(***************************************************************************)
EXTENDS Integers, Sequences, FiniteSets, Functions

CONSTANTS Clients,    \* the IWindow binders of the apps' windows
          AppTokens,  \* the binders that addWindowToken is called with
          WindowLimit,\* CONFIG_ENABLE_WINDOW_LIMIT_MAX
          MaxWindows, \* bound: WindowState objects made
          MaxTokens   \* bound: WindowToken objects made

ASSUME LimitAssumption == {WindowLimit, MaxWindows, MaxTokens} \subseteq Nat
ASSUME BindersAssumption == AppTokens \cap Nat = {} /\ IsFiniteSet(Clients)

WindowIds == 1 .. MaxWindows
TokenIds == 1 .. MaxTokens
Nothing == 0 \* no entry in a map

(* The binder that addWindow makes for the n-th token is the number n. *)
Binders == AppTokens \cup TokenIds

VARIABLES
  windowMap, \* mWindowMap: the WindowState of each client
  tokenMap,  \* mTokenMap: the WindowToken of each binder
  windows,   \* the WindowState objects made so far: their client, token and WS_REMOVED
  alive,     \* those that have not been deleted
  tokens,    \* the WindowToken objects made so far: mToken, mChildren, mRemoved
  tasks,     \* the cleanup tasks in the looper, by WindowState
  dead       \* the clients whose process has died
lifecycleVars == <<windowMap, tokenMap, windows, alive, tokens, tasks, dead>>

LifecycleTypeOK ==
  /\ windowMap \in [Clients -> WindowIds \cup {Nothing}]
  /\ tokenMap \in [Binders -> TokenIds \cup {Nothing}]
  /\ windows \in Seq([client : Clients, token : TokenIds, removed : BOOLEAN])
  /\ alive \subseteq DOMAIN windows
  /\ tokens \in Seq([binder : Binders, children : Seq(WindowIds), removed : BOOLEAN])
  /\ tasks \in Seq(WindowIds)
  /\ dead \subseteq Clients

LifecycleInit ==
  /\ windowMap = [c \in Clients |-> Nothing]
  /\ tokenMap = [b \in Binders |-> Nothing]
  /\ windows = << >> /\ alive = {} /\ tokens = << >>
  /\ tasks = << >> /\ dead = {}

-----------------------------------------------------------------------------
(* WindowToken and WindowState, as operators on the objects. *)

NewToken(b) == [binder |-> b, children |-> << >>, removed |-> FALSE]
NewState(c, t) == [client |-> c, token |-> t, removed |-> FALSE]

Marked(ws) == [i \in DOMAIN windows |-> [windows[i] EXCEPT !.removed = @ \/ i \in Range(ws)]]
NotMarked(ws) ==
  LET upTo[n \in 0 .. Len(ws)] ==
        IF n = 0 THEN << >>
        ELSE IF windows[ws[n]].removed THEN upTo[n - 1] ELSE Append(upTo[n - 1], ws[n])
  IN  upTo[Len(ws)]

(***************************************************************************)
(* Without the look at WS_REMOVED a second removal posts a second task     *)
(* (what TaskFindsItsWindow would show); a removal that posts none leaves  *)
(* the window (what RemovedGoes would show).                               *)
(***************************************************************************)
RemoveWindowsAgain(ws) ==
  /\ windows' = Marked(ws)
  /\ tasks' = tasks \o ws

RemoveWindowsSilently(ws) ==
  /\ windows' = Marked(ws)
  /\ UNCHANGED tasks

(***************************************************************************)
(* WindowState::removeIfPossible for each of the windows ws: those not     *)
(* removed before are marked, and their cleanup is posted.                 *)
(***************************************************************************)
RemoveWindows(ws) ==
  /\ windows' = Marked(ws)
  /\ tasks' = tasks \o NotMarked(ws)

(* The loop of removeWindow erases the child it finds, and at most that one. *)
WithoutFirst(children, w) ==
  LET i == CHOOSE j \in DOMAIN children : children[j] = w /\ \A k \in 1 .. j - 1 : children[k] # w
  IN  IF w \notin Range(children) THEN children
      ELSE [j \in 1 .. Len(children) - 1 |-> IF j < i THEN children[j] ELSE children[j + 1]]

(* WindowToken::addWindow and removeWindow: the children of t, changed. *)
WithChild(t, w) == [tokens EXCEPT ![t].children = Append(@, w)]
WithoutChild(t, w) == [tokens EXCEPT ![t].children = WithoutFirst(@, w)]

(* WindowToken::removeIfPossible, given the tokens ts, the last step included. *)
TokenDropped(ts, t) == [ts EXCEPT ![t].removed = TRUE]
Erased(b) == [tokenMap EXCEPT ![b] = Nothing]

-----------------------------------------------------------------------------
(* WindowManagerService *)

AddWindowToken(b) ==
  /\ Len(tokens) < MaxTokens
  /\ tokenMap[b] = Nothing
  /\ tokens' = Append(tokens, NewToken(b))
  /\ tokenMap' = [tokenMap EXCEPT ![b] = Len(tokens) + 1]
  /\ UNCHANGED <<windowMap, windows, alive, tasks, dead>>

(***************************************************************************)
(* addWindow: refused at the limit, for a client that has a window still,  *)
(* and for an application window without a known token; any other window   *)
(* without one is given a token of its own.                                *)
(***************************************************************************)
CanAdd(c) ==
  /\ Len(windows) < MaxWindows /\ c \notin dead
  /\ Cardinality({d \in Clients : windowMap[d] # Nothing}) < WindowLimit
  /\ windowMap[c] = Nothing

NewWindow(c, t) ==
  LET w == Len(windows) + 1 IN
  /\ windows' = Append(windows, NewState(c, t))
  /\ alive' = alive \cup {w}
  /\ windowMap' = [windowMap EXCEPT ![c] = w]

AddWindow(c, b) ==
  /\ CanAdd(c) /\ tokenMap[b] # Nothing
  /\ NewWindow(c, tokenMap[b])
  /\ tokens' = WithChild(tokenMap[b], Len(windows) + 1)
  /\ UNCHANGED <<tokenMap, tasks, dead>>

AddWindowOfItsOwn(c) ==
  LET t == Len(tokens) + 1 IN
  /\ CanAdd(c) /\ t <= MaxTokens
  /\ NewWindow(c, t)
  /\ tokens' = Append(tokens, [NewToken(t) EXCEPT !.children = <<Len(windows) + 1>>])
  /\ tokenMap' = [tokenMap EXCEPT ![t] = t]
  /\ UNCHANGED <<tasks, dead>>

(* removeWindow *)
RemoveWindow(c) ==
  /\ c \notin dead /\ windowMap[c] # Nothing
  /\ RemoveWindows(<<windowMap[c]>>)
  /\ UNCHANGED <<windowMap, tokenMap, alive, tokens, dead>>

(* WindowDeathRecipient::binderDied; the recipient is linked while the window is in the map. *)
BinderDied(c) ==
  /\ c \notin dead
  /\ dead' = dead \cup {c}
  /\ IF windowMap[c] # Nothing THEN RemoveWindows(<<windowMap[c]>>) ELSE UNCHANGED <<windows, tasks>>
  /\ UNCHANGED <<windowMap, tokenMap, alive, tokens>>

(* removeWindowToken: the token goes at once, its windows with their tasks. *)
RemoveWindowToken(b) ==
  LET t == tokenMap[b] IN
  /\ t # Nothing
  /\ IF tokens[t].removed THEN UNCHANGED <<windows, tasks, tokens, tokenMap>>
     ELSE /\ RemoveWindows(tokens[t].children)
          /\ tokens' = TokenDropped(tokens, t)
          /\ tokenMap' = Erased(tokens[t].binder)
  /\ UNCHANGED <<windowMap, alive, dead>>

(***************************************************************************)
(* Three mistakes in that task: the token keeps its pointer to the window  *)
(* (what PointersAgree would show), an empty token is dropped without a    *)
(* look at mRemoved (TokensAgree), or is not dropped (OwnTokensAreUsed).   *)
(***************************************************************************)
CleanupKeepsChild ==
  /\ tasks # << >>
  /\ tasks' = Tail(tasks)
  /\ LET w == windows[Head(tasks)]
     IN /\ alive' = alive \ {windowMap[w.client]}
        /\ windowMap' = [windowMap EXCEPT ![w.client] = Nothing]
  /\ UNCHANGED <<windows, dead, tokens, tokenMap>>

CleanupDropsAnyToken ==
  /\ tasks # << >>
  /\ tasks' = Tail(tasks)
  /\ LET w == windows[Head(tasks)]
         detached == WithoutChild(w.token, Head(tasks))
     IN /\ alive' = alive \ {windowMap[w.client]}
        /\ windowMap' = [windowMap EXCEPT ![w.client] = Nothing]
        /\ IF detached[w.token].children = << >>
           THEN tokens' = TokenDropped(detached, w.token) /\ tokenMap' = Erased(tokens[w.token].binder)
           ELSE tokens' = detached /\ UNCHANGED tokenMap
  /\ UNCHANGED <<windows, dead>>

CleanupKeepsToken ==
  /\ tasks # << >>
  /\ tasks' = Tail(tasks)
  /\ LET w == windows[Head(tasks)]
     IN /\ alive' = alive \ {windowMap[w.client]}
        /\ windowMap' = [windowMap EXCEPT ![w.client] = Nothing]
        /\ tokens' = WithoutChild(w.token, Head(tasks))
  /\ UNCHANGED <<windows, dead, tokenMap>>

(***************************************************************************)
(* The task of postWindowRemoveCleanup.  It finds the window to delete by  *)
(* its binder, and takes an emptied token away.                            *)
(***************************************************************************)
Cleanup ==
  /\ tasks # << >>
  /\ tasks' = Tail(tasks)
  /\ LET w == windows[Head(tasks)]
         detached == WithoutChild(w.token, Head(tasks))
     IN /\ alive' = alive \ {windowMap[w.client]}
        /\ windowMap' = [windowMap EXCEPT ![w.client] = Nothing]
        /\ IF detached[w.token].children = << >> /\ ~tokens[w.token].removed
           THEN tokens' = TokenDropped(detached, w.token) /\ tokenMap' = Erased(tokens[w.token].binder)
           ELSE tokens' = detached /\ UNCHANGED tokenMap
  /\ UNCHANGED <<windows, dead>>

LifecycleNext ==
  \/ \E b \in AppTokens : AddWindowToken(b) \/ RemoveWindowToken(b)
  \/ \E c \in Clients :
       \/ \E b \in AppTokens : AddWindow(c, b)
       \/ AddWindowOfItsOwn(c)
       \/ RemoveWindow(c)
       \/ BinderDied(c)
  \/ Cleanup

LifecycleSpec == LifecycleInit /\ [][LifecycleNext]_lifecycleVars

(* The looper runs its tasks. *)
FairLifecycle == LifecycleSpec /\ WF_lifecycleVars(Cleanup)

-----------------------------------------------------------------------------
(* Properties *)

(***************************************************************************)
(* The task deletes the window it was posted for.  It holds a plain        *)
(* pointer and looks the window up by its binder: a second task for the    *)
(* same window, or a new window of the same client, would make it use a    *)
(* deleted object or delete the wrong one.                                 *)
(***************************************************************************)
TaskFindsItsWindow ==
  /\ IsInjective(tasks)
  /\ \A i \in Range(tasks) : i \in alive /\ windowMap[windows[i].client] = i

(***************************************************************************)
(* The plain pointers to a WindowState, from the map and from the list of  *)
(* children of its token, come and go together, and never outlive it.      *)
(***************************************************************************)
PointersAgree ==
  /\ alive = {windowMap[c] : c \in Clients} \ {Nothing}
  /\ \A i \in alive : windowMap[windows[i].client] = i
  /\ \A t \in DOMAIN tokens :
       /\ IsInjective(tokens[t].children)
       /\ Range(tokens[t].children) = {i \in alive : windows[i].token = t}

(***************************************************************************)
(* A token is in the map exactly as long as it is not removed, also when   *)
(* its binder has been registered again while old windows of it wait for   *)
(* their cleanup; and a removed token has no window that is to stay.       *)
(***************************************************************************)
TokensAgree ==
  \A t \in DOMAIN tokens :
    /\ ~tokens[t].removed <=> tokenMap[tokens[t].binder] = t
    /\ tokens[t].removed => \A i \in Range(tokens[t].children) : windows[i].removed

(* A token that a window was given as its own goes with it: none is left empty. *)
OwnTokensAreUsed ==
  \A t \in DOMAIN tokens :
    ~tokens[t].removed /\ tokens[t].binder \notin AppTokens => tokens[t].children # << >>

(* A removed window makes room for another. *)
RemovedGoes ==
  \A c \in Clients :
    (windowMap[c] # Nothing /\ windows[windowMap[c]].removed) ~> windowMap[c] = Nothing
=============================================================================
