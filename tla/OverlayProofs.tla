------------------------------ MODULE OverlayProofs ------------------------------
(***************************************************************************)
(* The two overlays of the host's page.  Expanded widgets: where the       *)
(* frames are and what their shells display, for any number of frames,     *)
(* requests and clicks and whatever the browser and the user do with       *)
(* fullscreen.  Plans: a host finalizes the return of a payment once, and  *)
(* it is not lost, for any number of hosts, overlays, tasks and payments.  *)
(* With the records of RedisHostStoreProofs, the parts that MCHostParts    *)
(* composes.                                                               *)
(***************************************************************************)
EXTENDS MCHostParts, RedisHostStoreProofs, TLAPS

(***************************************************************************)
(* ExpandOverlay                                                           *)
(***************************************************************************)

\* The requests that are handled, and the runs that await the browser, are of a frame.
RunsPlaced ==
  \A r \in Handled :
    run[r].step \in Awaiting \/ (r \in Requests /\ run[r].step # "idle") => run[r].frame \in Frames
MessagesAsked ==
  \A f \in Frames : \A i \in 1 .. Len(toOverlay[f]) : run[toOverlay[f][i]].step # "idle"
PendingAsked == \A r \in Requests : pending[r] # "none" => run[r].step # "idle"

ExpandInv == ExpandTypeOK /\ FramesInPlace /\ RunsPlaced /\ MessagesAsked /\ PendingAsked

Messages == [request : Requests \cup {Nothing}, stage : Stage3]

\* A step moves the run r, and what it is moved to is of a frame where it has to be.
Moves(r) ==
  \E x \in Runs : /\ run' = [run EXCEPT ![r] = x] /\ x.step # "idle"
                  /\ r \in Requests \/ x.step \in Awaiting => x.frame \in Frames

-----------------------------------------------------------------------------
\* The helpers.

LEMMA TellType ==
  ASSUME ExpandTypeOK, NEW f \in Frames, NEW message \in Messages
  PROVE  Tell(f, message) \in [Frames -> Seq(Messages)]
<1>1. toShell \in [Frames -> Seq(Messages)]
  BY DEF ExpandTypeOK, Messages
<1>2. Append(toShell[f], message) \in Seq(Messages)
  BY <1>1
<1> QED BY <1>1, <1>2 DEF Tell

LEMMA FinishMoves ==
  ASSUME ExpandInv, NEW r \in Handled, NEW g \in Frames \cup {Nothing}, NEW s \in Stage3,
         r \in Requests => run[r].frame \in Frames, Finish(r, g, s)
  PROVE  Moves(r) /\ toShell' \in [Frames -> Seq(Messages)]
<1> USE DEF ExpandInv
<1>1. Moves(r)
  <2> DEFINE x == [run[r] EXCEPT !.step = "done"]
  <2>1. x \in Runs /\ x.step = "done" /\ x.frame = run[r].frame
    BY DEF ExpandTypeOK, Runs, RunSteps
  <2>2. run' = [run EXCEPT ![r] = x]
    BY DEF Finish
  <2> QED BY <2>1, <2>2 DEF Moves, Awaiting
<1>2. toShell' \in [Frames -> Seq(Messages)]
  <2>1. [request |-> r, stage |-> s] \in Messages \/ r \notin Requests
    BY DEF Messages
  <2>2. Result(s) \in Messages
    BY DEF Messages, Result
  <2>3. toShell \in [Frames -> Seq(Messages)]
    BY DEF ExpandTypeOK, Messages
  <2> QED BY <2>1, <2>2, <2>3, TellType DEF Finish
<1> QED BY <1>1, <1>2

LEMMA AwaitMoves ==
  ASSUME ExpandInv, NEW r \in Handled, NEW f \in Frames, NEW w \in Stage3,
         NEW step \in Awaiting, Await(r, f, w, step)
  PROVE  Moves(r) /\ toShell' \in [Frames -> Seq(Messages)]
<1>1. [step |-> step, frame |-> f, want |-> w] \in Runs /\ step # "idle"
  BY DEF Runs, RunSteps, Awaiting
<1> QED BY <1>1 DEF ExpandInv, ExpandTypeOK, Await, Moves, Messages

LEMMA MovedRuns ==
  ASSUME ExpandInv, NEW r \in Handled, Moves(r)
  PROVE  /\ run' \in [Handled -> Runs] /\ RunsPlaced'
         /\ UNCHANGED toOverlay => MessagesAsked'
         /\ UNCHANGED pending => PendingAsked'
<1> USE DEF ExpandInv
<1>1. PICK x \in Runs : /\ run' = [run EXCEPT ![r] = x] /\ x.step # "idle"
                        /\ r \in Requests \/ x.step \in Awaiting => x.frame \in Frames
  BY DEF Moves
<1>2. run' \in [Handled -> Runs]
  BY <1>1 DEF ExpandTypeOK
<1>3. RunsPlaced'
  BY <1>1 DEF ExpandTypeOK, RunsPlaced, Awaiting
<1>4. ASSUME UNCHANGED toOverlay PROVE MessagesAsked'
  <2> SUFFICES ASSUME NEW f \in Frames, NEW i \in 1 .. Len(toOverlay[f])
               PROVE run'[toOverlay[f][i]].step # "idle"
    BY <1>4 DEF MessagesAsked
  <2>1. toOverlay[f][i] \in Handled
    BY DEF ExpandTypeOK, Handled
  <2> QED BY <1>1, <2>1 DEF ExpandTypeOK, MessagesAsked
<1>5. ASSUME UNCHANGED pending PROVE PendingAsked'
  BY <1>1, <1>5 DEF ExpandTypeOK, PendingAsked, Handled
<1> QED BY <1>2, <1>3, <1>4, <1>5

LEMMA RestoreKeeps ==
  ASSUME ExpandInv, Restore
  PROVE  /\ FramesInPlace'
         /\ native' \in BOOLEAN /\ active' \in Frames \cup {Nothing}
         /\ overlayStage' \in Stage3 /\ moved' \subseteq Frames
  BY DEF ExpandInv, ExpandTypeOK, FramesInPlace, Restore, Stage3

\* The overlay after a step is well typed, and its frame is where it should be.
OverlayRight ==
  /\ FramesInPlace
  /\ native \in BOOLEAN /\ active \in Frames \cup {Nothing}
  /\ overlayStage \in Stage3 /\ moved \subseteq Frames
  /\ toShell \in [Frames -> Seq(Messages)]
  /\ missed \subseteq Frames

LEMMA EnterKeeps ==
  ASSUME ExpandInv, NEW r \in Handled, NEW f \in Frames, NEW w \in Expand,
         r \in Requests => run[r].frame \in Frames, Enter(r, f, w)
  PROVE  OverlayRight' /\ Moves(r)
<1> USE DEF ExpandInv
<1>0. w \in Stage3 /\ w # "inline" /\ f # Nothing
  BY FramesAssumption DEF Expand, Stage3
<1>1. FramesInPlace'
  BY <1>0 DEF ExpandTypeOK, FramesInPlace, Enter, Displace
<1>2. Moves(r) /\ toShell' \in [Frames -> Seq(Messages)]
  BY <1>0, AwaitMoves, FinishMoves DEF Enter, Awaiting
<1>3. moved' \subseteq Frames /\ missed' \subseteq Frames
  BY DEF ExpandTypeOK, Enter, Displace
<1> QED BY <1>0, <1>1, <1>2, <1>3 DEF Enter, OverlayRight

LEMMA LeaveKeeps ==
  ASSUME ExpandInv, NEW r \in Handled, NEW f \in Frames,
         r \in Requests => run[r].frame \in Frames, Leave(r, f)
  PROVE  OverlayRight' /\ Moves(r)
<1> USE DEF ExpandInv
<1>0. "inline" \in Stage3
  BY DEF Stage3
<1>1. Moves(r) /\ toShell' \in [Frames -> Seq(Messages)]
  BY <1>0, AwaitMoves, FinishMoves DEF Leave, Awaiting
<1>2. CASE Restore
  BY <1>1, <1>2, RestoreKeeps DEF Leave, OverlayRight, ExpandTypeOK
<1>3. CASE UNCHANGED <<active, overlayStage, native, moved>>
  BY <1>1, <1>3 DEF Leave, OverlayRight, ExpandTypeOK, FramesInPlace
<1> QED BY <1>1, <1>2, <1>3 DEF Leave

LEMMA FullscreenKeeps ==
  ASSUME ExpandInv, NEW e, BecomeFullscreen(e)
  PROVE  OverlayRight'
<1> USE DEF ExpandInv
<1>1. FramesInPlace'
  BY DEF ExpandTypeOK, FramesInPlace, BecomeFullscreen
<1>2. toShell' \in [Frames -> Seq(Messages)]
  <2>1. Result("fullscreen") \in Messages /\ Result("focus") \in Messages
    BY DEF Messages, Result, Stage3, Expand
  <2>2. toShell \in [Frames -> Seq(Messages)]
    BY DEF ExpandTypeOK, Messages
  <2>3. active # Nothing => active \in Frames
    BY DEF ExpandTypeOK
  <2> QED BY <2>1, <2>2, <2>3, TellType DEF BecomeFullscreen
<1> QED BY <1>1, <1>2 DEF OverlayRight, ExpandTypeOK, BecomeFullscreen, Stage3, Expand

\* The parts of the invariant put together again, after a step of the overlay.
LEMMA OverlayStep ==
  ASSUME ExpandInv, OverlayRight', NEW r \in Handled, Moves(r), attached' \in BOOLEAN,
         fullscreen' \in Frames \cup {Panel, Nothing}, UNCHANGED <<toOverlay, shellVars>>
  PROVE  ExpandInv'
<1>1. ExpandTypeOK'
  BY MovedRuns DEF ExpandInv, ExpandTypeOK, OverlayRight, Messages, shellVars
<1> QED BY <1>1, MovedRuns DEF ExpandInv, OverlayRight, shellVars

-----------------------------------------------------------------------------
\* The steps of the overlay.

LEMMA HandleKeeps ==
  ASSUME ExpandInv, NEW f \in Frames, Handle(f)
  PROVE  ExpandInv'
<1> DEFINE r == Head(toOverlay[f])
<1> USE DEF ExpandInv
<1>0. /\ r \in Requests /\ r \in Handled /\ run[r].frame \in Frames /\ run[r].want \in Stage3
      /\ toOverlay' = [toOverlay EXCEPT ![f] = Tail(@)]
      /\ UNCHANGED <<attached, fullscreen, shellVars>>
  <2>1. toOverlay[f] \in Seq(Requests) /\ toOverlay[f] # <<>>
    BY DEF Handle, ExpandTypeOK
  <2>2. r \in Requests /\ r = toOverlay[f][1] /\ 1 \in 1 .. Len(toOverlay[f])
    BY <2>1
  <2> QED BY <2>2 DEF Handle, ExpandTypeOK, Handled, Runs, RunsPlaced, MessagesAsked
<1>1. OverlayRight' /\ Moves(r)
  <2>1. CASE run[r].want # "inline" /\ Enter(r, f, run[r].want)
    BY <1>0, <2>1, EnterKeeps DEF Stage3
  <2>2. CASE run[r].want = "inline" /\ active = f /\ Leave(r, f)
    BY <1>0, <2>2, LeaveKeeps
  <2>3. CASE Finish(r, f, "inline") /\ UNCHANGED <<active, overlayStage, native, moved, missed>>
    BY <1>0, <2>3, FinishMoves DEF OverlayRight, FramesInPlace, ExpandTypeOK, Stage3
  <2> QED BY <2>1, <2>2, <2>3 DEF Handle
<1>2. toOverlay' \in [Frames -> Seq(Requests)]
  <2>1. toOverlay[f] \in Seq(Requests) /\ toOverlay[f] # <<>>
    BY DEF Handle, ExpandTypeOK
  <2>2. Tail(toOverlay[f]) \in Seq(Requests)
    BY <2>1
  <2> QED BY <1>0, <2>2 DEF ExpandTypeOK
<1>3. MessagesAsked'
  <2>1. PICK x \in Runs : run' = [run EXCEPT ![r] = x] /\ x.step # "idle"
    BY <1>1 DEF Moves
  <2> SUFFICES ASSUME NEW g \in Frames, NEW i \in 1 .. Len(toOverlay'[g])
               PROVE run'[toOverlay'[g][i]].step # "idle"
    BY DEF MessagesAsked
  <2>2. \E j \in 1 .. Len(toOverlay[g]) : toOverlay'[g][i] = toOverlay[g][j]
    <3>1. CASE g # f
      BY <1>0, <3>1 DEF ExpandTypeOK
    <3>2. CASE g = f
      <4>1. toOverlay[f] \in Seq(Requests) /\ toOverlay[f] # <<>> /\ toOverlay'[f] = Tail(toOverlay[f])
        BY <1>0 DEF ExpandTypeOK, Handle
      <4>2. i + 1 \in 1 .. Len(toOverlay[f]) /\ toOverlay'[f][i] = toOverlay[f][i + 1]
        BY <3>2, <4>1
      <4> QED BY <3>2, <4>2
    <3> QED BY <3>1, <3>2
  <2>3. toOverlay'[g][i] \in Handled /\ run[toOverlay'[g][i]].step # "idle"
    BY <2>2 DEF MessagesAsked, ExpandTypeOK, Handled
  <2> QED BY <2>1, <2>3 DEF ExpandTypeOK
<1>4. ExpandTypeOK' /\ RunsPlaced' /\ PendingAsked'
  BY <1>0, <1>1, <1>2, MovedRuns DEF ExpandTypeOK, OverlayRight, Messages, shellVars
<1> QED BY <1>1, <1>3, <1>4 DEF OverlayRight

LEMMA ClickKeeps ==
  ASSUME ExpandInv, NEW c \in Clicks, Toggle(c) \/ Close(c)
  PROVE  ExpandInv'
<1>0. /\ c \in Handled /\ c \notin Requests /\ active \in Frames
      /\ UNCHANGED <<attached, fullscreen, shellVars, toOverlay>>
  BY FramesAssumption DEF Handled, Toggle, Close, ExpandInv, ExpandTypeOK
<1>1. OverlayRight' /\ Moves(c)
  <2>1. CASE Toggle(c)
    BY <1>0, <2>1, EnterKeeps DEF Toggle, Expand
  <2>2. CASE Close(c)
    BY <1>0, <2>2, LeaveKeeps DEF Close
  <2> QED BY <2>1, <2>2
<1> QED BY <1>0, <1>1, OverlayStep DEF ExpandInv, ExpandTypeOK

LEMMA BrowserKeeps ==
  ASSUME ExpandInv, NEW r \in Handled, Entered(r) \/ Exited(r)
  PROVE  ExpandInv'
<1> USE DEF ExpandInv
<1>1. PICK e \in Frames \cup {Panel, Nothing} : BecomeFullscreen(e)
  BY DEF Entered, Exited, Target, RunsPlaced, Awaiting
<1>2. Moves(r)
  <2> DEFINE x == [run[r] EXCEPT !.step = IF @ = "entering" THEN "entered"
                                          ELSE IF @ = "exiting" THEN "exited" ELSE "left"]
  <2>1. run[r] \in Runs /\ run[r].step \in Awaiting /\ run[r].frame \in Frames
    BY DEF Entered, Exited, ExpandTypeOK, RunsPlaced, Awaiting
  <2>2. x \in Runs /\ x.step \in Awaiting /\ x.step # "idle" /\ x.frame \in Frames
    BY <2>1 DEF Runs, RunSteps, Awaiting
  <2>3. run' = [run EXCEPT ![r] = x]
    BY <2>1 DEF Entered, Exited, ExpandTypeOK
  <2> QED BY <2>2, <2>3 DEF Moves
<1> QED BY <1>1, <1>2, FullscreenKeeps, OverlayStep DEF BecomeFullscreen, ExpandTypeOK

LEMMA UserExitsKeeps ==
  ASSUME ExpandInv, UserExits
  PROVE  ExpandInv'
<1>1. OverlayRight' /\ BecomeFullscreen(Nothing)
  BY FullscreenKeeps DEF UserExits
<1> QED BY <1>1 DEF UserExits, BecomeFullscreen, ExpandInv, ExpandTypeOK, OverlayRight,
              Messages, RunsPlaced, MessagesAsked, PendingAsked,
              shellVars

LEMMA ResumeKeeps ==
  ASSUME ExpandInv, NEW r \in Handled, Resume(r) \/ ResumeInline(r)
  PROVE  ExpandInv'
<1> USE DEF ExpandInv
<1>0. run[r].frame \in Frames /\ active \in Frames \cup {Nothing} /\ overlayStage \in Stage3
  BY DEF Resume, ResumeInline, ExpandTypeOK, RunsPlaced, Awaiting
<1>1. OverlayRight' /\ Moves(r)
  <2>1. CASE Resume(r)
    <3>1. Moves(r) /\ toShell' \in [Frames -> Seq(Messages)]
      BY <1>0, <2>1, FinishMoves DEF Resume, StageTold
    <3> QED BY <1>0, <2>1, <3>1 DEF Resume, OverlayRight, FramesInPlace, ExpandTypeOK
  <2>2. CASE ResumeInline(r)
    <3>1. Moves(r) /\ toShell' \in [Frames -> Seq(Messages)]
      BY <1>0, <2>2, FinishMoves DEF ResumeInline, Stage3
    <3> QED BY <1>0, <2>2, <3>1, RestoreKeeps DEF ResumeInline, OverlayRight, ExpandTypeOK
  <2> QED BY <2>1, <2>2
<1> QED BY <1>1, OverlayStep DEF Resume, ResumeInline, ExpandTypeOK

LEMMA DestroyOverlayKeeps ==
  ASSUME ExpandInv, DestroyOverlay
  PROVE  ExpandInv'
  BY RestoreKeeps DEF DestroyOverlay, ExpandInv, ExpandTypeOK, RunsPlaced, MessagesAsked,
     PendingAsked, shellVars, channels

-----------------------------------------------------------------------------
\* The steps of the shell.

LEMMA RequestKeeps ==
  ASSUME ExpandInv, NEW f \in Frames, NEW r \in Requests, NEW w \in Stage3, Request(r, f, w)
  PROVE  ExpandInv'
<1> DEFINE x == [step |-> "sent", frame |-> f, want |-> w]
<1> USE DEF ExpandInv
<1>0. /\ r \in Handled /\ x \in Runs /\ x.step # "idle" /\ run' = [run EXCEPT ![r] = x]
      /\ toOverlay' = [toOverlay EXCEPT ![f] = Append(@, r)]
      /\ UNCHANGED <<page, fullscreen, toShell, missed>>
  BY DEF Request, Handled, Runs, RunSteps
<1>1. Moves(r)
  BY <1>0 DEF Moves
<1>2. run' \in [Handled -> Runs] /\ RunsPlaced'
  BY <1>0, <1>1, MovedRuns
<1>3. ExpandTypeOK' /\ FramesInPlace' /\ PendingAsked'
  <2>1. Append(toOverlay[f], r) \in Seq(Requests)
    BY DEF ExpandTypeOK
  <2>2. toOverlay' \in [Frames -> Seq(Requests)]
    BY <1>0, <2>1 DEF ExpandTypeOK
  <2>3. /\ shell' \in [Frames -> Stage3]
        /\ pending' \in [Requests -> {"none", "waiting", "late"}]
    BY DEF ExpandTypeOK, Request
  <2>4. PendingAsked'
    BY <1>0 DEF ExpandTypeOK, PendingAsked, Request, Handled
  <2> QED BY <1>0, <1>2, <2>2, <2>3, <2>4 DEF ExpandTypeOK, FramesInPlace, page
<1>4. MessagesAsked'
  <2> SUFFICES ASSUME NEW g \in Frames, NEW i \in 1 .. Len(toOverlay'[g])
               PROVE run'[toOverlay'[g][i]].step # "idle"
    BY DEF MessagesAsked
  <2>1. \/ toOverlay'[g][i] = r
        \/ i \in 1 .. Len(toOverlay[g]) /\ toOverlay'[g][i] = toOverlay[g][i]
    <3>1. toOverlay[g] \in Seq(Requests) /\ toOverlay[f] \in Seq(Requests)
      BY DEF ExpandTypeOK
    <3>2. CASE g # f
      BY <1>0, <3>2 DEF ExpandTypeOK
    <3>3. CASE g = f
      <4>1. toOverlay'[f] = Append(toOverlay[f], r)
        BY <1>0 DEF ExpandTypeOK
      <4> QED BY <3>1, <3>3, <4>1
    <3> QED BY <3>2, <3>3
  <2>2. CASE toOverlay'[g][i] = r
    BY <1>0, <2>2 DEF ExpandTypeOK
  <2>3. CASE i \in 1 .. Len(toOverlay[g]) /\ toOverlay'[g][i] = toOverlay[g][i]
    <3>1. toOverlay[g][i] \in Handled /\ run[toOverlay[g][i]].step # "idle"
      BY <2>3 DEF ExpandTypeOK, Handled, MessagesAsked
    <3> QED BY <1>0, <2>3, <3>1 DEF ExpandTypeOK
  <2> QED BY <2>1, <2>2, <2>3
<1> QED BY <1>2, <1>3, <1>4

LEMMA ReceiveKeeps ==
  ASSUME ExpandInv, NEW f \in Frames, Receive(f)
  PROVE  ExpandInv'
<1> USE DEF ExpandInv
<1>0. /\ Head(toShell[f]).stage \in Stage3
      /\ toShell' \in [Frames -> Seq(Messages)]
      /\ UNCHANGED <<page, fullscreen, run, toOverlay, missed>>
  <2>1. toShell[f] \in Seq(Messages) /\ toShell[f] # <<>>
    BY DEF Receive, ExpandTypeOK, Messages
  <2>2. Head(toShell[f]) \in Messages /\ Tail(toShell[f]) \in Seq(Messages)
    BY <2>1
  <2> QED BY <2>2 DEF Receive, ExpandTypeOK, Messages
<1>1. shell' \in [Frames -> Stage3]
  BY <1>0 DEF Receive, ExpandTypeOK
<1>2. /\ pending' \in [Requests -> {"none", "waiting", "late"}]
      /\ \A r \in Requests : pending'[r] # "none" => pending[r] # "none"
  BY DEF Receive, ExpandTypeOK
<1>3. ExpandTypeOK' /\ FramesInPlace'
  BY <1>0, <1>1, <1>2 DEF ExpandTypeOK, FramesInPlace, Messages, page
<1> QED BY <1>0, <1>2, <1>3 DEF RunsPlaced, MessagesAsked, PendingAsked

LEMMA TimerKeeps ==
  ASSUME ExpandInv, NEW r \in Requests, TimeOut(r) \/ Forget(r)
  PROVE  ExpandInv'
<1> USE DEF ExpandInv
<1>1. /\ pending' \in [Requests -> {"none", "waiting", "late"}]
      /\ shell' \in [Frames -> Stage3]
  BY DEF TimeOut, Forget, ExpandTypeOK, Stage3
<1>2. missed' \subseteq Frames
  BY DEF TimeOut, Forget, ExpandTypeOK, RunsPlaced, PendingAsked, Handled
<1>3. PendingAsked'
  BY DEF TimeOut, Forget, ExpandTypeOK, PendingAsked
<1> QED BY <1>1, <1>2, <1>3 DEF TimeOut, Forget, ExpandTypeOK, FramesInPlace, RunsPlaced,
                               MessagesAsked, page, channels

-----------------------------------------------------------------------------
LEMMA ExpandInitInv == ExpandInit => ExpandInv
<1> SUFFICES ASSUME ExpandInit PROVE ExpandInv
  OBVIOUS
<1> USE DEF ExpandInit
<1>1. ExpandTypeOK
  <2>1. run \in [Handled -> Runs]
    BY DEF Runs, RunSteps, Stage3
  <2>2. toOverlay \in [Frames -> Seq(Requests)] /\ toShell \in [Frames -> Seq(Messages)]
    OBVIOUS
  <2> QED BY <2>1, <2>2 DEF ExpandTypeOK, Stage3, Messages
<1>2. FramesInPlace
  BY DEF FramesInPlace
<1>3. RunsPlaced /\ PendingAsked
  BY DEF RunsPlaced, PendingAsked, Awaiting
<1>4. MessagesAsked
  <2>1. \A f \in Frames : Len(toOverlay[f]) = 0
    OBVIOUS
  <2> QED BY <2>1 DEF MessagesAsked
<1> QED BY <1>1, <1>2, <1>3, <1>4 DEF ExpandInv

LEMMA ExpandNextInv == ExpandInv /\ [ExpandNext]_expandVars => ExpandInv'
<1> SUFFICES ASSUME ExpandInv, [ExpandNext]_expandVars PROVE ExpandInv'
  OBVIOUS
<1>1. CASE \E f \in Frames : Handle(f) \/ Receive(f) \/ \E r \in Requests, w \in Stage3 : Request(r, f, w)
  BY <1>1, HandleKeeps, ReceiveKeeps, RequestKeeps
<1>2. CASE \E c \in Clicks : Toggle(c) \/ Close(c)
  BY <1>2, ClickKeeps
<1>3. CASE \E r \in Handled : Entered(r) \/ Exited(r) \/ Resume(r) \/ ResumeInline(r)
  BY <1>3, BrowserKeeps, ResumeKeeps
<1>4. CASE \E r \in Requests : TimeOut(r) \/ Forget(r)
  BY <1>4, TimerKeeps
<1>5. CASE UserExits \/ DestroyOverlay
  BY <1>5, UserExitsKeeps, DestroyOverlayKeeps
<1>6. CASE UNCHANGED expandVars
  BY <1>6 DEF ExpandInv, ExpandTypeOK, FramesInPlace, RunsPlaced, MessagesAsked, PendingAsked,
              expandVars, page, shellVars, channels
<1> QED BY <1>1, <1>2, <1>3, <1>4, <1>5, <1>6 DEF ExpandNext

LEMMA ExpandInvHolds == ExpandSpec => []ExpandInv
  BY ExpandInitInv, ExpandNextInv, PTL DEF ExpandSpec

\* The state of the overlay and of the shells keeps its types.
THEOREM ExpandTypeCorrect == ExpandSpec => []ExpandTypeOK
  BY ExpandInvHolds, PTL DEF ExpandInv

\* The active frame is the one and only out of its place, whatever overlaps with the
\* browser entering and leaving fullscreen, for any frames and requests.
THEOREM FramesStayInPlace == ExpandSpec => []FramesInPlace
  BY ExpandInvHolds, PTL DEF ExpandInv

-----------------------------------------------------------------------------
(* What the shells display.  The messages between a shell and the page are   *)
(* in order, every request is in one place at a time, and the last thing a   *)
(* shell is told is the stage its frame has: each step of the overlay that   *)
(* changes it either tells the shell, or leaves a run that will, or makes    *)
(* the frame one of those whose shell cannot know.                           *)

\* A request on its way to the page is there once.
AskedOnce ==
  \A f \in Frames :
    /\ \A i \in 1 .. Len(toOverlay[f]) :
         run[toOverlay[f][i]].step = "sent" /\ run[toOverlay[f][i]].frame = f
    /\ \A i, j \in 1 .. Len(toOverlay[f]) : toOverlay[f][i] = toOverlay[f][j] => i = j

\* So is an answer on its way to the shell, and it will be heard there.
AnsweredOnce ==
  \A f \in Frames :
    /\ \A i \in 1 .. Len(toShell[f]) :
         toShell[f][i].request \in Requests =>
           /\ run[toShell[f][i].request].step = "done"
           /\ run[toShell[f][i].request].frame = f
           /\ pending[toShell[f][i].request] # "none" \/ f \in missed
    /\ \A i, j \in 1 .. Len(toShell[f]) :
         toShell[f][i].request \in Requests /\ toShell[f][i].request = toShell[f][j].request =>
           i = j

\* The shell waits for the answers to come.
StillHeard ==
  \A r \in Requests :
    run[r].step \in {"sent"} \cup Awaiting => pending[r] # "none" \/ run[r].frame \in missed

MessagesInv == AskedOnce /\ AnsweredOnce /\ StillHeard

StageOf(f) == IF active = f THEN overlayStage ELSE "inline"

\* A run will tell the shell of f when it ends: that of a request of f, one that
\* puts f back, or that of a click while f is active.
ToldSoon(f) ==
  \E r \in Handled :
    \/ r \in Requests /\ run[r].step \in Awaiting /\ run[r].frame = f
    \/ r \in Clicks /\ run[r].step \in {"exiting", "exited"} /\ run[r].frame = f
    \/ r \in Clicks /\ run[r].step \in Awaiting \ {"exiting", "exited"} /\ active = f

Told(f) == toShell[f] # <<>> /\ toShell[f][Len(toShell[f])].stage = StageOf(f)

Waits(f) == \E r \in Requests : run[r].frame = f /\ pending[r] # "none"

Shown(f) == toShell[f] = <<>> /\ (shell[f] = StageOf(f) \/ Waits(f))

Follows(f) == toOverlay[f] # <<>> \/ ToldSoon(f) \/ Told(f) \/ Shown(f)

ShellFollows == \A f \in Frames \ missed : Follows(f)

ShellInv == ExpandInv /\ MessagesInv /\ ShellFollows

\* The run r goes on or ends, and stays that of its frame.
Proceeds(r) ==
  \E x \in Runs :
    /\ run' = [run EXCEPT ![r] = x]
    /\ r \in Requests => /\ run[r].step \in {"sent"} \cup Awaiting
                         /\ x.step \in {"done"} \cup Awaiting
                         /\ x.frame = run[r].frame

\* A shell is told of a stage, or gets the answer to r as r ends, or nothing.
Speaks(r) ==
  \/ UNCHANGED toShell
  \/ \E g \in Frames, s \in Stage3 : toShell' = Tell(g, Result(s))
  \/ \E s \in Stage3 : /\ r \in Requests /\ run'[r].step = "done"
                       /\ toShell' = Tell(run[r].frame, [request |-> r, stage |-> s])

-----------------------------------------------------------------------------
LEMMA AppendFacts ==
  ASSUME NEW S, NEW q \in Seq(S), NEW e \in S
  PROVE  /\ Append(q, e) # <<>> /\ Len(Append(q, e)) = Len(q) + 1 /\ Len(q) \in Nat
         /\ Append(q, e)[Len(q) + 1] = e
         /\ \A i \in 1 .. Len(q) : Append(q, e)[i] = q[i]
OBVIOUS

LEMMA TailFacts ==
  ASSUME NEW S, NEW q \in Seq(S), q # <<>>
  PROVE  /\ Len(q) \in Nat /\ Len(q) > 0 /\ Len(Tail(q)) = Len(q) - 1
         /\ Head(q) = q[1] /\ Head(q) \in S
         /\ \A i \in 1 .. Len(Tail(q)) : Tail(q)[i] = q[i + 1] /\ i + 1 \in 1 .. Len(q)
         /\ Tail(q) = <<>> => Len(q) = 1
         /\ Tail(q) # <<>> => Len(Tail(q)) > 0 /\ Tail(q)[Len(Tail(q))] = q[Len(q)]
<1>1. /\ Len(q) \in Nat /\ Len(q) > 0 /\ Len(Tail(q)) = Len(q) - 1
      /\ Head(q) = q[1] /\ Head(q) \in S /\ Tail(q) \in Seq(S)
  OBVIOUS
<1>2. \A i \in 1 .. Len(Tail(q)) : Tail(q)[i] = q[i + 1] /\ i + 1 \in 1 .. Len(q)
  BY <1>1
<1>3. Tail(q) = <<>> => Len(q) = 1
  <2>1. Len(<<>>) = 0
    OBVIOUS
  <2>2. Tail(q) = <<>> => Len(Tail(q)) = Len(<<>>)
    BY Zenon
  <2>3. Tail(q) = <<>> => Len(Tail(q)) = 0
    BY <2>1, <2>2, Zenon
  <2> QED BY <1>1, <2>3
<1>4. ASSUME Tail(q) # <<>>
      PROVE  Len(Tail(q)) > 0 /\ Tail(q)[Len(Tail(q))] = q[Len(q)]
  <2>1. Len(Tail(q)) > 0
    BY <1>1, <1>4
  <2>2. Len(Tail(q)) \in 1 .. Len(Tail(q)) /\ Len(Tail(q)) + 1 = Len(q)
    BY <1>1, <2>1
  <2> QED BY <1>2, <2>1, <2>2
<1> QED BY <1>1, <1>2, <1>3, <1>4

\* The messages that are told to a frame come last.
LEMMA TellFacts ==
  ASSUME ExpandTypeOK, NEW g \in Frames, NEW m \in Messages, toShell' = Tell(g, m)
  PROVE  /\ toShell'[g] = Append(toShell[g], m)
         /\ toShell[g] \in Seq(Messages)
         /\ \A f \in Frames : f # g => toShell'[f] = toShell[f]
BY DEF ExpandTypeOK, Messages, Tell

LEMMA FinishProceeds ==
  ASSUME ExpandInv, NEW r \in Handled, NEW g \in Frames \cup {Nothing}, NEW s \in Stage3,
         r \in Requests => run[r].step \in {"sent"} \cup Awaiting,
         Finish(r, g, s)
  PROVE  Proceeds(r) /\ Speaks(r) /\ run'[r].step = "done"
<1> DEFINE x == [run[r] EXCEPT !.step = "done"]
<1>1. /\ x \in Runs /\ x.step = "done" /\ x.frame = run[r].frame
      /\ run' = [run EXCEPT ![r] = x] /\ run'[r].step = "done"
  BY DEF ExpandInv, ExpandTypeOK, Runs, RunSteps, Finish
<1>2. Proceeds(r)
  BY <1>1 DEF Proceeds
<1>3. Speaks(r)
  BY <1>1 DEF Finish, Speaks
<1> QED BY <1>1, <1>2, <1>3

LEMMA AwaitProceeds ==
  ASSUME ExpandInv, NEW r \in Handled, NEW f \in Frames, NEW w \in Stage3,
         NEW step \in Awaiting, r \in Requests => run[r].step = "sent" /\ run[r].frame = f,
         Await(r, f, w, step)
  PROVE  Proceeds(r) /\ Speaks(r) /\ run'[r].step = step /\ run'[r].frame = f
<1> DEFINE x == [step |-> step, frame |-> f, want |-> w]
<1>1. x \in Runs /\ run' = [run EXCEPT ![r] = x] /\ x.step = step /\ x.frame = f
  BY DEF Runs, RunSteps, Awaiting, Await
<1>2. run'[r] = x
  BY <1>1 DEF ExpandInv, ExpandTypeOK
<1> QED BY <1>1, <1>2 DEF Proceeds, Speaks, Await

\* A run that proceeds leaves the other runs and the frames of the requests alone.
LEMMA ProceedsAlone ==
  ASSUME ExpandInv, NEW r \in Handled, Proceeds(r)
  PROVE  /\ \A q \in Handled : q # r => run'[q] = run[q]
         /\ \A q \in Requests : run'[q].frame = run[q].frame
BY DEF ExpandInv, ExpandTypeOK, Proceeds, Handled

-----------------------------------------------------------------------------
\* The messages after a step of the overlay for the run r, which may have taken the
\* first message of a shell.

LEMMA AskedMove ==
  ASSUME ExpandInv, AskedOnce, NEW r \in Handled, Proceeds(r),
         \/ UNCHANGED toOverlay /\ (r \in Requests => run[r].step # "sent")
         \/ \E f \in Frames : /\ toOverlay[f] # <<>> /\ r = Head(toOverlay[f])
                              /\ toOverlay' = [toOverlay EXCEPT ![f] = Tail(@)]
  PROVE  AskedOnce'
<1>0. /\ toOverlay \in [Frames -> Seq(Requests)]
      /\ \A q \in Handled : q # r => run'[q] = run[q]
  BY ProceedsAlone DEF ExpandInv, ExpandTypeOK
<1>1. CASE UNCHANGED toOverlay /\ (r \in Requests => run[r].step # "sent")
  <2>1. ASSUME NEW f \in Frames, NEW i \in 1 .. Len(toOverlay[f])
        PROVE  toOverlay[f][i] \in Requests /\ run'[toOverlay[f][i]] = run[toOverlay[f][i]]
    <3>1. toOverlay[f] \in Seq(Requests)
      BY <1>0
    <3>2. toOverlay[f][i] \in Requests /\ toOverlay[f][i] \in Handled
      BY <3>1 DEF Handled
    <3> QED BY <1>0, <1>1, <3>2 DEF AskedOnce
  <2> QED BY <1>1, <2>1 DEF AskedOnce
<1>2. ASSUME NEW f \in Frames, toOverlay[f] # <<>>, r = Head(toOverlay[f]),
             toOverlay' = [toOverlay EXCEPT ![f] = Tail(@)]
      PROVE  AskedOnce'
  <2>1. toOverlay[f] \in Seq(Requests) /\ toOverlay'[f] = Tail(toOverlay[f])
    BY <1>0, <1>2
  <2>2. /\ Len(toOverlay[f]) \in Nat /\ Len(toOverlay[f]) > 0
        /\ r = toOverlay[f][1] /\ r \in Requests
        /\ Len(toOverlay'[f]) = Len(toOverlay[f]) - 1
        /\ \A i \in 1 .. Len(toOverlay'[f]) :
             toOverlay'[f][i] = toOverlay[f][i + 1] /\ i + 1 \in 1 .. Len(toOverlay[f])
    <3> DEFINE q == toOverlay[f]
    <3>1. q \in Seq(Requests) /\ q # <<>> /\ r = Head(q) /\ toOverlay'[f] = Tail(q)
      BY <1>2, <2>1
    <3> HIDE DEF q
    <3>2. /\ Len(q) \in Nat /\ Len(q) > 0 /\ r = q[1] /\ r \in Requests
          /\ Len(Tail(q)) = Len(q) - 1
          /\ \A i \in 1 .. Len(Tail(q)) : Tail(q)[i] = q[i + 1] /\ i + 1 \in 1 .. Len(q)
      BY <3>1, TailFacts
    <3> QED BY <3>1, <3>2 DEF q
  <2>3. run[r].frame = f
    BY <2>2 DEF AskedOnce
  <2>4. ASSUME NEW g \in Frames, g # f
        PROVE  /\ toOverlay'[g] = toOverlay[g]
               /\ \A i \in 1 .. Len(toOverlay[g]) : run'[toOverlay[g][i]] = run[toOverlay[g][i]]
    <3>1. toOverlay'[g] = toOverlay[g] /\ toOverlay[g] \in Seq(Requests)
      BY <1>0, <1>2, <2>4
    <3>2. ASSUME NEW i \in 1 .. Len(toOverlay[g])
          PROVE  toOverlay[g][i] \in Handled /\ toOverlay[g][i] # r
      BY <2>3, <2>4, <3>1 DEF AskedOnce, Handled
    <3> QED BY <1>0, <3>1, <3>2
  <2>5. ASSUME NEW i \in 1 .. Len(toOverlay'[f])
        PROVE  run'[toOverlay'[f][i]] = run[toOverlay[f][i + 1]]
    <3>1. 1 \in 1 .. Len(toOverlay[f]) /\ i + 1 \in 1 .. Len(toOverlay[f]) /\ i + 1 # 1
      BY <2>2
    <3>2. toOverlay[f][i + 1] \in Handled /\ toOverlay[f][i + 1] # r
      BY <2>1, <2>2, <3>1 DEF AskedOnce, Handled
    <3> QED BY <1>0, <2>2, <3>2
  <2>6. /\ \A i \in 1 .. Len(toOverlay'[f]) :
             run'[toOverlay'[f][i]].step = "sent" /\ run'[toOverlay'[f][i]].frame = f
        /\ \A i, j \in 1 .. Len(toOverlay'[f]) : toOverlay'[f][i] = toOverlay'[f][j] => i = j
    <3>1. ASSUME NEW i \in 1 .. Len(toOverlay'[f]), NEW j \in 1 .. Len(toOverlay'[f]),
                 toOverlay'[f][i] = toOverlay'[f][j]
          PROVE  i = j
      <4>1. i + 1 = j + 1
        BY <2>2, <3>1 DEF AskedOnce
      <4> QED BY <4>1
    <3> QED BY <2>2, <2>5, <3>1 DEF AskedOnce
  <2> QED BY <2>4, <2>6 DEF AskedOnce
<1> QED BY <1>1, <1>2

\* One message more, for none or for a request that has no other.
LEMMA AnsweredTold ==
  ASSUME ExpandInv, AnsweredOnce, NEW g \in Frames, NEW m \in Messages, toShell' = Tell(g, m),
         UNCHANGED pending, missed \subseteq missed',
         \A f \in Frames : \A i \in 1 .. Len(toShell[f]) :
           toShell[f][i].request \in Requests =>
             /\ toShell[f][i].request # m.request
             /\ run'[toShell[f][i].request] = run[toShell[f][i].request],
         m.request \in Requests =>
           /\ run'[m.request].step = "done" /\ run'[m.request].frame = g
           /\ pending'[m.request] # "none" \/ g \in missed'
  PROVE  AnsweredOnce'
<1>1. /\ toShell'[g] = Append(toShell[g], m) /\ toShell[g] \in Seq(Messages)
      /\ \A f \in Frames : f # g => toShell'[f] = toShell[f]
  BY TellFacts DEF ExpandInv
<1> DEFINE n == Len(toShell[g])
<1>2. /\ n \in Nat /\ Len(toShell'[g]) = n + 1 /\ toShell'[g][n + 1] = m
      /\ \A i \in 1 .. n : toShell'[g][i] = toShell[g][i]
  BY <1>1, AppendFacts
<1> HIDE DEF n
<1>3. ASSUME NEW i \in 1 .. Len(toShell'[g]), toShell'[g][i].request \in Requests
      PROVE  /\ run'[toShell'[g][i].request].step = "done"
             /\ run'[toShell'[g][i].request].frame = g
             /\ pending'[toShell'[g][i].request] # "none" \/ g \in missed'
  <2>1. CASE i = n + 1
    BY <1>2, <1>3, <2>1
  <2>2. CASE i \in 1 .. n
    BY <1>2, <1>3, <2>2 DEF AnsweredOnce, n
  <2> QED BY <1>2, <2>1, <2>2
<1>4. ASSUME NEW i \in 1 .. Len(toShell'[g]), NEW j \in 1 .. Len(toShell'[g]),
             toShell'[g][i].request \in Requests,
             toShell'[g][i].request = toShell'[g][j].request
      PROVE  i = j
  <2>1. CASE i \in 1 .. n /\ j \in 1 .. n
    BY <1>2, <1>4, <2>1 DEF AnsweredOnce, n
  <2>2. \A k \in 1 .. n : toShell'[g][k].request \in Requests => toShell'[g][k].request # m.request
    BY <1>2 DEF n
  <2> QED BY <1>2, <1>4, <2>1, <2>2
<1>5. ASSUME NEW f \in Frames, f # g
      PROVE  /\ \A i \in 1 .. Len(toShell'[f]) :
                  toShell'[f][i].request \in Requests =>
                    /\ run'[toShell'[f][i].request].step = "done"
                    /\ run'[toShell'[f][i].request].frame = f
                    /\ pending'[toShell'[f][i].request] # "none" \/ f \in missed'
             /\ \A i, j \in 1 .. Len(toShell'[f]) :
                  toShell'[f][i].request \in Requests
                    /\ toShell'[f][i].request = toShell'[f][j].request => i = j
  BY <1>1, <1>5 DEF AnsweredOnce
<1> QED BY <1>3, <1>4, <1>5 DEF AnsweredOnce

LEMMA AnsweredMove ==
  ASSUME ExpandInv, AnsweredOnce, StillHeard, NEW r \in Handled, Proceeds(r), Speaks(r),
         UNCHANGED pending, missed \subseteq missed'
  PROVE  AnsweredOnce' /\ StillHeard'
<1>0. /\ toShell \in [Frames -> Seq(Messages)]
      /\ \A q \in Handled : q # r => run'[q] = run[q]
      /\ \A q \in Requests : run'[q].frame = run[q].frame
      /\ Nothing \notin Requests
  BY ProceedsAlone, FramesAssumption DEF ExpandInv, ExpandTypeOK, Messages
<1>1. StillHeard'
  BY <1>0 DEF StillHeard, Proceeds, Handled
<1>2. ASSUME NEW f \in Frames, NEW i \in 1 .. Len(toShell[f]), toShell[f][i].request \in Requests
      PROVE  /\ toShell[f][i].request # r
             /\ run'[toShell[f][i].request] = run[toShell[f][i].request]
  <2>1. toShell[f][i].request # r
    BY <1>2 DEF AnsweredOnce, Proceeds, Awaiting
  <2> QED BY <1>0, <1>2, <2>1 DEF Handled
<1>3. CASE UNCHANGED toShell
  <2>1. ASSUME NEW f \in Frames
        PROVE  /\ \A i \in 1 .. Len(toShell'[f]) :
                    toShell'[f][i].request \in Requests =>
                      /\ run'[toShell'[f][i].request].step = "done"
                      /\ run'[toShell'[f][i].request].frame = f
                      /\ pending'[toShell'[f][i].request] # "none" \/ f \in missed'
               /\ \A i, j \in 1 .. Len(toShell'[f]) :
                    toShell'[f][i].request \in Requests
                      /\ toShell'[f][i].request = toShell'[f][j].request => i = j
    <3>1. toShell'[f] = toShell[f]
      BY <1>3
    <3> QED BY <1>2, <3>1 DEF AnsweredOnce
  <2> QED BY <1>1, <2>1 DEF AnsweredOnce
<1>4. ASSUME NEW g \in Frames, NEW m \in Messages, toShell' = Tell(g, m),
             \/ m.request = Nothing
             \/ /\ m.request = r /\ r \in Requests /\ run'[r].step = "done"
                /\ g = run[r].frame
      PROVE  AnsweredOnce'
  <2>1. m.request \in Requests =>
          /\ run'[m.request].step = "done" /\ run'[m.request].frame = g
          /\ pending'[m.request] # "none" \/ g \in missed'
    BY <1>0, <1>4 DEF StillHeard, Proceeds
  <2>2. ASSUME NEW f \in Frames, NEW i \in 1 .. Len(toShell[f]),
               toShell[f][i].request \in Requests
        PROVE  /\ toShell[f][i].request # m.request
               /\ run'[toShell[f][i].request] = run[toShell[f][i].request]
    BY <1>0, <1>2, <1>4, <2>2
  <2> QED BY <1>4, <2>1, <2>2, AnsweredTold
<1>5. ASSUME NEW g \in Frames, NEW s \in Stage3, toShell' = Tell(g, Result(s))
      PROVE  AnsweredOnce'
  BY <1>4, <1>5 DEF Result, Messages
<1>6. ASSUME NEW s \in Stage3, r \in Requests, run'[r].step = "done",
             toShell' = Tell(run[r].frame, [request |-> r, stage |-> s])
      PROVE  AnsweredOnce'
  <2>1. run[r].frame \in Frames
    BY <1>6 DEF Proceeds, ExpandInv, RunsPlaced, Awaiting
  <2>2. PICK g \in Frames : g = run[r].frame
    BY <2>1
  <2>3. [request |-> r, stage |-> s] \in Messages
    BY <1>6 DEF Messages
  <2> QED BY <1>4, <1>6, <2>2, <2>3
<1> QED BY <1>1, <1>3, <1>5, <1>6 DEF Speaks

-----------------------------------------------------------------------------
\* The messages after a step of the shell.

LEMMA RequestAsked ==
  ASSUME ExpandInv, MessagesInv, NEW f \in Frames, NEW r \in Requests, NEW w \in Stage3,
         Request(r, f, w)
  PROVE  MessagesInv'
<1> USE DEF ExpandInv, MessagesInv
<1>0. /\ r \in Handled /\ run[r].step = "idle" /\ run \in [Handled -> Runs]
      /\ run'[r] = [step |-> "sent", frame |-> f, want |-> w]
      /\ \A q \in Handled : q # r => run'[q] = run[q]
      /\ pending'[r] = "waiting" /\ \A q \in Requests : q # r => pending'[q] = pending[q]
      /\ UNCHANGED <<toShell, missed>>
      /\ toOverlay' = [toOverlay EXCEPT ![f] = Append(@, r)]
      /\ toOverlay \in [Frames -> Seq(Requests)] /\ toShell \in [Frames -> Seq(Messages)]
  BY DEF Request, ExpandTypeOK, Handled, Messages
<1>1. StillHeard'
  BY <1>0 DEF StillHeard, Handled
<1>2. AnsweredOnce'
  <2>1. ASSUME NEW g \in Frames, NEW i \in 1 .. Len(toShell[g]),
               toShell[g][i].request \in Requests
        PROVE  /\ run'[toShell[g][i].request] = run[toShell[g][i].request]
               /\ pending'[toShell[g][i].request] = pending[toShell[g][i].request]
    BY <1>0, <2>1 DEF AnsweredOnce, Handled
  <2>2. ASSUME NEW g \in Frames, NEW i \in 1 .. Len(toShell[g]),
               toShell[g][i].request \in Requests
        PROVE  /\ run'[toShell[g][i].request].step = "done"
               /\ run'[toShell[g][i].request].frame = g
               /\ pending'[toShell[g][i].request] # "none" \/ g \in missed
    <3>1. /\ run[toShell[g][i].request].step = "done"
          /\ run[toShell[g][i].request].frame = g
          /\ pending[toShell[g][i].request] # "none" \/ g \in missed
      BY <2>2 DEF AnsweredOnce
    <3> QED BY <2>1, <2>2, <3>1
  <2>3. toShell' = toShell /\ missed' = missed
    BY <1>0
  <2> QED BY <2>2, <2>3 DEF AnsweredOnce
<1>3. ASSUME NEW g \in Frames, NEW i \in 1 .. Len(toOverlay[g])
      PROVE  toOverlay[g][i] # r /\ run'[toOverlay[g][i]] = run[toOverlay[g][i]]
  <2>1. toOverlay[g] \in Seq(Requests)
    BY <1>0
  <2>2. toOverlay[g][i] \in Handled
    BY <2>1 DEF Handled
  <2> QED BY <1>0, <2>2 DEF AskedOnce
<1>4. AskedOnce'
  <2> DEFINE n == Len(toOverlay[f])
  <2>1. /\ toOverlay'[f] = Append(toOverlay[f], r) /\ toOverlay[f] \in Seq(Requests)
        /\ \A g \in Frames : g # f => toOverlay'[g] = toOverlay[g]
    BY <1>0
  <2>2. /\ n \in Nat /\ Len(toOverlay'[f]) = n + 1 /\ toOverlay'[f][n + 1] = r
        /\ \A i \in 1 .. n : toOverlay'[f][i] = toOverlay[f][i]
    BY <2>1, AppendFacts
  <2> HIDE DEF n
  <2>3. ASSUME NEW i \in 1 .. Len(toOverlay'[f])
        PROVE  run'[toOverlay'[f][i]].step = "sent" /\ run'[toOverlay'[f][i]].frame = f
    <3>1. CASE i = n + 1
      BY <1>0, <2>2, <3>1
    <3>2. CASE i \in 1 .. n
      BY <1>3, <2>2, <3>2 DEF AskedOnce, n
    <3> QED BY <2>2, <3>1, <3>2
  <2>4. ASSUME NEW i \in 1 .. Len(toOverlay'[f]), NEW j \in 1 .. Len(toOverlay'[f]),
               toOverlay'[f][i] = toOverlay'[f][j]
        PROVE  i = j
    <3>1. CASE i \in 1 .. n /\ j \in 1 .. n
      BY <2>2, <2>4, <3>1 DEF AskedOnce, n
    <3>2. \A k \in 1 .. n : toOverlay'[f][k] # r
      BY <1>3, <2>2 DEF n
    <3> QED BY <2>2, <2>4, <3>1, <3>2
  <2>5. ASSUME NEW g \in Frames, g # f
        PROVE  /\ \A i \in 1 .. Len(toOverlay'[g]) :
                    run'[toOverlay'[g][i]].step = "sent" /\ run'[toOverlay'[g][i]].frame = g
               /\ \A i, j \in 1 .. Len(toOverlay'[g]) :
                    toOverlay'[g][i] = toOverlay'[g][j] => i = j
    BY <1>3, <2>1, <2>5 DEF AskedOnce
  <2> QED BY <2>3, <2>4, <2>5 DEF AskedOnce
<1> QED BY <1>1, <1>2, <1>4

\* What a shell takes from its messages.
LEMMA ReceiveFacts ==
  ASSUME ExpandInv, AnsweredOnce, NEW f \in Frames, Receive(f)
  PROVE  /\ Len(toShell[f]) \in Nat /\ Len(toShell[f]) > 0
         /\ Head(toShell[f]) = toShell[f][1] /\ Head(toShell[f]) \in Messages
         /\ Len(toShell'[f]) = Len(toShell[f]) - 1
         /\ \A i \in 1 .. Len(toShell'[f]) :
              toShell'[f][i] = toShell[f][i + 1] /\ i + 1 \in 1 .. Len(toShell[f])
         /\ toShell'[f] = <<>> => Len(toShell[f]) = 1
         /\ toShell'[f] # <<>> =>
              Len(toShell'[f]) > 0 /\ toShell'[f][Len(toShell'[f])] = toShell[f][Len(toShell[f])]
         /\ \A g \in Frames : g # f => toShell'[g] = toShell[g]
<1> DEFINE q == toShell[f]
<1>1. /\ q \in Seq(Messages) /\ q # <<>> /\ toShell'[f] = Tail(q)
      /\ \A g \in Frames : g # f => toShell'[g] = toShell[g]
  BY DEF ExpandInv, ExpandTypeOK, Messages, Receive
<1> HIDE DEF q
<1>2. /\ Len(q) \in Nat /\ Len(q) > 0 /\ Head(q) = q[1] /\ Head(q) \in Messages
      /\ Len(Tail(q)) = Len(q) - 1
      /\ \A i \in 1 .. Len(Tail(q)) : Tail(q)[i] = q[i + 1] /\ i + 1 \in 1 .. Len(q)
      /\ Tail(q) = <<>> => Len(q) = 1
      /\ Tail(q) # <<>> => Len(Tail(q)) > 0 /\ Tail(q)[Len(Tail(q))] = q[Len(q)]
  BY <1>1, TailFacts
<1> QED BY <1>1, <1>2 DEF q

LEMMA ReceiveAnswered ==
  ASSUME ExpandInv, MessagesInv, NEW f \in Frames, Receive(f)
  PROVE  MessagesInv'
<1> USE DEF ExpandInv, MessagesInv
<1> DEFINE r == Head(toShell[f]).request
<1>0. /\ UNCHANGED <<run, toOverlay, missed>>
      /\ pending' = [q \in Requests |-> IF q = r THEN "none" ELSE pending[q]]
  BY DEF Receive
<1>1. /\ r = toShell[f][1].request /\ 1 \in 1 .. Len(toShell[f])
      /\ r \in Requests => run[r].step = "done" /\ run[r].frame = f
  BY ReceiveFacts DEF AnsweredOnce
<1>2. AskedOnce'
  BY <1>0 DEF AskedOnce
<1>3. StillHeard'
  BY <1>0, <1>1 DEF StillHeard, Awaiting
<1>4. ASSUME NEW i \in 1 .. Len(toShell'[f]), toShell'[f][i].request \in Requests
      PROVE  /\ run[toShell'[f][i].request].step = "done"
             /\ run[toShell'[f][i].request].frame = f
             /\ pending'[toShell'[f][i].request] # "none" \/ f \in missed
  <2>0. Len(toShell'[f]) \in Int
    BY ReceiveFacts
  <2>1. toShell'[f][i] = toShell[f][i + 1] /\ i + 1 \in 1 .. Len(toShell[f])
    BY ReceiveFacts
  <2>2. i + 1 # 1
    BY <2>0
  <2>3. toShell[f][i + 1].request # r
    BY <1>1, <1>4, <2>1, <2>2 DEF AnsweredOnce
  <2> QED BY <1>0, <1>4, <2>1, <2>3 DEF AnsweredOnce
<1>5. ASSUME NEW i \in 1 .. Len(toShell'[f]), NEW j \in 1 .. Len(toShell'[f]),
             toShell'[f][i].request \in Requests,
             toShell'[f][i].request = toShell'[f][j].request
      PROVE  i = j
  <2>1. /\ toShell'[f][i] = toShell[f][i + 1] /\ i + 1 \in 1 .. Len(toShell[f])
        /\ toShell'[f][j] = toShell[f][j + 1] /\ j + 1 \in 1 .. Len(toShell[f])
    BY ReceiveFacts
  <2>2. i + 1 = j + 1
    BY <1>5, <2>1 DEF AnsweredOnce
  <2> QED BY <2>2
<1>6. ASSUME NEW g \in Frames, g # f
      PROVE  /\ \A i \in 1 .. Len(toShell'[g]) :
                  toShell'[g][i].request \in Requests =>
                    /\ run[toShell'[g][i].request].step = "done"
                    /\ run[toShell'[g][i].request].frame = g
                    /\ pending'[toShell'[g][i].request] # "none" \/ g \in missed
             /\ \A i, j \in 1 .. Len(toShell'[g]) :
                  toShell'[g][i].request \in Requests
                    /\ toShell'[g][i].request = toShell'[g][j].request => i = j
  <2>1. toShell'[g] = toShell[g]
    BY <1>6, ReceiveFacts
  <2>2. ASSUME NEW i \in 1 .. Len(toShell[g]), toShell[g][i].request \in Requests
        PROVE  pending'[toShell[g][i].request] = pending[toShell[g][i].request]
    <3>1. toShell[g][i].request # r
      BY <1>1, <1>6, <2>2 DEF AnsweredOnce
    <3> QED BY <1>0, <2>2, <3>1
  <2> HIDE DEF r
  <2> QED BY <2>1, <2>2 DEF AnsweredOnce
<1>7. AnsweredOnce'
  <2>1. run' = run /\ missed' = missed
    BY <1>0
  <2> HIDE DEF r
  <2> QED BY <1>4, <1>5, <1>6, <2>1 DEF AnsweredOnce
<1> QED BY <1>2, <1>3, <1>7

LEMMA TimerMessages ==
  ASSUME ExpandInv, MessagesInv, NEW r \in Requests, TimeOut(r) \/ Forget(r)
  PROVE  MessagesInv'
<1> USE DEF ExpandInv, MessagesInv
<1>1. /\ UNCHANGED <<run, toOverlay, toShell>> /\ missed \subseteq missed'
      /\ \A q \in Requests :
           pending[q] # "none" => pending'[q] # "none" \/ run[q].frame \in missed'
  BY DEF TimeOut, Forget, ExpandTypeOK, channels
<1>2. AskedOnce' /\ StillHeard'
  BY <1>1 DEF AskedOnce, StillHeard
<1>3. ASSUME NEW g \in Frames
      PROVE  /\ \A i \in 1 .. Len(toShell[g]) :
                  toShell[g][i].request \in Requests =>
                    /\ run[toShell[g][i].request].step = "done"
                    /\ run[toShell[g][i].request].frame = g
                    /\ pending'[toShell[g][i].request] # "none" \/ g \in missed'
             /\ \A i, j \in 1 .. Len(toShell[g]) :
                  toShell[g][i].request \in Requests
                    /\ toShell[g][i].request = toShell[g][j].request => i = j
  BY <1>1 DEF AnsweredOnce
<1>4. AnsweredOnce'
  BY <1>1, <1>3 DEF AnsweredOnce
<1> QED BY <1>2, <1>4

-----------------------------------------------------------------------------
\* A frame whose stage and messages a step leaves alone, as the runs that will tell
\* its shell.
LEMMA Unaffected ==
  ASSUME NEW g \in Frames, Follows(g),
         toOverlay'[g] = toOverlay[g], toShell'[g] = toShell[g], shell'[g] = shell[g],
         StageOf(g)' = StageOf(g), ToldSoon(g) => ToldSoon(g)', Waits(g) => Waits(g)'
  PROVE  Follows(g)'
BY DEF Follows, Told, Shown

\* A frame whose shell is told of the stage it has then.
LEMMA JustTold ==
  ASSUME ExpandTypeOK, NEW g \in Frames, NEW m \in Messages,
         toShell' = Tell(g, m), m.stage = StageOf(g)'
  PROVE  Follows(g)'
<1>1. toShell'[g] = Append(toShell[g], m) /\ toShell[g] \in Seq(Messages)
  BY TellFacts
<1>2. toShell'[g] # <<>> /\ toShell'[g][Len(toShell'[g])] = m
  BY <1>1, AppendFacts
<1> QED BY <1>2 DEF Follows, Told

\* A run that was not under way takes nothing from what other frames will be told.
LEMMA OthersToldSoon ==
  ASSUME ExpandInv, NEW r \in Handled, Proceeds(r), run[r].step \notin Awaiting,
         NEW g \in Frames, active' = active \/ active # g
  PROVE  ToldSoon(g) => ToldSoon(g)'
<1>1. \A q \in Handled : q # r => run'[q] = run[q]
  BY ProceedsAlone
<1> QED BY <1>1 DEF ToldSoon, Awaiting

LEMMA FinishTells ==
  ASSUME ExpandInv, NEW r \in Handled, NEW f \in Frames, NEW s \in Stage3,
         r \in Requests => run[r].frame = f, Finish(r, f, s)
  PROVE  \E m \in Messages : m.stage = s /\ toShell' = Tell(f, m)
<1>1. f # Nothing
  BY FramesAssumption
<1> QED BY <1>1 DEF Finish, Result, Messages

\* The frame that a step expands or puts back is told, or will be; the one that has to
\* make room is not, and cannot know.
LEMMA EnterFollows ==
  ASSUME ShellInv, NEW r \in Handled, NEW f \in Frames, NEW w \in Expand, Enter(r, f, w),
         r \in Requests => run[r].step = "sent" /\ run[r].frame = f,
         r \in Clicks => run[r].step = "idle" /\ active = f,
         UNCHANGED shellVars,
         \A g \in Frames : g # f => toOverlay'[g] = toOverlay[g]
  PROVE  /\ Proceeds(r) /\ Speaks(r) /\ missed \subseteq missed'
         /\ ShellFollows'
<1> USE DEF ShellInv, ExpandInv
<1>0. /\ w \in Stage3 /\ f # Nothing /\ active' = f /\ overlayStage' = w
      /\ r \in Requests \/ r \in Clicks
      /\ active # f => active \in missed' \cup {Nothing}
      /\ missed \subseteq missed'
  BY FramesAssumption DEF Expand, Stage3, Enter, Handled
<1>1. \/ Finish(r, f, w)
      \/ \E step \in {"entering", "leaving"} : Await(r, f, w, step)
  BY DEF Enter
<1>2. Proceeds(r) /\ Speaks(r) /\ run[r].step \notin Awaiting
  BY <1>0, <1>1, FinishProceeds, AwaitProceeds DEF Awaiting
<1>3. Follows(f)'
  <2>1. CASE Finish(r, f, w)
    <3>1. PICK m \in Messages : m.stage = w /\ toShell' = Tell(f, m)
      BY <1>0, <2>1, FinishTells
    <3> QED BY <1>0, <3>1, JustTold DEF StageOf
  <2>2. ASSUME NEW step \in {"entering", "leaving"}, Await(r, f, w, step) PROVE Follows(f)'
    <3>1. run'[r].step = step /\ run'[r].frame = f
      BY <1>0, <2>2, AwaitProceeds DEF Awaiting
    <3> QED BY <1>0, <3>1 DEF Follows, ToldSoon, Awaiting
  <2> QED BY <1>1, <2>1, <2>2
<1>4. ASSUME NEW g \in Frames \ missed', g # f PROVE Follows(g)'
  <2>1. active # g /\ StageOf(g)' = StageOf(g)
    BY <1>0, <1>4, FramesAssumption DEF StageOf
  <2>2. toShell'[g] = toShell[g]
    <3>1. CASE Finish(r, f, w)
      BY <1>0, <1>4, <3>1, FinishTells, TellFacts
    <3>2. CASE UNCHANGED toShell
      BY <3>2
    <3> QED BY <1>1, <3>1, <3>2 DEF Await
  <2>3. ToldSoon(g) => ToldSoon(g)'
    BY <1>2, <2>1, OthersToldSoon
  <2>4. Waits(g) => Waits(g)'
    BY <1>2, ProceedsAlone DEF Waits, shellVars
  <2>5. Follows(g) /\ shell'[g] = shell[g]
    BY <1>0, <1>4 DEF ShellFollows, shellVars
  <2> QED BY <1>4, <2>1, <2>2, <2>3, <2>4, <2>5, Unaffected
<1> QED BY <1>0, <1>2, <1>3, <1>4 DEF ShellFollows

LEMMA LeaveFollows ==
  ASSUME ShellInv, NEW r \in Handled, NEW f \in Frames, Leave(r, f), active = f,
         r \in Requests => run[r].step = "sent" /\ run[r].frame = f,
         r \in Clicks => run[r].step = "idle",
         UNCHANGED shellVars,
         \A g \in Frames : g # f => toOverlay'[g] = toOverlay[g]
  PROVE  /\ Proceeds(r) /\ Speaks(r) /\ missed \subseteq missed'
         /\ ShellFollows'
<1> USE DEF ShellInv, ExpandInv
<1>0. /\ f # Nothing /\ "inline" \in Stage3
      /\ r \in Requests \/ r \in Clicks
      /\ missed' = missed
  BY FramesAssumption DEF Stage3, Leave, Handled
<1>1. \/ Restore /\ Finish(r, f, "inline")
      \/ Await(r, f, "inline", "exiting") /\ UNCHANGED <<active, overlayStage>>
  BY DEF Leave
<1>2. Proceeds(r) /\ Speaks(r) /\ run[r].step \notin Awaiting
  BY <1>0, <1>1, FinishProceeds, AwaitProceeds DEF Awaiting
<1>3. Follows(f)'
  <2>1. CASE Restore /\ Finish(r, f, "inline")
    <3>1. PICK m \in Messages : m.stage = "inline" /\ toShell' = Tell(f, m)
      BY <1>0, <2>1, FinishTells
    <3> QED BY <1>0, <2>1, <3>1, JustTold DEF StageOf, Restore
  <2>2. CASE Await(r, f, "inline", "exiting")
    <3>1. run'[r].step = "exiting" /\ run'[r].frame = f
      BY <1>0, <2>2, AwaitProceeds DEF Awaiting
    <3> QED BY <1>0, <3>1 DEF Follows, ToldSoon, Awaiting
  <2> QED BY <1>1, <2>1, <2>2
<1>4. ASSUME NEW g \in Frames \ missed', g # f PROVE Follows(g)'
  <2>1. active # g /\ StageOf(g)' = StageOf(g)
    BY <1>0, <1>1, <1>4, FramesAssumption DEF StageOf, Restore
  <2>2. toShell'[g] = toShell[g]
    <3>1. CASE Finish(r, f, "inline")
      BY <1>0, <1>4, <3>1, FinishTells, TellFacts
    <3>2. CASE UNCHANGED toShell
      BY <3>2
    <3> QED BY <1>1, <3>1, <3>2 DEF Await
  <2>3. ToldSoon(g) => ToldSoon(g)'
    BY <1>2, <2>1, OthersToldSoon
  <2>4. Waits(g) => Waits(g)'
    BY <1>2, ProceedsAlone DEF Waits, shellVars
  <2>5. Follows(g) /\ shell'[g] = shell[g]
    BY <1>0, <1>4 DEF ShellFollows, shellVars
  <2> QED BY <1>4, <2>1, <2>2, <2>3, <2>4, <2>5, Unaffected
<1> QED BY <1>0, <1>2, <1>3, <1>4 DEF ShellFollows

LEMMA HandleFollows ==
  ASSUME ShellInv, NEW f \in Frames, Handle(f)
  PROVE  MessagesInv' /\ ShellFollows'
<1> USE DEF ShellInv, ExpandInv, MessagesInv
<1> SUFFICES ASSUME NEW r, r = Head(toOverlay[f]) PROVE MessagesInv' /\ ShellFollows'
  OBVIOUS
<1>0. /\ toOverlay[f] \in Seq(Requests) /\ toOverlay[f] # <<>>
      /\ toOverlay' = [toOverlay EXCEPT ![f] = Tail(@)]
      /\ UNCHANGED shellVars
      /\ \A g \in Frames : g # f => toOverlay'[g] = toOverlay[g]
  BY DEF Handle, ExpandTypeOK
<1>1. /\ r \in Requests /\ r \in Handled /\ r \notin Clicks
      /\ run[r].step = "sent" /\ run[r].frame = f /\ run[r].want \in Stage3
  <2>1. r = toOverlay[f][1] /\ 1 \in 1 .. Len(toOverlay[f]) /\ r \in Requests
    BY <1>0
  <2> QED BY <2>1, FramesAssumption DEF AskedOnce, Handled, ExpandTypeOK, Runs
<1>2. Proceeds(r) /\ Speaks(r) /\ missed \subseteq missed' /\ ShellFollows'
  <2>1. CASE run[r].want # "inline" /\ Enter(r, f, run[r].want)
    BY <1>0, <1>1, <2>1, EnterFollows DEF Stage3
  <2>2. CASE run[r].want = "inline" /\ active = f /\ Leave(r, f)
    BY <1>0, <1>1, <2>2, LeaveFollows
  <2>3. CASE /\ active # f /\ Finish(r, f, "inline")
             /\ UNCHANGED <<active, overlayStage, native, moved, missed>>
    <3>1. "inline" \in Stage3
      BY DEF Stage3
    <3>2. Proceeds(r) /\ Speaks(r) /\ run[r].step \notin Awaiting
      BY <1>1, <2>3, <3>1, FinishProceeds DEF Awaiting
    <3>3. PICK m \in Messages : m.stage = "inline" /\ toShell' = Tell(f, m)
      BY <1>1, <2>3, <3>1, FinishTells
    <3>4. Follows(f)'
      BY <2>3, <3>3, JustTold DEF StageOf
    <3>5. ASSUME NEW g \in Frames \ missed', g # f PROVE Follows(g)'
      <4>1. toShell'[g] = toShell[g]
        BY <3>3, <3>5, TellFacts
      <4>2. ToldSoon(g) => ToldSoon(g)'
        BY <2>3, <3>2, <1>1, OthersToldSoon
      <4>3. Waits(g) => Waits(g)'
        BY <1>0, <1>1, <3>2, ProceedsAlone DEF Waits, shellVars
      <4>4. Follows(g) /\ shell'[g] = shell[g] /\ StageOf(g)' = StageOf(g)
        BY <1>0, <2>3, <3>5 DEF ShellFollows, StageOf, shellVars
      <4> QED BY <1>0, <3>5, <4>1, <4>2, <4>3, <4>4, Unaffected
    <3> QED BY <2>3, <3>2, <3>4, <3>5 DEF ShellFollows
  <2> QED BY <1>1, <2>1, <2>2, <2>3 DEF Handle
<1>3. MessagesInv'
  BY <1>0, <1>1, <1>2, AskedMove, AnsweredMove DEF shellVars
<1> QED BY <1>2, <1>3

LEMMA ClickFollows ==
  ASSUME ShellInv, NEW c \in Clicks, Toggle(c) \/ Close(c)
  PROVE  MessagesInv' /\ ShellFollows'
<1> USE DEF ShellInv, ExpandInv, MessagesInv
<1> SUFFICES ASSUME NEW f, f = active PROVE MessagesInv' /\ ShellFollows'
  OBVIOUS
<1>0. /\ c \in Handled /\ c \notin Requests /\ f \in Frames
      /\ run[c].step = "idle" /\ UNCHANGED <<shellVars, toOverlay>>
  BY FramesAssumption DEF Handled, Toggle, Close, ExpandTypeOK
<1>1. Proceeds(c) /\ Speaks(c) /\ missed \subseteq missed' /\ ShellFollows'
  <2>1. CASE Toggle(c)
    <3>1. PICK w \in Expand : Enter(c, f, w)
      BY <2>1 DEF Toggle, Expand
    <3> QED BY <1>0, <3>1, EnterFollows
  <2>2. CASE Close(c)
    BY <1>0, <2>2, LeaveFollows DEF Close
  <2> QED BY <2>1, <2>2
<1>2. MessagesInv'
  BY <1>0, <1>1, AskedMove, AnsweredMove DEF shellVars
<1> QED BY <1>1, <1>2

\* The fullscreen listener tells the active frame of each change of its stage.
LEMMA FullscreenFollows ==
  ASSUME ShellInv, NEW e, BecomeFullscreen(e),
         \A g \in Frames : ToldSoon(g) => ToldSoon(g)',
         \A q \in Requests : run'[q].frame = run[q].frame
  PROVE  ShellFollows' /\ UNCHANGED <<shellVars, toOverlay, missed>>
<1> USE DEF ShellInv, ExpandInv
<1>0. UNCHANGED <<active, shellVars, toOverlay, missed>>
  BY DEF BecomeFullscreen
<1>1. \/ UNCHANGED <<overlayStage, toShell>>
      \/ /\ active \in Frames
         /\ \E s \in Stage3 : overlayStage' = s /\ toShell' = Tell(active, Result(s))
  BY DEF BecomeFullscreen, ExpandTypeOK, Stage3, Expand
<1>2. ASSUME NEW g \in Frames \ missed, toShell'[g] = toShell[g], StageOf(g)' = StageOf(g)
      PROVE  Follows(g)'
  <2>1. Waits(g) => Waits(g)'
    BY <1>0 DEF Waits, shellVars
  <2>2. Follows(g) /\ shell'[g] = shell[g] /\ toOverlay'[g] = toOverlay[g]
    BY <1>0 DEF ShellFollows, shellVars
  <2> QED BY <1>2, <2>1, <2>2, Unaffected
<1>3. CASE UNCHANGED <<overlayStage, toShell>>
  BY <1>0, <1>2, <1>3 DEF ShellFollows, StageOf
<1>4. ASSUME NEW a \in Frames, a = active, NEW s \in Stage3, overlayStage' = s,
             toShell' = Tell(a, Result(s))
      PROVE  ShellFollows'
  <2>1. Result(s) \in Messages /\ Result(s).stage = s
    BY DEF Result, Messages
  <2>2. Follows(a)'
    BY <1>0, <1>4, <2>1, JustTold DEF StageOf
  <2>3. ASSUME NEW g \in Frames \ missed, g # a PROVE Follows(g)'
    <3>1. toShell'[g] = toShell[g]
      BY <1>4, <2>1, <2>3, TellFacts
    <3>2. StageOf(g)' = StageOf(g)
      BY <1>0, <1>4, <2>3 DEF StageOf
    <3> QED BY <1>2, <3>1, <3>2
  <2> QED BY <1>0, <2>2, <2>3 DEF ShellFollows
<1> QED BY <1>0, <1>1, <1>3, <1>4

LEMMA FullscreenSpeaks ==
  ASSUME ExpandInv, NEW e, BecomeFullscreen(e), NEW r
  PROVE  Speaks(r)
BY DEF ExpandInv, ExpandTypeOK, BecomeFullscreen, Speaks, Stage3, Expand

LEMMA BrowserFollows ==
  ASSUME ShellInv, NEW r \in Handled, Entered(r) \/ Exited(r)
  PROVE  MessagesInv' /\ ShellFollows'
<1> USE DEF ShellInv, ExpandInv, MessagesInv
<1>1. PICK e \in Frames \cup {Panel, Nothing} : BecomeFullscreen(e)
  BY DEF Entered, Exited, Target, RunsPlaced, Awaiting
<1>2. PICK step \in Awaiting :
        /\ run' = [run EXCEPT ![r].step = step]
        /\ run[r].step \in Awaiting
        /\ step \in {"exiting", "exited"} <=> run[r].step \in {"exiting", "exited"}
  BY DEF Entered, Exited, Awaiting
<1>3. /\ run'[r].step = step /\ run'[r].frame = run[r].frame
      /\ \A q \in Handled : q # r => run'[q] = run[q]
  BY <1>2 DEF ExpandTypeOK, Runs
<1>4. Proceeds(r)
  <2> DEFINE x == [run[r] EXCEPT !.step = step]
  <2>1. x \in Runs /\ x.step = step /\ x.frame = run[r].frame /\ run' = [run EXCEPT ![r] = x]
    BY <1>2 DEF ExpandTypeOK, Runs, RunSteps
  <2> QED BY <1>2, <2>1 DEF Proceeds
<1>5. ASSUME NEW g \in Frames PROVE ToldSoon(g) => ToldSoon(g)'
  BY <1>1, <1>2, <1>3 DEF ToldSoon, BecomeFullscreen
<1>6. \A q \in Requests : run'[q].frame = run[q].frame
  BY <1>4, ProceedsAlone
<1>7. ShellFollows' /\ UNCHANGED <<shellVars, toOverlay, missed>>
  BY <1>1, <1>5, <1>6, FullscreenFollows
<1>8. Speaks(r)
  BY <1>1, FullscreenSpeaks
<1>9. r \in Requests => run[r].step # "sent"
  BY <1>2 DEF Awaiting
<1>10. MessagesInv'
  BY <1>4, <1>7, <1>8, <1>9, AskedMove, AnsweredMove DEF shellVars
<1> QED BY <1>7, <1>10

\* Results that no run sends leave the requests alone.
LEMMA UserExitsFollows ==
  ASSUME ShellInv, UserExits
  PROVE  MessagesInv' /\ ShellFollows'
<1> USE DEF ShellInv, ExpandInv, MessagesInv
<1>1. BecomeFullscreen(Nothing) /\ UNCHANGED run
  BY DEF UserExits
<1>2. \A g \in Frames : ToldSoon(g) => ToldSoon(g)'
  BY <1>1 DEF ToldSoon, BecomeFullscreen
<1>3. ShellFollows' /\ UNCHANGED <<shellVars, toOverlay, missed>>
  BY <1>1, <1>2, FullscreenFollows
<1>4. AskedOnce' /\ StillHeard'
  BY <1>1, <1>3 DEF AskedOnce, StillHeard, shellVars
<1>5. AnsweredOnce'
  <2>1. \/ UNCHANGED toShell
        \/ active \in Frames /\ \E s \in Stage3 : toShell' = Tell(active, Result(s))
    BY <1>1 DEF BecomeFullscreen, ExpandTypeOK, Stage3, Expand
  <2>2. CASE UNCHANGED toShell
    BY <1>1, <1>3, <2>2 DEF AnsweredOnce, shellVars
  <2>3. ASSUME NEW a \in Frames, NEW s \in Stage3, toShell' = Tell(a, Result(s))
        PROVE  AnsweredOnce'
    <3>1. Result(s) \in Messages /\ Result(s).request \notin Requests
      BY FramesAssumption DEF Result, Messages
    <3> QED BY <1>1, <1>3, <2>3, <3>1, AnsweredTold DEF shellVars
  <2> QED BY <2>1, <2>2, <2>3
<1> QED BY <1>3, <1>4, <1>5

LEMMA ResumeFollows ==
  ASSUME ShellInv, NEW r \in Handled, Resume(r)
  PROVE  MessagesInv' /\ ShellFollows'
<1> USE DEF ShellInv, ExpandInv, MessagesInv
<1> SUFFICES ASSUME NEW a \in Frames \cup {Nothing}, a = active,
                    NEW f \in Frames, f = run[r].frame,
                    NEW s \in Stage3, s = overlayStage
             PROVE  MessagesInv' /\ ShellFollows'
  BY DEF Resume, RunsPlaced, Awaiting, ExpandTypeOK
<1>0. /\ run[r].step \in Awaiting \ {"exiting", "exited"}
      /\ Finish(r, a, s) /\ active' = a /\ overlayStage' = s
      /\ UNCHANGED <<active, overlayStage, shellVars, toOverlay>>
      /\ missed \subseteq missed'
      /\ r \in Requests /\ a \notin {f, Nothing} => f \in missed'
      /\ r \in Requests => r \notin Clicks
  BY FramesAssumption DEF Resume, StageTold, Awaiting, ExpandTypeOK
<1>1. /\ Proceeds(r) /\ Speaks(r)
      /\ \A q \in Handled : q # r => run'[q] = run[q]
      /\ \A q \in Requests : run'[q].frame = run[q].frame
  BY <1>0, FinishProceeds, ProceedsAlone
<1>2. MessagesInv'
  <2>1. r \in Requests => run[r].step # "sent"
    BY <1>0 DEF Awaiting
  <2> QED BY <1>0, <1>1, <2>1, AskedMove, AnsweredMove DEF shellVars
<1>3. ASSUME NEW g \in Frames \ missed', toShell'[g] = toShell[g], ToldSoon(g) => ToldSoon(g)'
      PROVE  Follows(g)'
  <2>1. Waits(g) => Waits(g)'
    BY <1>0, <1>1 DEF Waits, shellVars
  <2>2. /\ Follows(g) /\ shell'[g] = shell[g] /\ toOverlay'[g] = toOverlay[g]
        /\ StageOf(g)' = StageOf(g)
    BY <1>0 DEF ShellFollows, StageOf, shellVars
  <2> QED BY <1>3, <2>1, <2>2, Unaffected
<1>4. CASE r \in Requests
  <2> DEFINE m == [request |-> r, stage |-> s]
  <2>1. m \in Messages /\ toShell' = Tell(f, m) /\ m.stage = s
    BY <1>0, <1>4 DEF Finish, Messages
  <2>2. ASSUME f \notin missed' PROVE Follows(f)'
    <3>1. s = StageOf(f)'
      BY <1>0, <1>4, <2>2 DEF FramesInPlace, StageOf
    <3> QED BY <2>1, <3>1, JustTold
  <2>3. ASSUME NEW g \in Frames \ missed', g # f PROVE Follows(g)'
    <3>1. toShell'[g] = toShell[g]
      BY <2>1, <2>3, TellFacts
    <3>2. ToldSoon(g) => ToldSoon(g)'
      BY <1>0, <1>1, <1>4, <2>3 DEF ToldSoon
    <3> QED BY <1>3, <2>3, <3>1, <3>2
  <2> QED BY <1>2, <2>2, <2>3 DEF ShellFollows
<1>5. CASE r \notin Requests /\ a = Nothing
  <2>1. toShell' = toShell
    BY <1>0, <1>5 DEF Finish
  <2>2. ASSUME NEW g \in Frames PROVE ToldSoon(g) => ToldSoon(g)'
    BY <1>0, <1>1, <1>5, FramesAssumption DEF ToldSoon
  <2> QED BY <1>2, <1>3, <2>1, <2>2 DEF ShellFollows
<1>6. CASE r \notin Requests /\ a # Nothing
  <2> DEFINE m == Result(s)
  <2>1. m \in Messages /\ a \in Frames /\ toShell' = Tell(a, m) /\ m.stage = s
    BY <1>0, <1>6 DEF Finish, Messages, Result
  <2>2. Follows(a)'
    BY <1>0, <2>1, JustTold DEF StageOf
  <2>3. ASSUME NEW g \in Frames \ missed', g # a PROVE Follows(g)'
    <3>1. toShell'[g] = toShell[g]
      BY <2>1, <2>3, TellFacts
    <3>2. ToldSoon(g) => ToldSoon(g)'
      BY <1>0, <1>1, <1>6, <2>3 DEF ToldSoon
    <3> QED BY <1>3, <2>3, <3>1, <3>2
  <2> QED BY <1>2, <2>2, <2>3 DEF ShellFollows
<1> QED BY <1>4, <1>5, <1>6

LEMMA ResumeInlineFollows ==
  ASSUME ShellInv, NEW r \in Handled, ResumeInline(r)
  PROVE  MessagesInv' /\ ShellFollows'
<1> USE DEF ShellInv, ExpandInv, MessagesInv
<1> SUFFICES ASSUME NEW f \in Frames, f = run[r].frame
             PROVE  MessagesInv' /\ ShellFollows'
  BY DEF ResumeInline, RunsPlaced, Awaiting
<1>0. /\ run[r].step = "exited" /\ run[r].step \in Awaiting
      /\ "inline" \in Stage3 /\ Finish(r, f, "inline")
      /\ active' = Nothing /\ UNCHANGED <<shellVars, toOverlay>>
      /\ missed \subseteq missed'
      /\ active # f => active \in missed' \cup {Nothing}
      /\ r \in Requests => r \notin Clicks
  BY FramesAssumption DEF ResumeInline, Restore, Awaiting, Stage3
<1>1. /\ Proceeds(r) /\ Speaks(r)
      /\ \A q \in Handled : q # r => run'[q] = run[q]
      /\ \A q \in Requests : run'[q].frame = run[q].frame
  BY <1>0, FinishProceeds, ProceedsAlone
<1>2. MessagesInv'
  <2>1. r \in Requests => run[r].step # "sent"
    BY <1>0
  <2> QED BY <1>0, <1>1, <2>1, AskedMove, AnsweredMove DEF shellVars
<1>3. PICK m \in Messages : m.stage = "inline" /\ toShell' = Tell(f, m)
  BY <1>0, FinishTells
<1>4. Follows(f)'
  BY <1>0, <1>3, JustTold, FramesAssumption DEF StageOf
<1>5. ASSUME NEW g \in Frames \ missed', g # f PROVE Follows(g)'
  <2>1. toShell'[g] = toShell[g]
    BY <1>3, <1>5, TellFacts
  <2>2. active # g /\ StageOf(g)' = StageOf(g)
    BY <1>0, <1>5, FramesAssumption DEF StageOf
  <2>3. ToldSoon(g) => ToldSoon(g)'
    BY <1>0, <1>1, <1>5, <2>2 DEF ToldSoon
  <2>4. Waits(g) => Waits(g)'
    BY <1>0, <1>1 DEF Waits, shellVars
  <2>5. Follows(g) /\ shell'[g] = shell[g] /\ toOverlay'[g] = toOverlay[g]
    BY <1>0, <1>5 DEF ShellFollows, shellVars
  <2> QED BY <1>5, <2>1, <2>2, <2>3, <2>4, <2>5, Unaffected
<1> QED BY <1>2, <1>4, <1>5 DEF ShellFollows

\* Nothing more is claimed of the shells once the overlay is gone.
LEMMA DestroyFollows ==
  ASSUME ShellInv, DestroyOverlay
  PROVE  MessagesInv' /\ ShellFollows'
<1>1. UNCHANGED <<run, toOverlay, toShell, pending>> /\ missed' = Frames
  BY DEF DestroyOverlay, shellVars, channels
<1>2. missed \subseteq missed'
  BY <1>1 DEF ShellInv, ExpandInv, ExpandTypeOK
<1>3. AskedOnce' /\ StillHeard'
  BY <1>1, <1>2 DEF ShellInv, MessagesInv, AskedOnce, StillHeard
<1>4. AnsweredOnce'
  BY <1>1, <1>2 DEF ShellInv, MessagesInv, AnsweredOnce
<1> QED BY <1>1, <1>3, <1>4 DEF MessagesInv, ShellFollows

LEMMA RequestFollows ==
  ASSUME ShellInv, NEW f \in Frames, NEW r \in Requests, NEW w \in Stage3, Request(r, f, w)
  PROVE  ShellFollows'
<1> USE DEF ShellInv, ExpandInv
<1>0. /\ r \in Handled /\ run[r].step = "idle" /\ pending[r] = "none"
      /\ \A q \in Handled : q # r => run'[q] = run[q]
      /\ \A q \in Requests : q # r => pending'[q] = pending[q]
      /\ UNCHANGED <<active, overlayStage, toShell, missed>>
      /\ \A g \in Frames : g # f => shell'[g] = shell[g] /\ toOverlay'[g] = toOverlay[g]
  BY DEF Request, page, ExpandTypeOK, Handled, PendingAsked
<1>1. Follows(f)'
  <2>1. toOverlay[f] \in Seq(Requests) /\ toOverlay'[f] = Append(toOverlay[f], r)
    BY DEF Request, ExpandTypeOK
  <2>2. toOverlay'[f] # <<>>
    BY <2>1, AppendFacts
  <2> QED BY <2>2 DEF Follows
<1>2. ASSUME NEW g \in Frames \ missed, g # f PROVE Follows(g)'
  <2>1. ToldSoon(g) => ToldSoon(g)'
    BY <1>0 DEF ToldSoon, Awaiting
  <2>2. Waits(g) => Waits(g)'
    BY <1>0 DEF Waits, Handled
  <2>3. Follows(g) /\ StageOf(g)' = StageOf(g)
    BY <1>0, <1>2 DEF ShellFollows, StageOf
  <2> QED BY <1>0, <1>2, <2>1, <2>2, <2>3, Unaffected
<1> QED BY <1>0, <1>1, <1>2 DEF ShellFollows

\* The shell displays what the last message says.
LEMMA ReceiveFollows ==
  ASSUME ShellInv, NEW f \in Frames, Receive(f)
  PROVE  ShellFollows'
<1> USE DEF ShellInv, ExpandInv, MessagesInv
<1> DEFINE r == Head(toShell[f]).request
<1>0. /\ UNCHANGED <<active, overlayStage, run, toOverlay, missed>>
      /\ pending' = [q \in Requests |-> IF q = r THEN "none" ELSE pending[q]]
      /\ toShell[f] # <<>>
      /\ r \in Requests => run[r].step = "done" /\ run[r].frame = f
      /\ r \in Requests => pending[r] # "none" \/ f \in missed
  <2>1. r = toShell[f][1].request /\ 1 \in 1 .. Len(toShell[f])
    BY ReceiveFacts
  <2> QED BY <2>1 DEF Receive, page, AnsweredOnce
<1>1. \A g \in Frames : ToldSoon(g)' = ToldSoon(g) /\ StageOf(g)' = StageOf(g)
  BY <1>0 DEF ToldSoon, StageOf
<1>2. ASSUME f \notin missed PROVE Follows(f)'
  <2>1. CASE toOverlay[f] # <<>> \/ ToldSoon(f)
    BY <1>0, <1>1, <2>1 DEF Follows
  <2>2. CASE Told(f)
    <3>1. CASE toShell'[f] # <<>>
      BY <1>1, <2>2, <3>1, ReceiveFacts DEF Follows, Told
    <3>2. CASE toShell'[f] = <<>>
      <4>1. Head(toShell[f]).stage = StageOf(f)
        BY <2>2, <3>2, ReceiveFacts DEF Told
      <4>2. shell' = [shell EXCEPT ![f] = Head(toShell[f]).stage]
        BY <1>0, <1>2 DEF Receive, Heard
      <4>3. shell'[f] = StageOf(f)'
        BY <1>1, <4>1, <4>2 DEF ExpandTypeOK
      <4> QED BY <3>2, <4>3 DEF Follows, Shown
    <3> QED BY <3>1, <3>2
  <2> QED BY <1>0, <1>2, <2>1, <2>2 DEF ShellFollows, Follows, Shown
<1>3. ASSUME NEW g \in Frames \ missed, g # f PROVE Follows(g)'
  <2>1. toShell'[g] = toShell[g]
    BY <1>3, ReceiveFacts
  <2>2. shell'[g] = shell[g]
    BY <1>3 DEF Receive, ExpandTypeOK
  <2>3. Waits(g) => Waits(g)'
    BY <1>0, <1>3 DEF Waits
  <2>4. Follows(g)
    BY <1>3 DEF ShellFollows
  <2> QED BY <1>0, <1>1, <1>3, <2>1, <2>2, <2>3, <2>4, Unaffected
<1> QED BY <1>0, <1>2, <1>3 DEF ShellFollows

LEMMA TimerFollows ==
  ASSUME ShellInv, NEW r \in Requests, TimeOut(r) \/ Forget(r)
  PROVE  ShellFollows'
<1> USE DEF ShellInv, ExpandInv
<1> SUFFICES ASSUME NEW f, f = run[r].frame PROVE ShellFollows'
  OBVIOUS
<1>0. /\ UNCHANGED <<active, overlayStage, run, toOverlay, toShell>>
      /\ missed \subseteq missed'
      /\ \A q \in Requests : q # r => pending'[q] = pending[q]
      /\ f \in missed' \/ pending'[r] # "none"
      /\ \A g \in Frames : g # f => shell'[g] = shell[g]
  BY DEF TimeOut, Forget, page, channels, ExpandTypeOK
<1>1. ASSUME NEW g \in Frames \ missed' PROVE Follows(g)'
  <2>1. Follows(g) /\ ToldSoon(g)' = ToldSoon(g) /\ StageOf(g)' = StageOf(g)
    BY <1>0, <1>1 DEF ShellFollows, ToldSoon, StageOf
  <2>2. Waits(g) => Waits(g)'
    BY <1>0, <1>1 DEF Waits
  <2>3. CASE g = f
    <3>1. Waits(g)'
      BY <1>0, <1>1, <2>3 DEF Waits
    <3> QED BY <1>0, <2>1, <3>1 DEF Follows, Told, Shown
  <2>4. CASE g # f
    BY <1>0, <1>1, <2>1, <2>2, <2>4, Unaffected
  <2> QED BY <2>3, <2>4
<1> QED BY <1>1 DEF ShellFollows

-----------------------------------------------------------------------------
LEMMA ShellInit == ExpandInit => ShellInv
<1> SUFFICES ASSUME ExpandInit PROVE MessagesInv /\ ShellFollows
  BY ExpandInitInv DEF ShellInv
<1>1. \A f \in Frames : /\ Len(toOverlay[f]) = 0 /\ Len(toShell[f]) = 0
                        /\ toShell[f] = <<>> /\ shell[f] = StageOf(f)
  BY FramesAssumption DEF ExpandInit, StageOf
<1>2. AskedOnce /\ AnsweredOnce
  BY <1>1 DEF AskedOnce, AnsweredOnce
<1>3. StillHeard
  BY DEF ExpandInit, StillHeard, Awaiting, Handled
<1>4. ShellFollows
  BY <1>1 DEF ShellFollows, Follows, Shown
<1> QED BY <1>2, <1>3, <1>4 DEF MessagesInv

LEMMA ShellNext == ShellInv /\ [ExpandNext]_expandVars => ShellInv'
<1> SUFFICES ASSUME ShellInv, [ExpandNext]_expandVars PROVE MessagesInv' /\ ShellFollows'
  BY ExpandNextInv DEF ShellInv
<1>0. ExpandInv /\ MessagesInv
  BY DEF ShellInv
<1>1. CASE \E f \in Frames : Handle(f) \/ Receive(f) \/ \E r \in Requests, w \in Stage3 : Request(r, f, w)
  BY <1>0, <1>1, HandleFollows, ReceiveAnswered, ReceiveFollows, RequestAsked, RequestFollows
<1>2. CASE \E c \in Clicks : Toggle(c) \/ Close(c)
  BY <1>2, ClickFollows
<1>3. CASE \E r \in Handled : Entered(r) \/ Exited(r) \/ Resume(r) \/ ResumeInline(r)
  BY <1>3, BrowserFollows, ResumeFollows, ResumeInlineFollows
<1>4. CASE \E r \in Requests : TimeOut(r) \/ Forget(r)
  BY <1>0, <1>4, TimerMessages, TimerFollows
<1>5. CASE UserExits \/ DestroyOverlay
  BY <1>5, UserExitsFollows, DestroyFollows
<1>6. CASE UNCHANGED expandVars
  BY <1>6 DEF ShellInv, MessagesInv, AskedOnce, AnsweredOnce, StillHeard, ShellFollows, Follows,
              ToldSoon, Told, Shown, Waits, StageOf, expandVars, page, shellVars, channels
<1> QED BY <1>1, <1>2, <1>3, <1>4, <1>5, <1>6 DEF ExpandNext

\* ShellAgrees: once all is quiet a shell displays the stage its frame has, for any
\* frames, requests and clicks and however late the answers are, unless the frame is
\* one of those the overlay tells nothing (hostExpandOverlay.ts, WidgetView).
THEOREM ShellKeepsUp == ExpandSpec => []ShellAgrees
<1>1. ShellInv => ShellAgrees
  <2> SUFFICES ASSUME ShellInv, NEW f \in Frames \ missed, Quiet(f)
               PROVE  shell[f] = IF active = f THEN overlayStage ELSE "inline"
    BY DEF ShellAgrees
  <2>1. Follows(f) /\ ~Told(f) /\ toOverlay[f] = <<>>
    BY DEF ShellInv, ShellFollows, Quiet, Told
  <2>2. ~ToldSoon(f) /\ ~Waits(f)
    BY DEF Quiet, ToldSoon, Waits, Awaiting
  <2> QED BY <2>1, <2>2 DEF Follows, Shown, StageOf
<1> QED BY ShellInit, ShellNext, <1>1, PTL DEF ExpandSpec

(***************************************************************************)
(* PlansOverlay                                                            *)
(***************************************************************************)

\* One page has one return: what a host asked to finalize is marked as handled by it, and
\* the URL carries that return or none.
HandledOnce ==
  \A h \in Hosts : \A i \in Intents :
    /\ posts[h][i] <= 1
    /\ posts[h][i] = 1 => /\ handled[h] = [intent |-> i, status |-> "paid"]
                          /\ url \in {NoReturn, handled[h]}

\* A task that pays or finalizes has an intent, and one that waits for the answer to a
\* finalize request has sent it for its host in this page.
WithIntent == {"paying", "settling", "finalizing"}
IntentKnown ==
  \A t \in Tasks :
    /\ task[t].stage \in WithIntent => intent[t] \in Intents
    /\ task[t].stage = "finalizing" => posts[task[t].host][intent[t]] = 1

PlansInv == PlansTypeOK /\ HandledOnce /\ IntentKnown

\* A step leaves t, and every task that had none, without an intent.
Others(t) == \A u \in Tasks :
  task'[u].stage \in WithIntent => u # t /\ task'[u] = task[u]

TaskRecords ==
  [stage : Stage, host : Hosts, overlay : Overlays \cup {NoOverlay}, next : Steps]

LEMMA FirstHost == 1 \in Hosts
  BY OverlaysAssumption DEF Hosts

-----------------------------------------------------------------------------
\* The helpers.

LEMMA RenderType ==
  ASSUME PlansTypeOK, NEW t \in Tasks, NEW h \in Hosts,
         NEW o \in Overlays \cup {NoOverlay}, NEW next \in Steps, Render(t, h, o, next)
  PROVE  /\ task' \in [Tasks -> TaskRecords]
         /\ surface' \in [Overlays -> Views \cup {"loading", "error"}]
         /\ Others(t)
  BY DEF PlansTypeOK, Render, TaskRecords, Stage, Rendering, Others, WithIntent

LEMMA ProceedType ==
  ASSUME PlansTypeOK, NEW t \in Tasks, Proceed(t)
  PROVE  /\ task' \in [Tasks -> TaskRecords]
         /\ Others(t)
<1> DEFINE next == task[t].next
<1>1. task[t] \in TaskRecords /\ next \in Steps
  BY DEF PlansTypeOK, TaskRecords
<1>2. Idle \in TaskRecords
  BY FirstHost DEF Idle, TaskRecords, Stage, Steps
<1>3. [task[t] EXCEPT !.stage = next, !.next = "none"] \in TaskRecords \/ next = "none"
  BY <1>1 DEF TaskRecords, Stage, Steps
<1>4. next # "none" => [task[t] EXCEPT !.stage = next, !.next = "none"].stage \notin WithIntent
  BY <1>1 DEF TaskRecords, Steps, WithIntent
<1>5. Idle.stage \notin WithIntent
  BY DEF Idle, WithIntent
<1>6. task \in [Tasks -> TaskRecords]
  BY DEF PlansTypeOK, TaskRecords
<1> QED BY <1>1, <1>2, <1>3, <1>4, <1>5, <1>6 DEF Proceed, Others

LEMMA StagedType ==
  ASSUME PlansTypeOK, NEW t \in Tasks, NEW stage \in {"finalizing", "paying", "settling"},
         task' = [task EXCEPT ![t].stage = stage]
  PROVE  task' \in [Tasks -> TaskRecords]
<1>1. task \in [Tasks -> TaskRecords] /\ stage \in Stage
  BY DEF PlansTypeOK, TaskRecords, Stage, Rendering
<1>2. [task[t] EXCEPT !.stage = stage] \in TaskRecords
  BY <1>1 DEF TaskRecords
<1> QED BY <1>1, <1>2

\* What a step does to the tasks, when it sends no finalize request: no other task
\* waits for an answer than before.
LEMMA StillSent ==
  ASSUME PlansInv, NEW t \in Tasks, UNCHANGED posts, Others(t),
         \A u \in Tasks \ {t} : intent'[u] = intent[u]
  PROVE  IntentKnown'
  BY DEF PlansInv, IntentKnown, Others, WithIntent

\* What was handled stays so when the URL keeps its return or loses it.
LEMMA StillHandled ==
  ASSUME PlansInv, UNCHANGED <<handled, posts>>, url' \in {url, NoReturn}
  PROVE  HandledOnce'
  BY DEF PlansInv, HandledOnce

-----------------------------------------------------------------------------
\* The pages.

LEMMA NewPageKeeps ==
  ASSUME PlansInv, NewPage, UNCHANGED server, url' \in Returns \cup {NoReturn}
  PROVE  PlansInv'
<1>1. task' \in [Tasks -> TaskRecords] /\ \A t \in Tasks : task'[t].stage \notin WithIntent
  BY FirstHost DEF NewPage, Idle, TaskRecords, Stage, Steps, WithIntent
<1>2. PlansTypeOK'
  BY <1>1, FirstHost DEF PlansInv, PlansTypeOK, NewPage, server, Views, TaskRecords
<1>3. HandledOnce' /\ IntentKnown'
  BY <1>1 DEF NewPage, HandledOnce, IntentKnown, WithIntent
<1> QED BY <1>2, <1>3 DEF PlansInv

LEMMA LeavesKeep ==
  ASSUME PlansInv, Reload \/ \E t \in Tasks, status \in {"paid", "cancelled", "failed"} : Checkout(t, status)
  PROVE  PlansInv'
<1>1. CASE Reload
  BY <1>1, NewPageKeeps DEF Reload, PlansInv, PlansTypeOK
<1>2. ASSUME NEW t \in Tasks, NEW status \in {"paid", "cancelled", "failed"}, Checkout(t, status)
      PROVE PlansInv'
  <2>1. intent[t] \in Intents /\ url' = [intent |-> intent[t], status |-> status]
    BY <1>2 DEF Checkout, PlansInv, IntentKnown, WithIntent
  <2>2. url' \in Returns
    BY <2>1 DEF Returns
  <2> QED BY <1>2, <2>2, NewPageKeeps DEF Checkout
<1> QED BY <1>1, <1>2

-----------------------------------------------------------------------------
\* The hosts and their overlays.

\* Steps that render and leave the return alone.
LEMMA OpenKeeps ==
  ASSUME PlansInv, NEW t \in Tasks, NEW h \in Hosts, NEW o \in Overlays, NEW v \in Views,
         Open(t, h, o, v), mounting' \subseteq mounting,
         UNCHANGED <<url, mounts, handled, intent, server, posts>>
  PROVE  PlansInv'
<1> USE DEF PlansInv, Open
<1>1. "none" \in Steps
  BY DEF Steps
<1>2. PlansTypeOK'
  BY <1>1, RenderType DEF PlansTypeOK, TaskRecords, server
<1>3. HandledOnce' /\ IntentKnown'
  BY <1>1, RenderType, StillHandled, StillSent
<1> QED BY <1>2, <1>3

LEMMA OpensKeep ==
  ASSUME PlansInv, NEW t \in Tasks, NEW o \in Overlays,
         \/ \E v \in Views : OpenPlans(t, o, v)
         \/ \E h \in Hosts : CatalogMounted(h, t, o)
  PROVE  PlansInv'
<1>1. ASSUME NEW v \in Views, OpenPlans(t, o, v)
      PROVE PlansInv'
  <2>1. mounts \in Hosts
    BY DEF PlansInv, PlansTypeOK
  <2> QED BY <1>1, <2>1, OpenKeeps DEF OpenPlans, runtime
<1>2. ASSUME NEW h \in Hosts, CatalogMounted(h, t, o)
      PROVE PlansInv'
  <2>1. "plans" \in Views /\ mounting' \subseteq mounting
    BY <1>2 DEF CatalogMounted, Views
  <2> QED BY <1>2, <2>1, OpenKeeps DEF CatalogMounted
<1> QED BY <1>1, <1>2

\* Making and ending mounts and closing overlays leaves the tasks as they are.
LEMMA MountsKeep ==
  ASSUME PlansInv, \/ MountAgain \/ Remount
                   \/ \E h \in Hosts : MountEnds(h)
                   \/ \E closed \in SUBSET Hosts : ClosePlans(closed)
  PROVE  PlansInv'
<1> USE DEF PlansInv
<1>1. /\ UNCHANGED <<url, handled, view, surface, task, intent, server, posts>>
      /\ mounts' \in Hosts /\ mounting' \subseteq Hosts
      /\ overlay' \in [Hosts -> Overlays \cup {NoOverlay}]
  <2>0. mounts \in Hosts /\ mounting \subseteq Hosts
    BY DEF PlansTypeOK
  <2>1. CASE MountAgain
    BY <2>0, <2>1 DEF MountAgain, PlansTypeOK
  <2>2. CASE Remount
    <3>1. mounts' \in Hosts
      BY <2>0, <2>2, OverlaysAssumption DEF Remount, Hosts
    <3>2. mounting' \subseteq Hosts
      BY <2>0, <2>2, <3>1 DEF Remount
    <3> QED BY <2>0, <2>2, <3>1, <3>2 DEF Remount, PlansTypeOK
  <2>3. CASE \E h \in Hosts : MountEnds(h)
    BY <2>3 DEF MountEnds, PlansTypeOK
  <2>4. CASE \E closed \in SUBSET Hosts : ClosePlans(closed)
    BY <2>4 DEF ClosePlans, PlansTypeOK, runtime
  <2> QED BY <2>1, <2>2, <2>3, <2>4
<1>2. PlansTypeOK'
  BY <1>1 DEF PlansTypeOK, server
<1>3. HandledOnce' /\ IntentKnown'
  BY <1>1 DEF HandledOnce, IntentKnown
<1> QED BY <1>2, <1>3

LEMMA SelectKeeps ==
  ASSUME PlansInv, NEW t \in Tasks, NEW h \in Hosts,
         SelectTab(t, h) \/ \E next \in Steps : Act(t, h, next)
  PROVE  PlansInv'
<1> USE DEF PlansInv
<1>0. /\ \E next \in Steps : Render(t, h, overlay[h], next)
      /\ view' \in [Overlays -> Views]
      /\ UNCHANGED <<url, runtime, handled, overlay, intent, server, posts>>
  BY DEF SelectTab, Act, PlansTypeOK, Views, Steps
<1>1. overlay[h] \in Overlays \cup {NoOverlay}
  BY DEF PlansTypeOK
<1>2. PlansTypeOK'
  BY <1>0, <1>1, RenderType DEF PlansTypeOK, TaskRecords, server, runtime
<1>3. HandledOnce' /\ IntentKnown'
  BY <1>0, <1>1, RenderType, StillHandled, StillSent
<1> QED BY <1>2, <1>3

-----------------------------------------------------------------------------
\* The return.

LEMMA FinalizeReturnKeeps ==
  ASSUME PlansInv, NEW t \in Tasks, FinalizeReturn(t)
  PROVE  PlansInv'
<1> USE DEF PlansInv
<1>1. PICK h \in Hosts : h = task[t].host
  BY DEF PlansTypeOK
<1>2. /\ url \notin {NoReturn, handled[h]} /\ url.status = "paid"
      /\ handled' = [handled EXCEPT ![h] = url]
      /\ posts' = [posts EXCEPT ![h][url.intent] = @ + 1]
      /\ intent' = [intent EXCEPT ![t] = url.intent]
      /\ task' = [task EXCEPT ![t].stage = "finalizing"]
      /\ UNCHANGED <<url, mounts, mounting, overlay, view, surface, prepared, finalized>>
  BY <1>1 DEF FinalizeReturn, Unhandled, Marked, runtime, server
<1>3. PICK i \in Intents : i = url.intent /\ url = [intent |-> i, status |-> "paid"]
  BY <1>2 DEF PlansTypeOK, Returns
<1>4. \A k \in Intents : posts[h][k] = 0
  <2>1. \A k \in Intents : posts[h][k] \in Nat /\ posts[h][k] <= 1 /\ posts[h][k] # 1
    BY <1>2 DEF PlansTypeOK, HandledOnce
  <2> QED BY <2>1
<1>5. posts' = [posts EXCEPT ![h] = [posts[h] EXCEPT ![i] = 1]]
  <2>1. posts[h][i] + 1 = 1
    BY <1>4
  <2> QED BY <1>2, <1>3, <2>1
<1>6. PlansTypeOK'
  <2>1. posts' \in [Hosts -> [Intents -> Nat]]
    BY <1>5 DEF PlansTypeOK
  <2>2. handled' \in [Hosts -> Returns \cup {NoReturn}]
    BY <1>2 DEF PlansTypeOK
  <2>3. task' \in [Tasks -> TaskRecords]
    BY <1>2, StagedType
  <2> QED BY <1>2, <1>3, <2>1, <2>2, <2>3 DEF PlansTypeOK, TaskRecords
<1>7. HandledOnce'
  BY <1>2, <1>3, <1>4, <1>5 DEF PlansTypeOK, HandledOnce
<1>8. IntentKnown'
  BY <1>1, <1>2, <1>3, <1>4, <1>5 DEF PlansTypeOK, IntentKnown, WithIntent
<1> QED BY <1>6, <1>7, <1>8

LEMMA LoadedKeeps ==
  ASSUME PlansInv, NEW t \in Tasks, Loaded(t) \/ LoadFailed(t)
  PROVE  PlansInv'
<1> USE DEF PlansInv
<1>0. /\ Proceed(t) /\ task[t].stage = "loading"
      /\ url' \in Returns \cup {NoReturn}
      /\ handled' \in [Hosts -> Returns \cup {NoReturn}]
      /\ surface' \in [Overlays -> Views \cup {"loading", "error"}]
      /\ UNCHANGED <<runtime, overlay, view, intent, server, posts>>
  <2>1. task[t].host \in Hosts /\ url \in Returns \cup {NoReturn}
    BY DEF PlansTypeOK
  <2>2. /\ url' \in Returns \cup {NoReturn}
        /\ handled' \in [Hosts -> Returns \cup {NoReturn}]
    BY <2>1 DEF Loaded, LoadFailed, PlansTypeOK
  <2> QED BY <2>2 DEF Loaded, LoadFailed, PlansTypeOK, Tab
<1>1. PlansTypeOK'
  BY <1>0, ProceedType DEF PlansTypeOK, TaskRecords, server, runtime
<1>2. HandledOnce'
  <2>1. CASE UNCHANGED <<url, handled>>
    BY <1>0, <2>1, StillHandled
  <2>2. ASSUME Loaded(t), Unhandled(task[t].host), url.status # "paid"
        PROVE HandledOnce'
    <3> DEFINE h == task[t].host
    <3>1. handled' = [handled EXCEPT ![h] = url] /\ url' = NoReturn /\ UNCHANGED posts
      BY <2>2 DEF Loaded
    <3>2. h \in Hosts /\ \A i \in Intents : posts[h][i] # 1
      BY <2>2 DEF PlansTypeOK, HandledOnce, Unhandled
    <3> QED BY <3>1, <3>2 DEF PlansTypeOK, HandledOnce
  <2> QED BY <2>1, <2>2 DEF Loaded, LoadFailed
<1>3. IntentKnown'
  BY <1>0, ProceedType, StillSent
<1> QED BY <1>1, <1>2, <1>3

LEMMA FinalizedKeeps ==
  ASSUME PlansInv, NEW t \in Tasks, ReturnFinalized(t) \/ FinalizeFailed(t)
  PROVE  PlansInv'
<1> USE DEF PlansInv
<1>0. /\ intent[t] \in Intents
      /\ intent' = [intent EXCEPT ![t] = NoReturn]
      /\ url' \in {url, NoReturn}
      /\ finalized' \in {finalized, finalized \cup {intent[t]}}
      /\ UNCHANGED <<runtime, handled, overlay, view, prepared, posts>>
  <2>1. intent[t] \in Intents
    BY DEF ReturnFinalized, FinalizeFailed, IntentKnown, WithIntent
  <2> QED BY <2>1 DEF ReturnFinalized, FinalizeFailed, Cleared
<1>1. /\ task' \in [Tasks -> TaskRecords] /\ Others(t)
      /\ surface' \in [Overlays -> Views \cup {"loading", "error"}]
  <2>1. task[t].host \in Hosts /\ task[t].overlay \in Overlays \cup {NoOverlay} /\ task[t].next \in Steps
    BY DEF PlansTypeOK
  <2>2. CASE ReturnFinalized(t)
    BY <2>1, <2>2, RenderType DEF ReturnFinalized, RenderAgain
  <2>3. CASE FinalizeFailed(t)
    BY <2>3, ProceedType DEF FinalizeFailed, PlansTypeOK
  <2> QED BY <2>2, <2>3
<1>2. PlansTypeOK'
  BY <1>0, <1>1 DEF PlansTypeOK, TaskRecords, runtime
<1>3. HandledOnce'
  BY <1>0, StillHandled
<1>4. \A u \in Tasks \ {t} : intent'[u] = intent[u]
  BY <1>0 DEF PlansTypeOK
<1> QED BY <1>0, <1>1, <1>2, <1>3, <1>4, StillSent

-----------------------------------------------------------------------------
\* The checkout.

LEMMA PrepareKeeps ==
  ASSUME PlansInv, NEW t \in Tasks, NEW i \in Intents, Prepare(t, i)
  PROVE  PlansInv'
<1> USE DEF PlansInv, Prepare
<1>0. task' \in [Tasks -> TaskRecords]
  BY StagedType
<1>1. PlansTypeOK'
  BY <1>0 DEF PlansTypeOK, TaskRecords, runtime
<1>2. HandledOnce'
  BY StillHandled
<1>3. IntentKnown'
  BY DEF PlansTypeOK, IntentKnown, WithIntent
<1> QED BY <1>1, <1>2, <1>3

LEMMA PaidKeeps ==
  ASSUME PlansInv, NEW t \in Tasks, PaidAlready(t)
  PROVE  PlansInv'
<1> USE DEF PlansInv, PaidAlready
<1>0. task' \in [Tasks -> TaskRecords]
  BY StagedType
<1>1. PlansTypeOK'
  BY <1>0 DEF PlansTypeOK, TaskRecords, server, runtime
<1>2. HandledOnce'
  BY StillHandled
<1>3. IntentKnown'
  BY DEF PlansTypeOK, IntentKnown, WithIntent
<1> QED BY <1>1, <1>2, <1>3

LEMMA SettleKeeps ==
  ASSUME PlansInv, NEW t \in Tasks, Settle(t) \/ Changed(t) \/ ActFailed(t)
  PROVE  PlansInv'
<1> USE DEF PlansInv
<1>0. /\ RenderAgain(t, "none")
      /\ intent' \in {intent, [intent EXCEPT ![t] = NoReturn]}
      /\ finalized' \subseteq Intents
      /\ UNCHANGED <<url, runtime, handled, overlay, view, prepared, posts>>
  <2>1. finalized \subseteq Intents
    BY DEF PlansTypeOK
  <2>2. task[t].stage = "settling" => intent[t] \in Intents
    BY DEF IntentKnown, WithIntent
  <2>3. CASE Settle(t)
    BY <2>1, <2>2, <2>3 DEF Settle
  <2>4. CASE Changed(t) \/ ActFailed(t)
    BY <2>1, <2>4 DEF Changed, ActFailed, server
  <2> QED BY <2>3, <2>4
<1>1. task[t].host \in Hosts /\ task[t].overlay \in Overlays \cup {NoOverlay} /\ "none" \in Steps
  BY DEF PlansTypeOK, Steps
<1>2. PlansTypeOK'
  BY <1>0, <1>1, RenderType DEF PlansTypeOK, TaskRecords, runtime, RenderAgain
<1>3. HandledOnce'
  BY <1>0, StillHandled
<1>4. \A u \in Tasks \ {t} : intent'[u] = intent[u]
  BY <1>0 DEF PlansTypeOK
<1> QED BY <1>0, <1>1, <1>2, <1>3, <1>4, RenderType, StillSent DEF RenderAgain

-----------------------------------------------------------------------------
LEMMA PlansInitInv == PlansInit => PlansInv
<1> SUFFICES ASSUME PlansInit PROVE PlansInv
  OBVIOUS
<1>1. \A t \in Tasks : task[t] \in TaskRecords /\ task[t].stage \notin WithIntent
  BY FirstHost DEF PlansInit, Idle, TaskRecords, Stage, Steps, WithIntent
<1>2. PlansTypeOK
  BY <1>1, FirstHost DEF PlansInit, PlansTypeOK, Views, TaskRecords
<1> QED BY <1>1, <1>2 DEF PlansInit, PlansInv, HandledOnce, IntentKnown, WithIntent

LEMMA PlansNextInv == PlansInv /\ [PlansNext]_planVars => PlansInv'
<1> SUFFICES ASSUME PlansInv, [PlansNext]_planVars PROVE PlansInv'
  OBVIOUS
<1>1. ASSUME NEW t \in Tasks, NEW o \in Overlays,
             \/ \E v \in Views : OpenPlans(t, o, v)
             \/ \E h \in Hosts : CatalogMounted(h, t, o)
      PROVE PlansInv'
  BY <1>1, OpensKeep
<1>2. CASE \/ \E h \in Hosts : MountEnds(h) \/ ClosePlans({h})
           \/ ClosePlans(Hosts) \/ MountAgain \/ Remount \/ Reload
  <2>1. Hosts \in SUBSET Hosts /\ \A h \in Hosts : {h} \in SUBSET Hosts
    OBVIOUS
  <2> QED BY <1>2, <2>1, MountsKeep, LeavesKeep
<1>3. ASSUME NEW t \in Tasks,
             \/ FinalizeReturn(t) \/ Loaded(t) \/ LoadFailed(t)
             \/ ReturnFinalized(t) \/ FinalizeFailed(t)
             \/ \E h \in Hosts : SelectTab(t, h) \/ \E next \in Steps : Act(t, h, next)
      PROVE PlansInv'
  BY <1>3, SelectKeeps, FinalizeReturnKeeps, LoadedKeeps, FinalizedKeeps
<1>4. ASSUME NEW t \in Tasks,
             \/ PaidAlready(t) \/ Settle(t) \/ Changed(t) \/ ActFailed(t)
             \/ \E i \in Intents : Prepare(t, i)
             \/ \E status \in {"paid", "cancelled", "failed"} : Checkout(t, status)
      PROVE PlansInv'
  BY <1>4, PaidKeeps, SettleKeeps, PrepareKeeps, LeavesKeep
<1>5. CASE UNCHANGED planVars
  BY <1>5 DEF PlansInv, PlansTypeOK, HandledOnce, IntentKnown, planVars, memory, runtime, server
<1> QED BY <1>1, <1>2, <1>3, <1>4, <1>5 DEF PlansNext

LEMMA PlansInvHolds == PlansSpec => []PlansInv
  BY PlansInitInv, PlansNextInv, PTL DEF PlansSpec

\* The state of the overlays and of the payments keeps its types.
THEOREM PlansTypeCorrect == PlansSpec => []PlansTypeOK
  BY PlansInvHolds, PTL DEF PlansInv

\* However many renders overlap, before and after it is destroyed, a host asks once to
\* finalize a return.
THEOREM FinalizedOnce == PlansSpec => []FinalizeOnce
<1>1. PlansInv => FinalizeOnce
  BY DEF PlansInv, HandledOnce, FinalizeOnce
<1> QED BY <1>1, PlansInvHolds, PTL

\* A step that takes a paid return from the URL.
LEMMA TakenFinalized ==
  ASSUME PlansInv, [PlansNext]_planVars, NEW i \in Intents,
         url = [intent |-> i, status |-> "paid"], url' = NoReturn
  PROVE  i \in finalized'
<1> USE DEF PlansInv
<1>1. url \in Returns /\ url' # url /\ url.status = "paid" /\ url.intent = i
  <2>1. url \in Returns
    BY DEF Returns
  <2> QED BY <2>1, OverlaysAssumption
<1>2. PICK t \in Tasks : Loaded(t) \/ LoadFailed(t) \/ ReturnFinalized(t) \/ FinalizeFailed(t)
                       \/ \E status \in {"paid", "cancelled", "failed"} : Checkout(t, status)
  BY <1>1 DEF PlansNext, planVars, OpenPlans, CatalogMounted, MountEnds, MountAgain, Remount, ClosePlans, Reload, SelectTab, FinalizeReturn,
              PaidAlready, Settle, Changed, ActFailed, Act, Prepare
<1>3. ASSUME Loaded(t) PROVE FALSE
  BY <1>1, <1>3 DEF Loaded
<1>4. ASSUME LoadFailed(t) \/ FinalizeFailed(t) PROVE FALSE
  BY <1>1, <1>4 DEF LoadFailed, FinalizeFailed, Cleared
<1>5. ASSUME NEW status \in {"paid", "cancelled", "failed"}, Checkout(t, status) PROVE FALSE
  <2>1. url' = [intent |-> intent[t], status |-> status] /\ intent[t] \in Intents
    BY <1>5 DEF Checkout, IntentKnown, WithIntent
  <2>2. url' \in Returns
    BY <2>1 DEF Returns
  <2> QED BY <2>2, OverlaysAssumption
<1>6. ASSUME ReturnFinalized(t) PROVE i \in finalized'
  <2>1. task[t].host \in Hosts /\ intent[t] \in Intents /\ posts[task[t].host][intent[t]] = 1
    BY <1>6 DEF ReturnFinalized, PlansTypeOK, IntentKnown, WithIntent
  <2>2. url = [intent |-> intent[t], status |-> "paid"]
    BY <1>1, <2>1, OverlaysAssumption DEF HandledOnce
  <2>3. intent[t] = i
    BY <1>1, <2>2
  <2> QED BY <1>6, <2>3 DEF ReturnFinalized
<1> QED BY <1>2, <1>3, <1>4, <1>5, <1>6

\* A paid return leaves the URL only when it is finalized, or for another checkout.
THEOREM EvidenceStays == PlansSpec => EvidenceKept
<1>1. PlansInv /\ [PlansNext]_planVars =>
        [\A i \in Intents :
          url = [intent |-> i, status |-> "paid"] /\ url' = NoReturn => i \in finalized']_planVars
  BY TakenFinalized
<1> QED BY <1>1, PlansInvHolds, PTL DEF PlansSpec, EvidenceKept

(***************************************************************************)
(* The parts side by side, as MCHostParts composes them.                   *)
(***************************************************************************)

PartsInv == ExpandInv /\ PlansInv /\ StoreInv

LEMMA PartsStep == PartsInv /\ [PartsNext]_partVars => PartsInv'
<1> SUFFICES ASSUME PartsInv, [PartsNext]_partVars PROVE PartsInv'
  OBVIOUS
<1>1. [ExpandNext]_expandVars /\ [PlansNext]_planVars /\ [StoreNext]_storeVars
  BY DEF PartsNext, partVars, StoreNext
<1> QED BY <1>1, ExpandNextInv, PlansNextInv, StoreStep DEF PartsInv

\* Overlays and records are well typed side by side, for any frames, requests, tasks and
\* calls of the store (ExpandOverlay, PlansOverlay, RedisHostStore).
THEOREM PartsTypeCorrect == PartsSpec => []PartsTypeOK
<1>1. PartsInit => PartsInv
  BY ExpandInitInv, PlansInitInv, StoreInitOK DEF PartsInit, PartsInv
<1>2. PartsInv => PartsTypeOK
  BY DEF PartsInv, PartsTypeOK, ExpandInv, PlansInv, StoreInv
<1> QED BY <1>1, <1>2, PartsStep, PTL DEF PartsSpec
=============================================================================
