---------------------------- MODULE ExpandOverlay ----------------------------
(***************************************************************************)
(* A widget is expanded over the page of the host: the overlay controller  *)
(* of embed-sdk (hostExpandOverlay.ts) and the marketplace shell that asks *)
(* for it (WidgetView of marketplace-ui).                                  *)
(*                                                                         *)
(* The overlay awaits the browser, which enters or leaves fullscreen; in   *)
(* between come requests, clicks, Escape and fullscreenchange.  The shell  *)
(* shows the stage it asked for at once, gives up an answer after a time,  *)
(* takes it late for a while, and is told of every other change.  Windows  *)
(* send each other messages in order.                                      *)
(***************************************************************************)
EXTENDS FiniteSets, Sequences

CONSTANTS
  Frames,      \* the frames that may be expanded, each with its shell
  InPlace,     \* those expanded in their container instead of the overlay panel
  Requests,    \* requests of the shells
  Clicks,      \* clicks on the buttons of the overlay
  Panel,       \* the panel of the overlay, as a fullscreen element
  Nothing

ASSUME FramesAssumption ==
  /\ InPlace \subseteq Frames
  /\ Requests \cap Clicks = {}
  /\ Panel \notin Frames /\ Nothing \notin Frames \cup Requests \cup {Panel}

VARIABLES
  attached,    \* the controller has not been destroyed
  active,      \* the frame that is expanded
  overlayStage, \* its stage
  native,      \* nativeFullscreen
  moved,       \* the frames out of their place, or of their style
  fullscreen,  \* document.fullscreenElement
  run,         \* where the handling of a request or a click stands
  shell,       \* the stage a shell displays (hostNestedExpandStage)
  pending,     \* where a request stands in nestedExpandPending
  toOverlay,   \* messages of a shell to the page
  toShell,     \* messages of the page to a shell
  missed       \* history: frames whose shell cannot know, see ShellAgrees

page       == <<attached, active, overlayStage, native, moved>>
shellVars  == <<shell, pending>>
channels   == <<toOverlay, toShell>>
expandVars == <<page, fullscreen, run, shellVars, channels, missed>>

-----------------------------------------------------------------------------
Expand == {"focus", "fullscreen"}
Stage3 == {"inline"} \cup Expand
Handled == Requests \cup Clicks

\* A run awaits the browser while it is "entering", "exiting" (to inline) or "leaving"
\* (to focus), and goes on from "entered", "exited" or "left".
Awaiting == {"entering", "exiting", "leaving", "entered", "exited", "left"}
RunSteps == {"idle", "sent", "done"} \cup Awaiting
Runs == [step : RunSteps, frame : Frames \cup {Nothing}, want : Stage3]

Target(f) == IF f \in InPlace THEN f ELSE Panel

\* What a message tells the shell: the answer to a request, or a result on its own.
Result(s) == [request |-> Nothing, stage |-> s]
Tell(f, message) == [toShell EXCEPT ![f] = Append(@, message)]

ExpandTypeOK ==
  /\ attached \in BOOLEAN /\ native \in BOOLEAN
  /\ active \in Frames \cup {Nothing} /\ overlayStage \in Stage3
  /\ moved \subseteq Frames
  /\ fullscreen \in Frames \cup {Panel, Nothing}
  /\ run \in [Handled -> Runs]
  /\ shell \in [Frames -> Stage3]
  /\ pending \in [Requests -> {"none", "waiting", "late"}]
  /\ toOverlay \in [Frames -> Seq(Requests)]
  /\ toShell \in [Frames -> Seq([request : Requests \cup {Nothing}, stage : Stage3])]
  /\ missed \subseteq Frames

ExpandInit ==
  /\ attached = TRUE /\ native = FALSE
  /\ active = Nothing /\ overlayStage = "inline" /\ moved = {}
  /\ fullscreen = Nothing
  /\ run = [r \in Handled |-> [step |-> "idle", frame |-> Nothing, want |-> "inline"]]
  /\ shell = [f \in Frames |-> "inline"]
  /\ pending = [r \in Requests |-> "none"]
  /\ toOverlay = [f \in Frames |-> <<>>] /\ toShell = [f \in Frames |-> <<>>]
  /\ missed = {}

-----------------------------------------------------------------------------
\* The overlay.

\* restoreInline
Restore ==
  /\ active' = Nothing /\ overlayStage' = "inline" /\ native' = FALSE
  /\ moved' = moved \ {active}

\* Mutant of Displace: the frame before stays in the overlay.
DisplaceNone(f) == moved \cup {f}

\* moveToOverlay and activateInPlaceTarget put the frame before back first.
Displace(f) == (moved \ {active}) \cup {f}

\* Mutant of StageTold: the stage that was asked for.
StageAsked(r) == run[r].want

\* The stage that is told after an await: the one the overlay has then.
StageTold(r) == overlayStage

\* The handling of r for frame f: it awaits the browser, or is over and told to g.
Await(r, f, w, step) ==
  /\ run' = [run EXCEPT ![r] = [step |-> step, frame |-> f, want |-> w]]
  /\ UNCHANGED toShell
Finish(r, g, s) ==
  /\ run' = [run EXCEPT ![r].step = "done"]
  /\ toShell' = IF r \in Requests THEN Tell(run[r].frame, [request |-> r, stage |-> s])
                ELSE IF g # Nothing THEN Tell(g, Result(s)) ELSE toShell

\* Frame f is expanded to w: in place of another one, that one is put back untold.
Enter(r, f, w) ==
  /\ active' = f /\ overlayStage' = w /\ native' = FALSE
  /\ moved' = IF active = f THEN moved ELSE Displace(f)
  /\ missed' = missed \cup ({active} \ {f, Nothing})
  /\ \/ w = "fullscreen" /\ Await(r, f, w, "entering")
     \/ w = "focus" /\ fullscreen \in {Panel, Target(f)} /\ Await(r, f, w, "leaving")
     \/ w = "focus" /\ fullscreen \notin {Panel, Target(f)} /\ Finish(r, f, w)

\* The active frame f is put back, after fullscreen has been left.
Leave(r, f) ==
  /\ \/ fullscreen = Target(f) /\ Await(r, f, "inline", "exiting")
        /\ UNCHANGED <<active, overlayStage, native, moved>>
     \/ fullscreen # Target(f) /\ Restore /\ Finish(r, f, "inline")
  /\ UNCHANGED missed

\* A request of the shell of f is taken from the messages.
Handle(f) ==
  /\ attached /\ toOverlay[f] # <<>>
  /\ toOverlay' = [toOverlay EXCEPT ![f] = Tail(@)]
  /\ LET r == Head(toOverlay[f])
         w == run[r].want IN
     \/ w # "inline" /\ Enter(r, f, w)
     \/ w = "inline" /\ active = f /\ Leave(r, f)
     \/ /\ w = "inline" /\ active # f
        /\ Finish(r, f, "inline")
        /\ UNCHANGED <<active, overlayStage, native, moved, missed>>
  /\ UNCHANGED <<attached, fullscreen, shellVars>>

\* The stage button and the close button (also Escape and a click beside the frame).
Toggle(c) ==
  /\ active # Nothing /\ run[c].step = "idle"
  /\ Enter(c, active, IF overlayStage = "fullscreen" THEN "focus" ELSE "fullscreen")
  /\ UNCHANGED <<attached, fullscreen, shellVars, toOverlay>>
Close(c) ==
  /\ active # Nothing /\ run[c].step = "idle"
  /\ Leave(c, active)
  /\ UNCHANGED <<attached, fullscreen, shellVars, toOverlay>>

\* fullscreenElement becomes e; the listener of fullscreenchange follows.
BecomeFullscreen(e) ==
  /\ fullscreen' = e
  /\ \/ /\ fullscreen # e /\ active # Nothing
        /\ e \in {Panel} \cup (InPlace \cap {active})
        /\ native' = TRUE /\ overlayStage' = "fullscreen"
        /\ toShell' = Tell(active, Result("fullscreen"))
     \/ /\ fullscreen # e /\ active # Nothing
        /\ e \notin {Panel} \cup (InPlace \cap {active})
        /\ overlayStage = "fullscreen"
        /\ native' = FALSE /\ overlayStage' = "focus"
        /\ toShell' = Tell(active, Result("focus"))
     \/ /\ \/ fullscreen = e \/ active = Nothing
           \/ e \notin {Panel} \cup (InPlace \cap {active}) /\ overlayStage # "fullscreen"
        /\ UNCHANGED <<native, overlayStage, toShell>>
  /\ UNCHANGED <<attached, active, moved, shellVars, toOverlay, missed>>

\* The browser enters or leaves fullscreen for a run; the run goes on later.
Entered(r) ==
  /\ run[r].step = "entering"
  /\ BecomeFullscreen(Target(run[r].frame))
  /\ run' = [run EXCEPT ![r].step = "entered"]
Exited(r) ==
  /\ run[r].step \in {"exiting", "leaving"}
  /\ BecomeFullscreen(Nothing)
  /\ run' = [run EXCEPT ![r].step = IF @ = "exiting" THEN "exited" ELSE "left"]

\* The user leaves fullscreen, with Escape.
UserExits ==
  /\ fullscreen # Nothing
  /\ BecomeFullscreen(Nothing)
  /\ UNCHANGED run

\* The run goes on after its await, or fullscreen is refused: whatever is active now.
Resume(r) ==
  LET f == run[r].frame IN
  /\ run[r].step \in {"entering", "entered", "left"}
  /\ native' = (run[r].step = "entered" /\ fullscreen = Target(f))
  /\ Finish(r, active, StageTold(r))
  /\ missed' = IF r \in Requests /\ active \notin {f, Nothing} THEN missed \cup {f} ELSE missed
  /\ UNCHANGED <<attached, active, overlayStage, moved, fullscreen, shellVars, toOverlay>>
ResumeInline(r) ==
  /\ run[r].step = "exited"
  /\ Restore
  /\ Finish(r, run[r].frame, "inline")
  /\ missed' = missed \cup ({active} \ {run[r].frame, Nothing})
  /\ UNCHANGED <<attached, fullscreen, shellVars, toOverlay>>

\* destroy: the shells are not told, and their requests not answered any more.
DestroyOverlay ==
  /\ attached
  /\ attached' = FALSE
  /\ Restore
  /\ missed' = Frames
  /\ UNCHANGED <<fullscreen, run, shellVars, channels>>

-----------------------------------------------------------------------------
\* The shell.

\* The widget of f asks: the shell shows the stage before it is answered.
Request(r, f, w) ==
  /\ run[r].step = "idle"
  /\ run' = [run EXCEPT ![r] = [step |-> "sent", frame |-> f, want |-> w]]
  /\ shell' = [shell EXCEPT ![f] = w]
  /\ pending' = [pending EXCEPT ![r] = "waiting"]
  /\ toOverlay' = [toOverlay EXCEPT ![f] = Append(@, r)]
  /\ UNCHANGED <<page, fullscreen, toShell, missed>>

\* Mutant of Heard: an answer after the timeout is dropped.
HeardInTime(r) == pending[r] = "waiting"

\* An answer is heard as long as the request has its entry, late or not.
Heard(r) == pending[r] # "none"

Receive(f) ==
  /\ toShell[f] # <<>>
  /\ toShell' = [toShell EXCEPT ![f] = Tail(@)]
  /\ LET message == Head(toShell[f])
         r == message.request IN
     /\ pending' = [q \in Requests |-> IF q = r THEN "none" ELSE pending[q]]
     /\ shell' = IF r \in Requests => Heard(r) THEN [shell EXCEPT ![f] = message.stage] ELSE shell
  /\ UNCHANGED <<page, fullscreen, run, toOverlay, missed>>

\* 1200 ms without an answer: the shell shows its normal stage again.
TimeOut(r) ==
  /\ pending[r] = "waiting"
  /\ pending' = [pending EXCEPT ![r] = "late"]
  /\ shell' = [shell EXCEPT ![run[r].frame] = "inline"]
  /\ UNCHANGED <<page, fullscreen, run, channels, missed>>

\* 4000 ms more: the entry is dropped, and so will be the answer.
Forget(r) ==
  /\ pending[r] = "late"
  /\ pending' = [pending EXCEPT ![r] = "none"]
  /\ missed' = missed \cup {run[r].frame}
  /\ UNCHANGED <<page, fullscreen, run, shell, channels>>

ExpandNext ==
  \/ \E f \in Frames : Handle(f) \/ Receive(f) \/ \E r \in Requests, w \in Stage3 : Request(r, f, w)
  \/ \E c \in Clicks : Toggle(c) \/ Close(c)
  \/ \E r \in Handled : Entered(r) \/ Exited(r) \/ Resume(r) \/ ResumeInline(r)
  \/ \E r \in Requests : TimeOut(r) \/ Forget(r)
  \/ UserExits \/ DestroyOverlay

ExpandSpec == ExpandInit /\ [][ExpandNext]_expandVars

-----------------------------------------------------------------------------
\* Whatever is requested or clicked while the browser enters or leaves fullscreen, the
\* frame that is active is the one and only out of its place, and the overlay has a
\* stage other than inline exactly while there is one.
FramesInPlace ==
  /\ moved = {active} \ {Nothing}
  /\ overlayStage = "inline" <=> active = Nothing

\* Once everything is answered the shell displays the stage its frame has.  It cannot
\* when it was not told: another frame took the place or ended the stage of its frame,
\* its answer came after 5200 ms, or the overlay is gone.
Quiet(f) ==
  /\ toOverlay[f] = <<>> /\ toShell[f] = <<>>
  /\ \A r \in Handled : run[r].step \notin Awaiting
  /\ \A r \in Requests : run[r].frame = f => pending[r] = "none"
ShellAgrees ==
  \A f \in Frames \ missed :
    Quiet(f) => shell[f] = IF active = f THEN overlayStage ELSE "inline"
=============================================================================
