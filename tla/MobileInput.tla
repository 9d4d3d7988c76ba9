----------------------------- MODULE MobileInput -----------------------------
(***************************************************************************)
(* Input of the terminals on a phone: the touch gestures and the focus     *)
(* (chrome/use-touch-gesture.ts, use-mobile-terminal.ts), the detection    *)
(* of the system's keyboard (lib/use-keyboard.ts) and the sticky Ctrl and  *)
(* Alt of the toolbar (chrome/mobile-keyboard-slot.tsx).                   *)
(*                                                                         *)
(* Heights are three levels: 0 closes the keyboard, 2 opens it; so are     *)
(* the offsets of the viewport.  A line is two steps of a finger high and  *)
(* one step is within the dead zone.  A timer lasts Long ticks.  The       *)
(* keyboard either pushes the viewport up or lies over it, as the device   *)
(* has it, and moves in steps.  Left out: layout, and text that is pasted. *)
(***************************************************************************)
EXTENDS Integers, FiniteSets

CONSTANTS
  Terminals, NoTerminal,
  MaxTouches  \* bound: fingers put down, keys pressed and other steps of the user

Mods == {"ctrl", "alt"}
Long == 2   \* of 5 s
Tall == 3   \* where a finger can be: 0..Tall

VARIABLES
  focus,     \* document.activeElement
  enabled,   \* terminals with terminalFocused
  leaving,   \* terminals whose focusout timer runs
  on,        \* _ctrlOn, _altOn
  timers,    \* of each modifier, the ticks its timers have left
  age,       \* ticks since a modifier was switched on (history)
  gesture,
  touch,     \* its terminal, fingers down, where one is, taps and lines scrolled since the first
  mode,      \* "push" or "overlay"
  keyboard,  \* the system's keyboard is called for
  viewport,  \* its height and offset as they are
  detected,  \* baseline, isVisible, _keyboardHasOpened, _wasPushedUp
  synced,    \* sync() saw the viewport as it is (history)
  dismissed, \* closed by the user while isVisible, with the focus left (history)
  touches

mobileVars == <<focus, enabled, leaving, on, timers, age, gesture, touch, mode, keyboard,
                viewport, detected, synced, dismissed, touches>>

None(v) == [m \in Mods |-> v]
Idle == [state |-> "idle", startY |-> 0, applied |-> 0]
NoTouch == [at |-> NoTerminal, fingers |-> 0, startY |-> 0, y |-> 0, taps |-> 0, lines |-> 0]
Raised == [h |-> 2, off |-> IF mode = "push" THEN 2 ELSE 0]
Lowered == [h |-> 0, off |-> 0]

\* The first sync() keeps the height it finds for ever.
MobileInit ==
  /\ focus = NoTerminal /\ enabled = {} /\ leaving = {}
  /\ on = None(FALSE) /\ timers = None({}) /\ age = None(0)
  /\ gesture = Idle /\ touch = NoTouch /\ touches = 0
  /\ mode \in {"push", "overlay"} /\ keyboard \in BOOLEAN
  /\ viewport = IF keyboard THEN Raised ELSE Lowered
  /\ detected = [baseline |-> viewport.h, visible |-> FALSE, opened |-> FALSE,
                 pushed |-> viewport.off = 2]
  /\ synced = TRUE /\ dismissed = FALSE

modVars == <<on, timers, age>>
sysVars == <<mode, keyboard, viewport, detected, synced>>

-----------------------------------------------------------------------------
(* Focus *)
Touched == touches < MaxTouches /\ touches' = touches + 1

\* The textarea of a terminal gets or loses the focus; what focusout does waits.
Focused(t) ==
  /\ focus' = t /\ enabled' = enabled \cup ({t} \ {NoTerminal})
  /\ leaving' = leaving \cup ({focus} \ {NoTerminal, t})

\* Mutant: the modifiers stay when a terminal loses the focus.
ModifiersStay == UNCHANGED modVars

\* setCtrlOn(false), setAltOn(false)
ClearModifiers == on' = None(FALSE) /\ timers' = None({}) /\ age' = None(0)

\* The timer of focusout
FocusOut(t) ==
  /\ t \in leaving /\ leaving' = leaving \ {t}
  /\ IF focus = t \/ t \notin enabled THEN UNCHANGED <<enabled, modVars>>
     ELSE enabled' = enabled \ {t} /\ ClearModifiers
  /\ UNCHANGED <<focus, gesture, touch, sysVars, dismissed, touches>>

\* Something else on the page takes the focus.
Elsewhere ==
  /\ Touched /\ focus # NoTerminal /\ touch.fingers = 0 /\ Focused(NoTerminal)
  /\ dismissed' = FALSE
  /\ UNCHANGED <<modVars, gesture, touch, sysVars>>

-----------------------------------------------------------------------------
(* Modifiers *)

\* Mutant: the timer of a modifier goes on when it is off.
TimerGoesOn(m) == timers[m]

\* clearCtrlTimer, clearAltTimer
ClearTimer(m) == {}

SetOn(m, v) ==
  /\ on' = [on EXCEPT ![m] = v] /\ age' = [age EXCEPT ![m] = 0]
  /\ timers' = [timers EXCEPT ![m] = ClearTimer(m) \cup IF v THEN {Long} ELSE {}]

\* handleKey of a toggle, on the toolbar of a terminal that is enabled
PressModifier(m) ==
  /\ Touched /\ enabled # {} /\ SetOn(m, ~on[m])
  /\ UNCHANGED <<focus, enabled, leaving, gesture, touch, sysVars, dismissed>>

\* consumeMobileModifiers: Ctrl takes one character only.
Consume(single) ==
  LET used == {m \in Mods : on[m] /\ (m = "alt" \/ single)} IN
  /\ Touched /\ used # {}
  /\ on' = [m \in Mods |-> on[m] /\ m \notin used]
  /\ timers' = [m \in Mods |-> IF m \in used THEN ClearTimer(m) ELSE timers[m]]
  /\ age' = [m \in Mods |-> IF m \in used THEN 0 ELSE age[m]]
  /\ UNCHANGED <<focus, enabled, leaving, gesture, touch, sysVars, dismissed>>

Tick ==
  /\ \E m \in Mods : timers[m] # {}
  /\ on' = [m \in Mods |-> on[m] /\ 1 \notin timers[m]]
  /\ timers' = [m \in Mods |-> {n - 1 : n \in timers[m] \ {1}}]
  /\ age' = [m \in Mods |-> IF on'[m] THEN age[m] + 1 ELSE 0]
  /\ UNCHANGED <<focus, enabled, leaving, gesture, touch, sysVars, dismissed, touches>>

-----------------------------------------------------------------------------
(* Touches *)
Round(px) == (px + 1) \div 2
Dead(px) == px \in -1..1

\* touchstart: a second finger changes nothing.
TouchStart(t, y, scrollbar) ==
  /\ Touched /\ touch.fingers < 2 /\ (touch.fingers = 1 => touch.at = t)
  /\ touch' = IF touch.fingers = 0
              THEN [at |-> t, fingers |-> 1, startY |-> y, y |-> y, taps |-> 0, lines |-> 0]
              ELSE [touch EXCEPT !.fingers = 2]
  /\ gesture' = IF touch.fingers = 1 THEN gesture
                ELSE IF scrollbar THEN [Idle EXCEPT !.state = "scrollbar-drag"]
                ELSE [Idle EXCEPT !.state = "pending", !.startY = y]
  /\ UNCHANGED <<focus, enabled, leaving, modVars, sysVars, dismissed>>

\* Mutant: the lines scrolled by earlier moves are scrolled again.
FrameDeltaAgain(total) == total

FrameDelta(total) == total - gesture.applied

\* touchmove of the finger that is left, or of one of two
TouchMove(y) ==
  /\ touch.fingers > 0 /\ y # touch.y
  /\ LET px == gesture.startY - y
         still == gesture.state = "pending" /\ Dead(px)
         total == Round(px)
     IN IF gesture.state \in {"idle", "scrollbar-drag"} \/ (touch.fingers = 1 /\ still)
        THEN touch' = [touch EXCEPT !.y = y] /\ UNCHANGED gesture
        ELSE IF touch.fingers = 2 THEN touch' = [touch EXCEPT !.y = y] /\ gesture' = Idle
        ELSE /\ touch' = [touch EXCEPT !.y = y, !.lines = @ + FrameDelta(total)]
             /\ gesture' = [gesture EXCEPT !.state = "scrolling", !.applied = total]
  /\ UNCHANGED <<focus, enabled, leaving, modVars, sysVars, dismissed, touches>>

\* touchend: a tap focuses the terminal, or takes the focus away (handleTap).
TouchEnd ==
  LET tap == gesture.state = "pending"
      t == touch.at
  IN
  /\ touch.fingers > 0 /\ gesture' = Idle
  /\ touch' = [touch EXCEPT !.fingers = @ - 1, !.taps = IF tap THEN @ + 1 ELSE @]
  /\ IF tap THEN Focused(IF focus = t THEN NoTerminal ELSE t) /\ dismissed' = FALSE
     ELSE UNCHANGED <<focus, enabled, leaving, dismissed>>
  /\ UNCHANGED <<modVars, sysVars, touches>>

TouchCancel ==
  /\ touch.fingers > 0 /\ gesture' = Idle /\ touch' = NoTouch
  /\ UNCHANGED <<focus, enabled, leaving, modVars, sysVars, dismissed, touches>>

-----------------------------------------------------------------------------
(* The keyboard of the system *)

\* The system raises it for a textarea with the focus, and lowers it without.
Call ==
  /\ keyboard # (focus # NoTerminal) /\ keyboard' = ~keyboard /\ dismissed' = FALSE
  /\ (keyboard \/ ~dismissed \/ touch.fingers > 0)
  /\ UNCHANGED <<focus, enabled, leaving, modVars, gesture, touch, mode, viewport, detected,
                 synced, touches>>

\* The user closes it, and the textarea keeps the focus.
Dismiss ==
  /\ Touched /\ keyboard /\ focus # NoTerminal /\ keyboard' = FALSE
  /\ dismissed' = detected.visible
  /\ UNCHANGED <<focus, enabled, leaving, modVars, gesture, touch, mode, viewport, detected, synced>>

Toward(a, b) == IF a < b THEN a + 1 ELSE IF a > b THEN a - 1 ELSE a
Rest == IF keyboard THEN Raised ELSE Lowered

Moves(f) ==
  /\ viewport[f] # Rest[f] /\ viewport' = [viewport EXCEPT ![f] = Toward(@, Rest[f])]
  /\ synced' = FALSE
  /\ UNCHANGED <<focus, enabled, leaving, modVars, gesture, touch, mode, keyboard, detected,
                 dismissed, touches>>

\* isVisible with its hysteresis
Visible(h) ==
  IF detected.visible THEN h > 0 /\ ~(detected.pushed /\ viewport.off = 0)
  ELSE h = 2 /\ (viewport.off = 2 \/ ~detected.opened)

\* Mutant: the textarea keeps the focus when the keyboard is gone.
FocusStays == UNCHANGED <<focus, enabled, leaving>>

\* The effect of isVisible FALSE: the textarea that has the focus is blurred.
Blur == Focused(NoTerminal)

\* sync(), on a resize of the viewport and by the poll
Sync ==
  LET h == viewport.h - detected.baseline
      visible == Visible(h)
  IN /\ ~synced /\ synced' = TRUE
     /\ detected' = [detected EXCEPT !.visible = visible, !.opened = @ \/ visible,
                                     !.pushed = @ \/ viewport.off = 2]
     /\ IF detected.visible /\ ~visible THEN Blur ELSE UNCHANGED <<focus, enabled, leaving>>
     /\ UNCHANGED <<modVars, gesture, touch, mode, keyboard, viewport, dismissed, touches>>

MobileNext ==
  \/ Elsewhere \/ Tick \/ TouchCancel \/ Call \/ Dismiss \/ Sync \/ TouchEnd
  \/ \E t \in Terminals : FocusOut(t)
  \/ \E t \in Terminals, y \in 0..Tall, s \in BOOLEAN : TouchStart(t, y, s)
  \/ \E y \in 0..Tall : TouchMove(y)
  \/ \E m \in Mods : PressModifier(m)
  \/ \E single \in BOOLEAN : Consume(single)
  \/ \E f \in {"h", "off"} : Moves(f)

-----------------------------------------------------------------------------
\* A modifier that is on has one timer, of its own press, and none is on when no
\* terminal has the focus (mobile-keyboard-slot.tsx:171).
ModifiersExpire ==
  \A m \in Mods :
    /\ timers[m] = IF on[m] THEN {Long - age[m]} ELSE {}
    /\ on[m] => enabled # {}

\* Of one touch, from the first finger to the last, comes one tap or a scroll,
\* never both, and however a finger went the terminal has scrolled by what it is
\* away from where it began (use-touch-gesture.ts:130).
OneGesture ==
  /\ touch.taps + (IF touch.lines # 0 THEN 1 ELSE 0) <= 1
  /\ gesture.state = "scrolling" /\ touch.fingers = 1 => touch.lines = Round(touch.startY - touch.y)

AtRest == viewport = Rest /\ synced

\* At rest no keyboard is seen that is not there, one that pushes the viewport up
\* is seen, unless it was up at first (use-keyboard.ts:53), and one that the user
\* closed has left no focus behind (use-mobile-terminal.ts:52).
KeyboardIsSeen ==
  AtRest =>
    /\ detected.visible => keyboard
    /\ mode = "push" /\ keyboard /\ detected.baseline = 0 => detected.visible
    /\ dismissed => focus = NoTerminal
=============================================================================
