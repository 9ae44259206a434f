----------------------------- MODULE Input2048 ------------------------------
(***************************************************************************)
(* js/keyboard_input_manager.js of CA3/P1/Bibi/2048: how keys, fingers and *)
(* clicks become the events move, restart and keepPlaying.  Fingers come,  *)
(* go and are cancelled one at a time, anywhere on the page, and the       *)
(* browser may follow a tap with a click.  A redraw of js/html_actuator.js *)
(* may take the tile that a finger was put down on out of the page.  The   *)
(* touch events are those of browsers other than Internet Explorer 10.     *)
(***************************************************************************)
EXTENDS Integers, Sequences, FiniteSets

CONSTANTS Fingers,
          Points,       \* where a finger can be: pairs of coordinates
          Undefined,    \* a variable before its first assignment
          MaxTouches    \* bound: how often fingers come down in one gesture

ASSUME PointsAssumption == Points \subseteq Int \X Int
ASSUME UndefinedAssumption == Undefined \notin Points
ASSUME BoundAssumption == MaxTouches \in Nat

VARIABLES on,        \* on[f]: what finger f was put down on, "air" when it is up,
                     \* "gone" when what it was put down on has left the page
          from,      \* from[f]: where f was put down, if it is down
          prevented, \* prevented[f]: f is down and its touchstart was kept from the browser
          start,     \* touchStartClientX and touchStartClientY
          click,     \* the element that the browser may click after a tap
          emitted,   \* what the last event made the input manager emit
          gesture    \* history: what happened since the first finger came down

vars == <<on, from, prevented, start, click, emitted, gesture>>

(* The buttons of the message lie in the game container, as do the tiles and,
   under them, the board; "New Game" lies outside. *)
Buttons == {"retry", "keep-playing", "new-game"}
InContainer == {"tile", "board", "retry", "keep-playing"}
Places == InContainer \cup {"new-game", "page"}

Up(f) == on[f] = "air"
Others(f) == {g \in Fingers \ {f} : ~Up(g)}

(* What emit passes on. *)
Move(direction) == <<"move", direction>>
Restart == <<"restart">>
KeepPlaying == <<"keepPlaying">>

NoGesture == [touches |-> 0, began |-> Undefined, moves |-> 0, presses |-> 0, fired |-> 0]

Init == /\ on = [f \in Fingers |-> "air"]
        /\ from = [f \in Fingers |-> Undefined]
        /\ prevented = [f \in Fingers |-> FALSE]
        /\ start = Undefined
        /\ click = "none"
        /\ emitted = <<>>
        /\ gesture = NoGesture

touchVars == <<on, from, prevented, start>>

-----------------------------------------------------------------------------
(* Keys *)

(* Altered: the directions count from one. *)
mapFromOne(code) == CASE code \in {38, 75, 87} -> 1
                      [] code \in {39, 76, 68} -> 2
                      [] code \in {40, 74, 83} -> 3
                      [] code \in {37, 72, 65} -> 4
                      [] OTHER -> Undefined

(* Arrows, Vim keys and WASD: up, right, down, left. *)
map(code) == CASE code \in {38, 75, 87} -> 0
               [] code \in {39, 76, 68} -> 1
               [] code \in {40, 74, 83} -> 2
               [] code \in {37, 72, 65} -> 3
               [] OTHER -> Undefined

LetterR == 82
OtherKey == 13
Keys == {38, 75, 87, 39, 76, 68, 40, 74, 83, 37, 72, 65, LetterR, OtherKey}

(* keydown; with a modifier the key is the browser's. *)
Key(code, modifiers) ==
    /\ emitted' = IF modifiers THEN <<>>
                  ELSE IF map(code) # Undefined THEN <<Move(map(code))>>
                  ELSE IF code = LetterR THEN <<Restart>> ELSE <<>>
    /\ UNCHANGED <<touchVars, click, gesture>>

-----------------------------------------------------------------------------
(* Fingers *)

(* Altered: the handler lets the browser go on. *)
pressUnprevented(place) ==
    [emits |-> CASE place \in {"retry", "new-game"} -> <<Restart>>
                 [] place = "keep-playing" -> <<KeepPlaying>>
                 [] OTHER -> <<>>,
     prevents |-> FALSE]

(* restart and keepPlaying, bound to the three buttons for click and touchend. *)
press(place) ==
    [emits |-> CASE place \in {"retry", "new-game"} -> <<Restart>>
                 [] place = "keep-playing" -> <<KeepPlaying>>
                 [] OTHER -> <<>>,
     prevents |-> place \in Buttons]

(* Altered: the container listens to every finger that comes down in it. *)
heardAny(f, place) == place \in InContainer

(* The container listens to a touchstart in it of a finger that is alone on the
   whole screen. *)
heard(f, place) == place \in InContainer /\ Others(f) = {}

(* The first finger begins a gesture, there if it is heard; others take part. *)
Touched(f, place, p) ==
    IF Others(f) = {}
    THEN [NoGesture EXCEPT !.touches = 1,
                           !.began = IF place \in InContainer THEN p ELSE Undefined]
    ELSE [gesture EXCEPT !.touches = @ + 1]

(* touchstart *)
TouchStart(f, place, p) ==
    /\ Up(f)
    /\ gesture' = Touched(f, place, p) /\ gesture'.touches <= MaxTouches
    /\ on' = [on EXCEPT ![f] = place]
    /\ from' = [from EXCEPT ![f] = p]
    /\ start' = IF heard(f, place) THEN p ELSE start
    /\ prevented' = [prevented EXCEPT ![f] = heard(f, place)]
    /\ click' = "none"
    /\ emitted' = <<>>

Abs(n) == IF n < 0 THEN -n ELSE n

(* From the start, as it was last stored, to where the finger went up.  With no
   start the differences are not numbers, and no comparison holds. *)
swipe(p, q) ==
    LET dx == q[1] - p[1]
        dy == q[2] - p[2]
    IN  IF p = Undefined \/ (Abs(dx) <= 10 /\ Abs(dy) <= 10) THEN <<>>
        ELSE IF Abs(dx) > Abs(dy) THEN (IF dx > 0 THEN <<Move(1)>> ELSE <<Move(3)>>)
        ELSE IF dy > 0 THEN <<Move(2)>> ELSE <<Move(0)>>

(* Altered: the end of any touch counts. *)
containerEndsAny(f, q) == IF on[f] \in InContainer THEN swipe(start, q) ELSE <<>>

(* The container's touchend, once no finger is left on the screen.  It goes to
   what the finger was put down on, and from there to the container if that is
   still in it. *)
containerEnds(f, q) ==
    IF on[f] \in InContainer /\ Others(f) = {} THEN swipe(start, q) ELSE <<>>

Lift(f) == /\ on' = [on EXCEPT ![f] = "air"]
           /\ from' = [from EXCEPT ![f] = Undefined]
           /\ prevented' = [prevented EXCEPT ![f] = FALSE]
           /\ UNCHANGED start

Tap(f, q) == gesture.touches = 1 /\ q = from[f]

(* touchend goes to where the finger came down: the button's handler first,
   then the container's.  A tap that nobody kept from the browser is clicked. *)
TouchEnd(f, q) ==
    LET button == press(on[f])
        swiped == containerEnds(f, q)
    IN  /\ ~Up(f)
        /\ emitted' = button.emits \o swiped
        /\ Lift(f)
        /\ click' = IF Tap(f, q) /\ ~prevented[f] /\ ~button.prevents THEN on[f] ELSE "none"
        /\ gesture' = [gesture EXCEPT !.moves = @ + Len(swiped),
                                      !.presses = @ + IF on[f] \in Buttons THEN 1 ELSE 0,
                                      !.fired = @ + Len(button.emits)]

(* touchcancel: nobody listens. *)
TouchCancel(f) == /\ ~Up(f)
                  /\ Lift(f)
                  /\ emitted' = <<>>
                  /\ UNCHANGED <<click, gesture>>

(* A frame asked for by an earlier move, restart or loading draws the board
   anew: the tiles under the fingers leave the page. *)
Redraw == /\ \E f \in Fingers : on[f] = "tile"
          /\ on' = [f \in Fingers |-> IF on[f] = "tile" THEN "gone" ELSE on[f]]
          /\ emitted' = <<>>
          /\ UNCHANGED <<from, prevented, start, click, gesture>>

-----------------------------------------------------------------------------
(* Clicks *)

(* The click that follows a tap. *)
TapClick == /\ click # "none"
            /\ emitted' = press(click).emits
            /\ click' = "none"
            /\ gesture' = [gesture EXCEPT !.fired = @ + Len(press(click).emits)]
            /\ UNCHANGED touchVars

MouseClick(place) == /\ emitted' = press(place).emits
                     /\ UNCHANGED <<touchVars, click, gesture>>

Next == \/ \E code \in Keys, modifiers \in BOOLEAN : Key(code, modifiers)
        \/ \E f \in Fingers : \/ \E place \in Places, p \in Points : TouchStart(f, place, p)
                              \/ \E q \in Points : TouchEnd(f, q)
                              \/ TouchCancel(f)
        \/ Redraw
        \/ TapClick
        \/ \E place \in Places : MouseClick(place)

Spec == Init /\ [][Next]_vars

-----------------------------------------------------------------------------
(* Properties *)

Directions == 0 .. 3

(* Every variable has its type, and nothing but moves in the four directions
   and the two other events is ever emitted. *)
TypeOK == /\ on \in [Fingers -> Places \cup {"air", "gone"}]
          /\ from \in [Fingers -> Points \cup {Undefined}]
          /\ prevented \in [Fingers -> BOOLEAN]
          /\ start \in Points \cup {Undefined}
          /\ click \in Places \cup {"none"}
          /\ emitted \in Seq({Move(d) : d \in Directions} \cup {Restart, KeepPlaying})
          /\ gesture \in [touches : 0 .. MaxTouches, began : Points \cup {Undefined}, moves : Nat, presses : Nat, fired : Nat]

(* How far a finger went in a direction. *)
Along(d, p, q) == CASE d = 0 -> p[2] - q[2]
                    [] d = 1 -> q[1] - p[1]
                    [] d = 2 -> q[2] - p[2]
                    [] d = 3 -> p[1] - q[1]

(* What a way from p to q tells: farther than ten, and then in a direction no
   shorter than in any other. *)
Told(moves, p, q) ==
    IF \E d \in Directions : Along(d, p, q) > 10
    THEN \E d \in Directions : /\ moves = <<Move(d)>>
                              /\ \A e \in Directions : Along(d, p, q) >= Along(e, p, q)
    ELSE moves = <<>>

Moves == {<<>>} \cup {<<Move(d)>> : d \in Directions}

(* A gesture that begins in the container moves the tiles the way from where its
   first finger came down to where its last one goes up, whatever fingers join
   and leave in between and whatever start an earlier gesture left behind,
   and besides what a button under the last finger does.  Not if a redraw has
   taken the tile under that finger away: its end then reaches nobody. *)
SwipeIsHonest ==
    [][\A f \in Fingers, q \in Points :
           TouchEnd(f, q) /\ on[f] \in InContainer /\ Others(f) = {} /\ gesture.began # Undefined
           => \E moves \in Moves : /\ emitted' = press(on[f]).emits \o moves
                                  /\ Told(moves, gesture.began, q)]_vars

(* However many fingers take part in a gesture, in whatever order they come and
   go, it moves the tiles once at most, and not before the last finger is up. *)
OneMovePerGesture == /\ gesture.moves <= 1
                     /\ gesture.moves = 1 => \A f \in Fingers : Up(f)

(* A press on a button counts once, whether the browser clicks after the touch
   or not. *)
OneEventPerPress == gesture.fired = gesture.presses
=============================================================================
