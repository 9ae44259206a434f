----------------------------- MODULE InputProofs -----------------------------
(***************************************************************************)
(* What keys, fingers and clicks make of the game, for any number of       *)
(* fingers, anywhere on the page, and gestures of any length.              *)
(***************************************************************************)
EXTENDS Input2048, TLAPS, SequenceTheorems

Events == {Move(d) : d \in Directions} \cup {Restart, KeepPlaying}

Gestures == [touches : 0 .. MaxTouches, began : Points \cup {Undefined},
             moves : Nat, presses : Nat, fired : Nat]

(* A finger that is down was put down somewhere. *)
FingerTypes == /\ on \in [Fingers -> Places \cup {"air", "gone"}]
               /\ from \in [Fingers -> Points \cup {Undefined}]
               /\ \A f \in Fingers : ~Up(f) => from[f] \in Points
               /\ prevented \in [Fingers -> BOOLEAN]
               /\ start \in Points \cup {Undefined}

(* Nothing that has a handler of its own waits to be clicked. *)
OtherTypes == /\ click \in (Places \ Buttons) \cup {"none"}
              /\ emitted \in Seq(Events)
              /\ gesture \in Gestures

Types == FingerTypes /\ OtherTypes

(* A gesture has a touch at least; the tile that a single touch has lost was
   touched in the container, and the browser knows. *)
Alone == /\ \A f \in Fingers : ~Up(f) => gesture.touches >= 1
         /\ gesture.touches = 1 =>
               /\ \A f, g \in Fingers : ~Up(f) /\ ~Up(g) => f = g
               /\ \A f \in Fingers : on[f] \in InContainer \cup {"gone"} => prevented[f]

(* The start is where the gesture began, if it began in the container. *)
Started == gesture.began # Undefined => start = gesture.began

IInv == Types /\ Alone /\ Started /\ OneMovePerGesture /\ OneEventPerPress

-----------------------------------------------------------------------------
(* What the handlers emit *)

(* A button emits one event and keeps the browser from clicking, anything else
   does neither. *)
LEMMA PressEmits ==
  ASSUME NEW place \in Places
  PROVE  /\ press(place).emits \in Seq(Events)
         /\ place \in Buttons => Len(press(place).emits) = 1 /\ press(place).prevents
         /\ place \notin Buttons => press(place).emits = <<>> /\ Len(press(place).emits) = 0
  <1>1. press(place).prevents <=> place \in Buttons
    BY DEF press
  <1>2. CASE place \in Buttons
    <2>1. press(place).emits = <<Restart>> \/ press(place).emits = <<KeepPlaying>>
      BY <1>2 DEF press, Buttons
    <2>2. <<Restart>> \in Seq(Events) /\ <<KeepPlaying>> \in Seq(Events)
      BY DEF Events
    <2> QED BY <1>1, <1>2, <2>1, <2>2
  <1>3. CASE place \notin Buttons
    <2>1. press(place).emits = <<>>
      BY <1>3 DEF press, Buttons
    <2> QED BY <1>3, <2>1, EmptySeq
  <1> QED BY <1>2, <1>3

(* A swipe emits at most one move. *)
LEMMA SwipeEmits ==
  ASSUME NEW p \in Points \cup {Undefined}, NEW q \in Points
  PROVE  swipe(p, q) \in Seq(Events) /\ Len(swipe(p, q)) \in {0, 1}
  <1>1. \A d \in Directions : <<Move(d)>> \in Seq(Events) /\ Len(<<Move(d)>>) = 1
    BY DEF Events
  <1>2. swipe(p, q) \in {<<>>} \cup {<<Move(d)>> : d \in Directions}
    BY DEF swipe, Directions
  <1>3. CASE swipe(p, q) = <<>>
    BY <1>3, EmptySeq
  <1>4. CASE \E d \in Directions : swipe(p, q) = <<Move(d)>>
    BY <1>1, <1>4
  <1> QED BY <1>2, <1>3, <1>4

(* A swipe from the start that the finger had tells which way it went. *)
LEMMA SwipeTells ==
  ASSUME NEW p \in Points, NEW q \in Points
  PROVE  Told(swipe(p, q), p, q)
  <1>1. p[1] \in Int /\ p[2] \in Int /\ q[1] \in Int /\ q[2] \in Int /\ p # Undefined
    BY PointsAssumption, UndefinedAssumption
  <1> DEFINE dx == q[1] - p[1]
  <1> DEFINE dy == q[2] - p[2]
  <1>2. dx \in Int /\ dy \in Int
    BY <1>1
  <1>3. /\ Along(0, p, q) = -dy /\ Along(1, p, q) = dx
        /\ Along(2, p, q) = dy /\ Along(3, p, q) = -dx
    BY <1>1 DEF Along
  <1>4. swipe(p, q) = IF Abs(dx) <= 10 /\ Abs(dy) <= 10 THEN <<>>
                      ELSE IF Abs(dx) > Abs(dy) THEN (IF dx > 0 THEN <<Move(1)>> ELSE <<Move(3)>>)
                      ELSE IF dy > 0 THEN <<Move(2)>> ELSE <<Move(0)>>
    BY <1>1 DEF swipe
  <1>5. /\ Abs(dx) = (IF dx < 0 THEN -dx ELSE dx)
        /\ Abs(dy) = (IF dy < 0 THEN -dy ELSE dy)
    BY DEF Abs
  <1> HIDE DEF dx, dy
  <1>6. Directions = {0, 1, 2, 3}
    BY DEF Directions
  <1>7. (\E d \in Directions : Along(d, p, q) > 10) <=> ~(Abs(dx) <= 10 /\ Abs(dy) <= 10)
    BY <1>2, <1>3, <1>5, <1>6
  <1>8. ASSUME ~(Abs(dx) <= 10 /\ Abs(dy) <= 10)
        PROVE  \E d \in Directions : /\ swipe(p, q) = <<Move(d)>>
                                     /\ \A e \in Directions : Along(d, p, q) >= Along(e, p, q)
    <2>1. CASE Abs(dx) > Abs(dy) /\ dx > 0
      BY <1>2, <1>3, <1>4, <1>5, <1>6, <1>8, <2>1
    <2>2. CASE Abs(dx) > Abs(dy) /\ ~(dx > 0)
      BY <1>2, <1>3, <1>4, <1>5, <1>6, <1>8, <2>2
    <2>3. CASE ~(Abs(dx) > Abs(dy)) /\ dy > 0
      BY <1>2, <1>3, <1>4, <1>5, <1>6, <1>8, <2>3
    <2>4. CASE ~(Abs(dx) > Abs(dy)) /\ ~(dy > 0)
      BY <1>2, <1>3, <1>4, <1>5, <1>6, <1>8, <2>4
    <2> QED BY <2>1, <2>2, <2>3, <2>4
  <1>9. (Abs(dx) <= 10 /\ Abs(dy) <= 10) => swipe(p, q) = <<>>
    BY <1>4
  <1> QED BY <1>7, <1>8, <1>9 DEF Told

-----------------------------------------------------------------------------
(* The invariant *)

(* The page starts untouched. *)
LEMMA InitInv == Init => IInv
  <1> SUFFICES ASSUME Init PROVE IInv
    OBVIOUS
  <1>1. on = [f \in Fingers |-> "air"] /\ \A f \in Fingers : Up(f)
    BY DEF Init, Up
  <1>2. prevented \in [Fingers -> BOOLEAN]
    BY Zenon DEF Init
  <1>3. Types
    BY <1>1, <1>2, EmptySeq, BoundAssumption
    DEF Init, Types, FingerTypes, OtherTypes, NoGesture, Gestures
  <1>4. Alone /\ Started /\ OneMovePerGesture /\ OneEventPerPress
    BY <1>1 DEF Init, Alone, Started, OneMovePerGesture, OneEventPerPress, NoGesture
  <1> QED BY <1>3, <1>4 DEF IInv

(* The history starts anew with the first finger. *)
LEMMA TouchedIs ==
  ASSUME IInv, NEW f \in Fingers, NEW place \in Places, NEW p \in Points, Up(f),
         Touched(f, place, p).touches <= MaxTouches
  PROVE  LET t == Touched(f, place, p) IN
         /\ t \in Gestures
         /\ t.moves = 0
         /\ t.fired = t.presses
         /\ t.touches >= 1
         /\ t.touches = 1 <=> Others(f) = {}
         /\ t.began = IF Others(f) # {} THEN gesture.began
                      ELSE IF place \in InContainer THEN p ELSE Undefined
  <1> DEFINE t == Touched(f, place, p)
  <1>0. gesture \in Gestures /\ MaxTouches \in Nat
    BY BoundAssumption DEF IInv, Types, OtherTypes
  <1>1. CASE Others(f) = {}
    <2>1. t = [touches |-> 1, began |-> IF place \in InContainer THEN p ELSE Undefined,
               moves |-> 0, presses |-> 0, fired |-> 0]
      BY <1>1 DEF Touched, NoGesture
    <2> QED BY <1>0, <1>1, <2>1 DEF Gestures
  <1>2. CASE Others(f) # {}
    <2>1. PICK g \in Fingers : ~Up(g)
      BY <1>2 DEF Others
    <2>2. gesture.touches >= 1 /\ gesture.moves = 0
      BY <1>0, <2>1 DEF IInv, Alone, OneMovePerGesture, Gestures
    <2>3. t = [gesture EXCEPT !.touches = @ + 1]
      BY <1>2 DEF Touched
    <2> QED BY <1>0, <1>2, <2>2, <2>3 DEF IInv, OneEventPerPress, Gestures
  <1> QED BY <1>1, <1>2

(* A finger comes down. *)
LEMMA TouchStartInv ==
  ASSUME IInv, NEW f \in Fingers, NEW place \in Places, NEW p \in Points, TouchStart(f, place, p)
  PROVE  IInv'
  <1> DEFINE h == heard(f, place)
  <1>0. /\ Up(f) /\ gesture' = Touched(f, place, p) /\ Touched(f, place, p).touches <= MaxTouches
        /\ on' = [on EXCEPT ![f] = place] /\ from' = [from EXCEPT ![f] = p]
        /\ start' = (IF h THEN p ELSE start) /\ prevented' = [prevented EXCEPT ![f] = h]
        /\ click' = "none" /\ emitted' = <<>>
    BY DEF TouchStart
  <1>1. h \in BOOLEAN
    BY DEF heard
  <1>h. h <=> place \in InContainer /\ Others(f) = {}
    BY DEF heard
  <1> HIDE DEF h
  <1>t. FingerTypes
    BY DEF IInv, Types
  <1>2. FingerTypes'
    <2>1. prevented' \in [Fingers -> BOOLEAN]
      BY <1>0, <1>1, <1>t, Zenon DEF FingerTypes
    <2>2. start' \in Points \cup {Undefined}
      BY <1>0, <1>t DEF FingerTypes
    <2> QED BY <1>0, <1>t, <2>1, <2>2 DEF FingerTypes, Up
  <1>3. /\ gesture' \in Gestures
        /\ gesture'.moves = 0 /\ gesture'.fired = gesture'.presses /\ gesture'.touches >= 1
        /\ gesture'.touches = 1 <=> Others(f) = {}
        /\ gesture'.began = IF Others(f) # {} THEN gesture.began
                            ELSE IF place \in InContainer THEN p ELSE Undefined
    BY <1>0, TouchedIs
  <1>4. OtherTypes' /\ OneMovePerGesture' /\ OneEventPerPress'
    BY <1>0, <1>3, EmptySeq DEF OtherTypes, OneMovePerGesture, OneEventPerPress
  <1>5. ASSUME gesture'.touches = 1
        PROVE  /\ \A g \in Fingers \ {f} : on'[g] = "air"
               /\ on'[f] = place /\ (place \in InContainer => prevented'[f])
    <2>1. Others(f) = {}
      BY <1>3, <1>5
    <2>2. prevented'[f] = h
      BY <1>0, <1>t, Zenon DEF FingerTypes
    <2> QED BY <1>0, <1>h, <1>t, <2>1, <2>2 DEF FingerTypes, Others, Up
  <1>6. Alone'
    <2>1. place # "gone" /\ "air" \notin InContainer \cup {"gone"}
      BY DEF Places, InContainer
    <2> QED BY <1>3, <1>5, <2>1 DEF Alone, Up
  <1>7. Started'
    BY <1>0, <1>3, <1>h DEF IInv, Started
  <1> QED BY <1>2, <1>4, <1>6, <1>7 DEF IInv, Types

(* A finger goes up or is cancelled: where the others are stays. *)
LEMMA LiftInv ==
  ASSUME IInv, NEW f \in Fingers, Lift(f),
         gesture'.touches = gesture.touches, gesture'.began = gesture.began
  PROVE  FingerTypes' /\ Alone' /\ Started'
  <1>t. FingerTypes
    BY DEF IInv, Types
  <1>0. /\ on' = [on EXCEPT ![f] = "air"] /\ from' = [from EXCEPT ![f] = Undefined]
        /\ prevented' = [prevented EXCEPT ![f] = FALSE] /\ start' = start
    BY DEF Lift
  <1>1. prevented' \in [Fingers -> BOOLEAN]
    BY <1>0, <1>t, Zenon DEF FingerTypes
  <1>2. \A g \in Fingers : /\ Up(g)' <=> Up(g) \/ g = f
                           /\ ~Up(g)' => on'[g] = on[g] /\ from'[g] = from[g]
    BY <1>0, <1>t DEF FingerTypes, Up
  <1>3. FingerTypes'
    BY <1>0, <1>1, <1>2, <1>t DEF FingerTypes
  <1>4. \A g \in Fingers : on'[g] \in InContainer \cup {"gone"} => ~Up(g)' /\ g # f
    BY <1>0, <1>t DEF Up, InContainer, FingerTypes
  <1>5. \A g \in Fingers \ {f} : prevented'[g] = prevented[g]
    BY <1>0, <1>t, Zenon DEF FingerTypes
  <1>6. Alone'
    BY <1>0, <1>2, <1>4, <1>5 DEF IInv, Alone
  <1> QED BY <1>0, <1>3, <1>6 DEF IInv, Started

(* A finger goes up. *)
LEMMA TouchEndInv ==
  ASSUME IInv, NEW f \in Fingers, NEW q \in Points, TouchEnd(f, q)
  PROVE  IInv'
  <1> DEFINE button == press(on[f]).emits
  <1> DEFINE swiped == containerEnds(f, q)
  <1>0. /\ ~Up(f) /\ emitted' = button \o swiped /\ Lift(f)
        /\ click' = (IF Tap(f, q) /\ ~prevented[f] /\ ~press(on[f]).prevents THEN on[f] ELSE "none")
        /\ gesture' = [gesture EXCEPT !.moves = @ + Len(swiped),
                                      !.presses = @ + IF on[f] \in Buttons THEN 1 ELSE 0,
                                      !.fired = @ + Len(button)]
    BY DEF TouchEnd
  <1>t. /\ gesture \in Gestures
        /\ on[f] \in Places \cup {"gone"} /\ start \in Points \cup {Undefined}
        /\ on \in [Fingers -> Places \cup {"air", "gone"}]
    BY <1>0 DEF IInv, Types, OtherTypes, FingerTypes, Up
  <1>1. /\ button \in Seq(Events)
        /\ on[f] \in Buttons => Len(button) = 1 /\ press(on[f]).prevents
        /\ on[f] \notin Buttons => Len(button) = 0
    <2>1. press("gone").emits = <<>> /\ "gone" \notin Buttons
      BY DEF press, Buttons
    <2> QED BY <1>t, <2>1, PressEmits, EmptySeq
  <1>2. swiped \in Seq(Events) /\ Len(swiped) \in {0, 1} /\ (Others(f) # {} => Len(swiped) = 0)
    BY <1>t, SwipeEmits, EmptySeq DEF containerEnds
  <1> HIDE DEF button, swiped
  <1>3. /\ gesture' \in Gestures
        /\ gesture'.touches = gesture.touches /\ gesture'.began = gesture.began
        /\ gesture'.moves = gesture.moves + Len(swiped)
        /\ gesture'.fired - gesture'.presses = gesture.fired - gesture.presses
    <2> DEFINE pressed == IF on[f] \in Buttons THEN 1 ELSE 0
    <2>1. pressed \in Nat /\ Len(button) = pressed
      BY <1>1
    <2>2. gesture' = [gesture EXCEPT !.moves = @ + Len(swiped), !.presses = @ + pressed,
                                     !.fired = @ + pressed]
      BY <1>0, <2>1
    <2>3. Len(swiped) \in Nat
      BY <1>2
    <2> HIDE DEF pressed
    <2>4. gesture' = [touches |-> gesture.touches, began |-> gesture.began,
                      moves |-> gesture.moves + Len(swiped), presses |-> gesture.presses + pressed, fired |-> gesture.fired + pressed]
      BY <1>t, <2>2 DEF Gestures
    <2>5. /\ gesture.touches \in 0 .. MaxTouches /\ gesture.began \in Points \cup {Undefined}
          /\ gesture.moves \in Nat
          /\ gesture.presses \in Nat /\ gesture.fired \in Nat
      BY <1>t DEF Gestures
    <2> QED BY <2>1, <2>3, <2>4, <2>5 DEF Gestures
  <1>4. OtherTypes'
    <2>1. emitted' \in Seq(Events)
      BY <1>0, <1>1, <1>2, ConcatProperties
    <2>2. click' \in (Places \ Buttons) \cup {"none"}
      <3>1. CASE on[f] = "gone"
        <4>1. Tap(f, q) => prevented[f]
          BY <3>1 DEF Tap, IInv, Alone
        <4> QED BY <1>0, <4>1
      <3>2. CASE on[f] \in Places
        BY <1>0, <1>1, <3>2
      <3> QED BY <1>t, <3>1, <3>2
    <2> QED BY <1>3, <2>1, <2>2 DEF OtherTypes
  <1>5. FingerTypes' /\ Alone' /\ Started'
    BY <1>0, <1>3, LiftInv
  <1>6. OneEventPerPress'
    BY <1>3, <1>t DEF IInv, OneEventPerPress, Gestures
  <1>7. OneMovePerGesture'
    <2>1. gesture.moves = 0
      BY <1>0, <1>t DEF IInv, OneMovePerGesture, Gestures
    <2>2. Others(f) = {} => \A g \in Fingers : on'[g] = "air"
      BY <1>0, <1>t DEF Others, Lift, Up
    <2>3. gesture'.moves = Len(swiped)
      BY <1>2, <1>3, <2>1
    <2>4. CASE Others(f) = {}
      <3>1. gesture'.moves <= 1
        <4>1. gesture'.moves \in {0, 1}
          BY <1>2, <2>3, Zenon
        <4> QED BY <4>1
      <3>2. \A g \in Fingers : Up(g)'
        BY <2>2, <2>4 DEF Up
      <3> QED BY <3>1, <3>2 DEF OneMovePerGesture
    <2>5. CASE Others(f) # {}
      <3>1. gesture'.moves = 0
        BY <1>2, <2>3, <2>5
      <3> QED BY <3>1 DEF OneMovePerGesture
    <2> QED BY <2>4, <2>5
  <1> QED BY <1>4, <1>5, <1>6, <1>7 DEF IInv, Types

(* The tiles under the fingers leave the page: the fingers stay down. *)
LEMMA RedrawInv ==
  ASSUME IInv, Redraw
  PROVE  IInv'
  <1>0. /\ on' = [f \in Fingers |-> IF on[f] = "tile" THEN "gone" ELSE on[f]]
        /\ emitted' = <<>> /\ UNCHANGED <<from, prevented, start, click, gesture>>
    BY DEF Redraw
  <1>1. \A f \in Fingers : /\ Up(f)' <=> Up(f)
                           /\ on'[f] \in InContainer \cup {"gone"} => on[f] \in InContainer \cup {"gone"}
    BY <1>0 DEF Up, InContainer
  <1>2. FingerTypes'
    BY <1>0, <1>1 DEF IInv, Types, FingerTypes
  <1>3. OtherTypes'
    BY <1>0, EmptySeq DEF IInv, Types, OtherTypes
  <1>4. Alone'
    BY <1>0, <1>1 DEF IInv, Alone
  <1>5. Started' /\ OneMovePerGesture' /\ OneEventPerPress'
    BY <1>0, <1>1 DEF IInv, Started, OneMovePerGesture, OneEventPerPress
  <1> QED BY <1>2, <1>3, <1>4, <1>5 DEF IInv, Types

(* The direction of a key is one of the four. *)
LEMMA KeyEmits ==
  ASSUME NEW code \in Keys, NEW modifiers \in BOOLEAN, Key(code, modifiers)
  PROVE  emitted' \in Seq(Events)
  <1>1. map(code) # Undefined => map(code) \in Directions
    BY DEF map, Directions
  <1>2. map(code) # Undefined => <<Move(map(code))>> \in Seq(Events)
    BY <1>1 DEF Events
  <1>3. <<Restart>> \in Seq(Events) /\ <<>> \in Seq(Events)
    BY DEF Events
  <1> QED BY <1>2, <1>3 DEF Key

(* Every step keeps the invariant. *)
LEMMA NextInv == ASSUME IInv, [Next]_vars PROVE IInv'
  <1> USE DEF IInv, Types
  <1>1. ASSUME UNCHANGED <<touchVars, click, gesture>>, emitted' \in Seq(Events) PROVE IInv'
    BY <1>1 DEF touchVars, FingerTypes, OtherTypes, Alone, Started, Up, OneMovePerGesture, OneEventPerPress
  <1>2. ASSUME NEW code \in Keys, NEW modifiers \in BOOLEAN, Key(code, modifiers) PROVE IInv'
    BY <1>1, <1>2, KeyEmits DEF Key
  <1>3. ASSUME NEW place \in Places, MouseClick(place) PROVE IInv'
    BY <1>1, <1>3, PressEmits DEF MouseClick
  <1>4. CASE UNCHANGED vars
    BY <1>1, <1>4 DEF vars, touchVars, OtherTypes
  <1>5. ASSUME NEW f \in Fingers, TouchCancel(f) PROVE IInv'
    <2>1. FingerTypes' /\ Alone' /\ Started'
      BY <1>5, LiftInv DEF TouchCancel
    <2>2. \A g \in Fingers : Up(g) => Up(g)'
      BY <1>5 DEF TouchCancel, Lift, Up, FingerTypes
    <2> QED BY <1>5, <2>1, <2>2, EmptySeq DEF TouchCancel, OtherTypes, OneMovePerGesture, OneEventPerPress
  <1>6. CASE TapClick
    <2>1. click \in Places /\ click \notin Buttons /\ press(click).emits = <<>> /\ Len(press(click).emits) = 0
      BY <1>6, PressEmits DEF TapClick, OtherTypes
    <2>2. gesture' = gesture
      <3>1. gesture \in Gestures /\ gesture' = [gesture EXCEPT !.fired = @ + 0]
        BY <1>6, <2>1 DEF TapClick, OtherTypes
      <3> QED BY <3>1 DEF Gestures
    <2>3. click' = "none" /\ emitted' = <<>> /\ UNCHANGED touchVars
      BY <1>6, <2>1 DEF TapClick
    <2> QED BY <2>2, <2>3, EmptySeq DEF touchVars, FingerTypes, OtherTypes, Alone, Started, Up,
            OneMovePerGesture, OneEventPerPress
  <1>7. CASE Redraw
    BY <1>7, RedrawInv
  <1> QED BY <1>2, <1>3, <1>4, <1>5, <1>6, <1>7, TouchStartInv, TouchEndInv DEF Next

-----------------------------------------------------------------------------
(* Theorems *)

(* The invariant, from which the others follow. *)
THEOREM Invariant == Spec => []IInv
  BY InitInv, NextInv, PTL DEF Spec

(* Type correctness: only moves in the four directions, restart and
   keepPlaying are ever emitted. *)
THEOREM TypeCorrect == Spec => []TypeOK
  <1>1. IInv => TypeOK
    BY DEF IInv, Types, FingerTypes, OtherTypes, TypeOK, Events, Gestures
  <1> QED BY <1>1, Invariant, PTL

(* However many fingers take part, a gesture moves the tiles once at most. *)
THEOREM OneMove == Spec => []OneMovePerGesture
  BY Invariant, PTL DEF IInv

(* A press counts once, although both its touch and its click are heard. *)
THEOREM OneEvent == Spec => []OneEventPerPress
  BY Invariant, PTL DEF IInv

(* A gesture that began in the container moves the tiles the way from where it
   began to where it ends, whatever stale start an earlier one has left and
   whatever fingers joined, unless a redraw took the tile under its last finger
   away. *)
THEOREM HonestSwipe == Spec => SwipeIsHonest
  <1>1. ASSUME IInv, NEW f \in Fingers, NEW q \in Points,
               TouchEnd(f, q), on[f] \in InContainer, Others(f) = {}, gesture.began # Undefined
        PROVE  \E moves \in Moves : /\ emitted' = press(on[f]).emits \o moves
                                    /\ Told(moves, gesture.began, q)
    <2>1. start = gesture.began /\ gesture.began \in Points
      BY <1>1 DEF IInv, Types, OtherTypes, Started, Gestures
    <2>2. containerEnds(f, q) = swipe(gesture.began, q)
      BY <1>1, <2>1 DEF containerEnds
    <2>3. emitted' = press(on[f]).emits \o swipe(gesture.began, q)
      BY <1>1, <2>2 DEF TouchEnd
    <2>4. swipe(gesture.began, q) \in Moves
      BY DEF swipe, Moves, Directions
    <2>5. Told(swipe(gesture.began, q), gesture.began, q)
      BY <2>1, SwipeTells
    <2> QED BY <2>3, <2>4, <2>5
  <1> DEFINE Step == \A f \in Fingers, q \in Points :
                        TouchEnd(f, q) /\ on[f] \in InContainer /\ Others(f) = {} /\ gesture.began # Undefined
                        => \E moves \in Moves : /\ emitted' = press(on[f]).emits \o moves
                                               /\ Told(moves, gesture.began, q)
  <1>2. IInv => [Step]_vars
    BY <1>1
  <1> HIDE DEF Step
  <1>3. Spec => [][Step]_vars
    BY <1>2, Invariant, PTL
  <1> QED BY <1>3 DEF SwipeIsHonest, Step
=============================================================================
