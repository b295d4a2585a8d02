--------------------------- MODULE Movement_proofs --------------------------
(***************************************************************************)
(* What Movement promises for every world, number of players and bullets:  *)
(* walls hold, bullets that are fired clear of the bounding walls stay     *)
(* inside, and a player's velocity on the server is what its client last   *)
(* chose, or zero for a reason.  The geometry comes first, then one        *)
(* inductive invariant.                                                    *)
(***************************************************************************)
EXTENDS Movement, SequenceTheorems, TLAPS

(* The velocities that keys make, and those of bullets.                     *)
PlayerVelocities == [x : -PlayerSpeed .. PlayerSpeed, y : -PlayerSpeed .. PlayerSpeed]
BulletVelocities ==
  {v \in [x : -BulletSpeed .. BulletSpeed, y : -BulletSpeed .. BulletSpeed] :
     v.x = 0 \/ v.y = 0}

-----------------------------------------------------------------------------
(* Arithmetic.                                                              *)
LEMMA Constants ==
  /\ Width \in Nat /\ Height \in Nat
  /\ PlayerRadius \in Nat /\ PlayerSpeed \in Nat
  /\ BulletRadius \in Nat /\ BulletSpeed \in Nat
  /\ MaxDt \in Nat /\ MaxLost \in Nat
  /\ Spawn \in Vector /\ Inside(Spawn) /\ ~Blocked(Spawn, PlayerRadius)
  /\ 2 * (MaxDt * PlayerSpeed) <= 3 * PlayerRadius
  /\ Aims \subseteq {v \in [x : -1 .. 1, y : -1 .. 1] : v.x = 0 \/ v.y = 0}
BY MovementAssumption

LEMMA ProductBound ==
  ASSUME NEW T \in Nat, NEW S \in Nat, NEW t \in 0 .. T, NEW s \in -S .. S
  PROVE  t * s \in -(T * S) .. (T * S)
<1>1. t * s \in Int /\ T * S \in Int /\ t * S \in Int
  OBVIOUS
<1>2. t * s <= t * S /\ t * (-s) <= t * S
  OBVIOUS
<1>3. t * S <= T * S
  OBVIOUS
<1>4. t * (-s) = -(t * s)
  OBVIOUS
<1>5. QED
  BY <1>1, <1>2, <1>3, <1>4

LEMMA SquareBound ==
  ASSUME NEW a \in Nat, NEW r \in Nat, a <= r
  PROVE  a * a <= r * r
OBVIOUS

LEMMA HalvesBound ==
  ASSUME NEW a \in Nat, NEW b \in Nat, NEW r \in Nat, 2 * a <= r, 2 * b <= r
  PROVE  a * a + b * b <= r * r
<1>1. (2 * a) * (2 * a) <= r * r /\ (2 * b) * (2 * b) <= r * r
  BY SquareBound
<1>2. QED
  BY <1>1

-----------------------------------------------------------------------------
(* Geometry.                                                                *)
LEMMA BeyondFacts ==
  ASSUME NEW c \in Int, NEW hi \in Nat
  PROVE  /\ Beyond(c, 0, hi) \in Nat
         /\ c \in 0 .. hi <=> Beyond(c, 0, hi) = 0
         /\ c < 0 => Beyond(c, 0, hi) = -c /\ Beyond(c, 0, 0) = -c
         /\ c > hi => Beyond(c, 0, hi) = c - hi /\ Beyond(c, hi, hi) = c - hi
         /\ c \in 0 .. hi => Beyond(c, 0, 0) = c /\ Beyond(c, hi, hi) = hi - c
BY DEF Beyond

(* Someone at least m inside of a bound is, a step of at most s later, at   *)
(* most s - m beyond it.                                                    *)
LEMMA BeyondStep ==
  ASSUME NEW c \in Int, NEW hi \in Nat, NEW m \in Nat, m <= c, m <= hi - c,
         NEW s \in Nat, NEW k \in -s .. s
  PROVE  /\ Beyond(c + k, 0, hi) \in Nat
         /\ Beyond(c + k, 0, hi) = 0 \/ Beyond(c + k, 0, hi) + m <= s
BY DEF Beyond

(* What touches no wall touches no bounding wall.                           *)
LEMMA BoundingWallsBlock ==
  ASSUME NEW at, NEW r, ~Blocked(at, r)
  PROVE  ~AtBound(at, r)
BY DEF Blocked, AtBound, Walls

(* A circle that touches no bounding wall and whose centre is not farther   *)
(* outside of the world than its radius is inside.                          *)
LEMMA Caught ==
  ASSUME NEW at \in Vector, NEW r \in Nat, ~AtBound(at, r),
         Beyond(at.x, 0, Width) * Beyond(at.x, 0, Width)
           + Beyond(at.y, 0, Height) * Beyond(at.y, 0, Height) <= r * r
  PROVE  Inside(at)
<1> USE Constants DEF Vector
<1>1. ASSUME NEW w \in BoundingWalls
      PROVE  ~CheckCollisionCircleLine(at, r, w)
  BY <1>1 DEF AtBound
<1>2. at.x >= 0
  <2>1. ~CheckCollisionCircleLine(at, r, [x1 |-> 0, y1 |-> 0, x2 |-> 0, y2 |-> Height])
    BY <1>1 DEF BoundingWalls
  <2>2. QED
    BY <2>1, BeyondFacts DEF CheckCollisionCircleLine
<1>3. at.x <= Width
  <2>1. ~CheckCollisionCircleLine(at, r,
           [x1 |-> Width, y1 |-> 0, x2 |-> Width, y2 |-> Height])
    BY <1>1 DEF BoundingWalls
  <2>2. QED
    BY <2>1, BeyondFacts DEF CheckCollisionCircleLine
<1>4. at.y >= 0
  <2>1. ~CheckCollisionCircleLine(at, r, [x1 |-> 0, y1 |-> 0, x2 |-> Width, y2 |-> 0])
    BY <1>1 DEF BoundingWalls
  <2>2. QED
    BY <2>1, BeyondFacts DEF CheckCollisionCircleLine
<1>5. at.y <= Height
  <2>1. ~CheckCollisionCircleLine(at, r,
           [x1 |-> 0, y1 |-> Height, x2 |-> Width, y2 |-> Height])
    BY <1>1 DEF BoundingWalls
  <2>2. QED
    BY <2>1, BeyondFacts DEF CheckCollisionCircleLine
<1>6. QED
  BY <1>2, <1>3, <1>4, <1>5 DEF Inside

(* A circle inside that touches no bounding wall is its radius away from    *)
(* the bounds.                                                              *)
LEMMA Margins ==
  ASSUME NEW at \in Vector, NEW r \in Nat, Inside(at), ~AtBound(at, r)
  PROVE  r < at.x /\ r < Width - at.x /\ r < at.y /\ r < Height - at.y
<1> USE Constants DEF Vector, Inside
<1>1. ASSUME NEW w \in BoundingWalls
      PROVE  ~CheckCollisionCircleLine(at, r, w)
  BY <1>1 DEF AtBound
<1>2. r < at.x
  <2>1. ~CheckCollisionCircleLine(at, r, [x1 |-> 0, y1 |-> 0, x2 |-> 0, y2 |-> Height])
    BY <1>1 DEF BoundingWalls
  <2>2. Beyond(at.x, 0, 0) = at.x /\ Beyond(at.y, 0, Height) = 0
    BY BeyondFacts
  <2>3. ~(at.x * at.x + 0 * 0 <= r * r)
    BY <2>1, <2>2 DEF CheckCollisionCircleLine
  <2>4. ~(at.x * at.x <= r * r)
    BY <2>3
  <2>5. QED
    BY <2>4, SquareBound
<1>3. r < Width - at.x
  <2>1. ~CheckCollisionCircleLine(at, r,
           [x1 |-> Width, y1 |-> 0, x2 |-> Width, y2 |-> Height])
    BY <1>1 DEF BoundingWalls
  <2>2. Beyond(at.x, Width, Width) = Width - at.x /\ Beyond(at.y, 0, Height) = 0
    BY BeyondFacts
  <2>3. ~((Width - at.x) * (Width - at.x) + 0 * 0 <= r * r)
    BY <2>1, <2>2 DEF CheckCollisionCircleLine
  <2>4. ~((Width - at.x) * (Width - at.x) <= r * r)
    BY <2>3
  <2>5. QED
    BY <2>4, SquareBound
<1>4. r < at.y
  <2>1. ~CheckCollisionCircleLine(at, r, [x1 |-> 0, y1 |-> 0, x2 |-> Width, y2 |-> 0])
    BY <1>1 DEF BoundingWalls
  <2>2. Beyond(at.y, 0, 0) = at.y /\ Beyond(at.x, 0, Width) = 0
    BY BeyondFacts
  <2>3. ~(at.y * at.y + 0 * 0 <= r * r)
    BY <2>1, <2>2 DEF CheckCollisionCircleLine
  <2>4. ~(at.y * at.y <= r * r)
    BY <2>3
  <2>5. QED
    BY <2>4, SquareBound
<1>5. r < Height - at.y
  <2>1. ~CheckCollisionCircleLine(at, r,
           [x1 |-> 0, y1 |-> Height, x2 |-> Width, y2 |-> Height])
    BY <1>1 DEF BoundingWalls
  <2>2. Beyond(at.y, Height, Height) = Height - at.y /\ Beyond(at.x, 0, Width) = 0
    BY BeyondFacts
  <2>3. ~((Height - at.y) * (Height - at.y) + 0 * 0 <= r * r)
    BY <2>1, <2>2 DEF CheckCollisionCircleLine
  <2>4. ~((Height - at.y) * (Height - at.y) <= r * r)
    BY <2>3
  <2>5. QED
    BY <2>4, SquareBound
<1>6. QED
  BY <1>2, <1>3, <1>4, <1>5

(* A player's step from inside cannot end outside without touching a wall.  *)
LEMMA PlayerStep ==
  ASSUME NEW at \in Vector, Inside(at), ~Blocked(at, PlayerRadius),
         NEW v \in PlayerVelocities, NEW t \in 0 .. MaxDt,
         ~Blocked(GetNextPosition(at, v, t), PlayerRadius)
  PROVE  Inside(GetNextPosition(at, v, t))
<1> DEFINE next == GetNextPosition(at, v, t)
           a == Beyond(next.x, 0, Width)
           b == Beyond(next.y, 0, Height)
           s == MaxDt * PlayerSpeed
<1> USE Constants
<1>1. t * v.x \in -s .. s /\ t * v.y \in -s .. s
  BY ProductBound DEF PlayerVelocities
<1>2. s \in Nat /\ 2 * s <= 3 * PlayerRadius
  OBVIOUS
<1>3. next \in Vector /\ next.x = at.x + t * v.x /\ next.y = at.y + t * v.y
  BY <1>1, <1>2 DEF GetNextPosition, Vector
<1>4. /\ PlayerRadius < at.x /\ PlayerRadius < Width - at.x
      /\ PlayerRadius < at.y /\ PlayerRadius < Height - at.y
  BY Margins, BoundingWallsBlock
<1> HIDE DEF s, next
<1>5. a \in Nat /\ 2 * a <= PlayerRadius
  <2>1. at.x \in Int /\ PlayerRadius <= at.x /\ PlayerRadius <= Width - at.x
    BY <1>4 DEF Vector
  <2>2. a \in Nat /\ (a = 0 \/ a + PlayerRadius <= s)
    <3> DEFINE k == t * v.x
    <3>1. k \in -s .. s
      BY <1>1
    <3>2. a = Beyond(at.x + k, 0, Width)
      BY <1>3
    <3> HIDE DEF k
    <3>3. QED
      BY <1>2, <2>1, <3>1, <3>2, BeyondStep
  <2>3. QED
    BY <1>2, <2>2
<1>6. b \in Nat /\ 2 * b <= PlayerRadius
  <2>1. at.y \in Int /\ PlayerRadius <= at.y /\ PlayerRadius <= Height - at.y
    BY <1>4 DEF Vector
  <2>2. b \in Nat /\ (b = 0 \/ b + PlayerRadius <= s)
    <3> DEFINE k == t * v.y
    <3>1. k \in -s .. s
      BY <1>1
    <3>2. b = Beyond(at.y + k, 0, Height)
      BY <1>3
    <3> HIDE DEF k
    <3>3. QED
      BY <1>2, <2>1, <3>1, <3>2, BeyondStep
  <2>3. QED
    BY <1>2, <2>2
<1>7. a * a + b * b <= PlayerRadius * PlayerRadius
  BY <1>5, <1>6, HalvesBound
<1>8. QED
  BY <1>3, <1>7, Caught, BoundingWallsBlock DEF next

(* Nor can that of a bullet that crosses at most its diameter.              *)
LEMMA BulletStep ==
  ASSUME StepWithinDiameter,
         NEW at \in Vector, Inside(at), ~AtBound(at, BulletRadius),
         NEW v \in BulletVelocities, NEW t \in 0 .. MaxDt,
         ~AtBound(GetNextPosition(at, v, t), BulletRadius)
  PROVE  Inside(GetNextPosition(at, v, t))
<1> DEFINE next == GetNextPosition(at, v, t)
           a == Beyond(next.x, 0, Width)
           b == Beyond(next.y, 0, Height)
           s == MaxDt * BulletSpeed
<1> USE Constants
<1>1. t * v.x \in -s .. s /\ t * v.y \in -s .. s
  BY ProductBound DEF BulletVelocities
<1>2. s \in Nat /\ s <= 2 * BulletRadius
  BY DEF StepWithinDiameter
<1>3. next \in Vector /\ next.x = at.x + t * v.x /\ next.y = at.y + t * v.y
  BY <1>1, <1>2 DEF GetNextPosition, Vector
<1>4. /\ BulletRadius < at.x /\ BulletRadius < Width - at.x
      /\ BulletRadius < at.y /\ BulletRadius < Height - at.y
  BY Margins
<1> HIDE DEF s, next
<1>5. a \in Nat /\ a <= BulletRadius
  <2>1. at.x \in Int /\ BulletRadius <= at.x /\ BulletRadius <= Width - at.x
    BY <1>4 DEF Vector
  <2>2. a \in Nat /\ (a = 0 \/ a + BulletRadius <= s)
    <3> DEFINE k == t * v.x
    <3>1. k \in -s .. s
      BY <1>1
    <3>2. a = Beyond(at.x + k, 0, Width)
      BY <1>3
    <3> HIDE DEF k
    <3>3. QED
      BY <1>2, <2>1, <3>1, <3>2, BeyondStep
  <2>3. QED
    BY <1>2, <2>2
<1>6. b \in Nat /\ b <= BulletRadius
  <2>1. at.y \in Int /\ BulletRadius <= at.y /\ BulletRadius <= Height - at.y
    BY <1>4 DEF Vector
  <2>2. b \in Nat /\ (b = 0 \/ b + BulletRadius <= s)
    <3> DEFINE k == t * v.y
    <3>1. k \in -s .. s
      BY <1>1
    <3>2. b = Beyond(at.y + k, 0, Height)
      BY <1>3
    <3> HIDE DEF k
    <3>3. QED
      BY <1>2, <2>1, <3>1, <3>2, BeyondStep
  <2>3. QED
    BY <1>2, <2>2
<1>7. a = 0 \/ b = 0
  <2>1. v.x = 0 \/ v.y = 0
    BY DEF BulletVelocities
  <2>2. next.x = at.x \/ next.y = at.y
    BY <1>3, <2>1 DEF Vector
  <2>3. QED
    BY <2>2, BeyondFacts DEF Vector, Inside
<1>8. a * a <= BulletRadius * BulletRadius /\ b * b <= BulletRadius * BulletRadius
  BY <1>5, <1>6, SquareBound
<1>9. a * a + b * b <= BulletRadius * BulletRadius
  BY <1>5, <1>6, <1>7, <1>8
<1>10. QED
  BY <1>3, <1>9, Caught DEF next

(* A bullet starts inside, as its shooter is its radius away from the       *)
(* bounds.                                                                  *)
LEMMA BulletStart ==
  ASSUME NEW at \in Vector, Inside(at), ~Blocked(at, PlayerRadius), NEW aim \in Aims
  PROVE  /\ GetNextPosition(at, aim, PlayerRadius) \in Vector
         /\ Inside(GetNextPosition(at, aim, PlayerRadius))
         /\ Vector2Scale(aim, BulletSpeed) \in BulletVelocities
<1> USE Constants
<1>1. aim.x \in {-1, 0, 1} /\ aim.y \in {-1, 0, 1} /\ (aim.x = 0 \/ aim.y = 0)
  OBVIOUS
<1>2. /\ PlayerRadius < at.x /\ PlayerRadius < Width - at.x
      /\ PlayerRadius < at.y /\ PlayerRadius < Height - at.y
  BY Margins, BoundingWallsBlock
<1>3. PlayerRadius * aim.x \in -PlayerRadius .. PlayerRadius
      /\ PlayerRadius * aim.y \in -PlayerRadius .. PlayerRadius
  BY <1>1
<1>4. BulletSpeed * aim.x \in -BulletSpeed .. BulletSpeed
      /\ BulletSpeed * aim.y \in -BulletSpeed .. BulletSpeed
  BY <1>1
<1>5. BulletSpeed * aim.x = 0 \/ BulletSpeed * aim.y = 0
  BY <1>1
<1>6. GetNextPosition(at, aim, PlayerRadius) \in Vector
  BY <1>3 DEF GetNextPosition, Vector
<1>7. Inside(GetNextPosition(at, aim, PlayerRadius))
  BY <1>2, <1>3 DEF GetNextPosition, Vector, Inside
<1>8. Vector2Scale(aim, BulletSpeed) \in BulletVelocities
  BY <1>4, <1>5 DEF Vector2Scale, BulletVelocities
<1>9. QED
  BY <1>6, <1>7, <1>8

-----------------------------------------------------------------------------
(* The inductive invariant.                                                 *)
Requests ==
  [type : {"coords"}, v : PlayerVelocities] \cup [type : {"shoot"}, v : Aims]
Flights == [by : Players, at : Vector, v : BulletVelocities]

Types ==
  /\ lastPos \in [Players -> PlayerVelocities \cup {None}]
  /\ up \in [Players -> Seq(Requests)]
  /\ pos \in [Players -> Vector]
  /\ velocity \in [Players -> PlayerVelocities]
  /\ bullet \in [Bullets -> Flights \cup {None}]
  /\ dt \in 0 .. MaxDt
  /\ due \subseteq Live
  /\ told \in [Players \cup Bullets -> Vector \cup {None}]
  /\ halted \in [Players -> BOOLEAN]
  /\ fromBound \subseteq Live
  /\ fromBound \subseteq Live

(* A bullet that was fired clear of the bounding walls stays clear of them. *)
BulletsHeld ==
  StepWithinDiameter =>
    \A b \in Live \ fromBound :
      Inside(bullet[b].at) /\ ~AtBound(bullet[b].at, BulletRadius)

IInv == Types /\ WallsHold /\ BulletsHeld

LEMMA VelocityFacts ==
  /\ Zero \in PlayerVelocities /\ Zero \in Vector
  /\ PlayerVelocities \subseteq Vector /\ BulletVelocities \subseteq Vector
  /\ Aims \subseteq Vector
  /\ None \notin Vector /\ None \notin Flights
  /\ \A keys : ControllerVelocity(keys) \in PlayerVelocities
<1> USE Constants
<1>1. PlayerVelocities \subseteq Vector /\ BulletVelocities \subseteq Vector
  BY DEF PlayerVelocities, BulletVelocities, Vector
<1>2. Zero \in PlayerVelocities /\ Zero \in Vector
  BY DEF Zero, PlayerVelocities, Vector
<1>3. Aims \subseteq Vector
  BY DEF Vector
<1>4. None \notin Vector /\ None \notin Flights
  BY <1>1, MovementAssumption DEF Flights
<1>5. \A keys : ControllerVelocity(keys) \in PlayerVelocities
  BY DEF ControllerVelocity, PlayerVelocities
<1>6. QED
  BY <1>1, <1>2, <1>3, <1>4, <1>5

(* What a frame sends.                                                      *)
LEMMA FrameFacts ==
  ASSUME Types, NEW p \in Players, Frame(p)
  PROVE  \E v \in PlayerVelocities, messages \in Seq(Requests),
            shot \in Clicks :
           /\ messages = shot \o SendMovement(p, v)
           /\ up' = [up EXCEPT ![p] = @ \o messages]
           /\ lastPos' = [lastPos EXCEPT ![p] = v]
           /\ UNCHANGED <<pos, velocity, bullet, dt, due, told, halted, fromBound>>
<1>1. PICK keys \in SUBSET KeysOf[p],
           shot \in Clicks :
        /\ up' = [up EXCEPT ![p] = @ \o (shot \o SendMovement(p, ControllerVelocity(keys)))]
        /\ lastPos' = [lastPos EXCEPT ![p] = ControllerVelocity(keys)]
        /\ UNCHANGED <<pos, velocity, bullet, dt, due, told, halted, fromBound>>
  BY DEF Frame
<1> DEFINE v == ControllerVelocity(keys)
           messages == shot \o SendMovement(p, v)
<1>2. v \in PlayerVelocities
  BY VelocityFacts
<1>3. shot \in Seq(Requests)
  <2>1. CASE shot = <<>>
    BY <2>1, EmptySeq
  <2>2. ASSUME NEW a \in Aims, shot = SendShoot(a)
        PROVE  shot \in Seq(Requests)
    <3>1. [type |-> "shoot", v |-> a] \in Requests
      BY DEF Requests
    <3>2. QED
      BY <2>2, <3>1 DEF SendShoot
  <2>3. QED
    BY <2>1, <2>2 DEF Clicks
<1> HIDE DEF v
<1>4. SendMovement(p, v) \in Seq(Requests)
  <2>1. [type |-> "coords", v |-> v] \in Requests
    BY <1>2 DEF Requests
  <2>2. <<[type |-> "coords", v |-> v]>> \in Seq(Requests)
    BY <2>1
  <2>3. QED
    BY <2>2, EmptySeq DEF SendMovement
<1>5. messages \in Seq(Requests)
  BY <1>3, <1>4, ConcatProperties
<1>6. QED
  BY <1>1, <1>2, <1>5 DEF v

(* The head of the queue that ProcessMessage processes.                     *)
LEMMA HeadFacts ==
  ASSUME Types, NEW p \in Players, up[p] # <<>>
  PROVE  /\ Head(up[p]) \in Requests /\ Tail(up[p]) \in Seq(Requests)
         /\ Head(up[p]).type = "coords" => Head(up[p]).v \in PlayerVelocities
         /\ Head(up[p]).type # "coords" => Head(up[p]).v \in Aims
<1>1. up[p] \in Seq(Requests)
  BY DEF Types
<1>2. Head(up[p]) \in Requests /\ Tail(up[p]) \in Seq(Requests)
  BY <1>1, HeadTailProperties
<1>3. QED
  BY <1>2 DEF Requests

(* The next positions that a tick computes.                                 *)
LEMMA NextFacts ==
  ASSUME Types
  PROVE  /\ \A p \in Players : NextOfPlayer(p) \in Vector
         /\ \A b \in Live : NextOfBullet(b) \in Vector
<1> USE Constants
<1>1. ASSUME NEW at \in Vector, NEW v \in Vector, NEW t \in Int
      PROVE  GetNextPosition(at, v, t) \in Vector
  BY DEF GetNextPosition, Vector
<1>2. dt \in Int
  BY DEF Types
<1>3. ASSUME NEW p \in Players PROVE NextOfPlayer(p) \in Vector
  <2>1. pos[p] \in Vector /\ velocity[p] \in Vector
    BY VelocityFacts DEF Types
  <2>2. QED
    BY <1>1, <1>2, <2>1 DEF NextOfPlayer
<1>4. ASSUME NEW b \in Live PROVE NextOfBullet(b) \in Vector
  <2>1. bullet[b].at \in Vector /\ bullet[b].v \in Vector
    BY VelocityFacts DEF Types, Live, Flights
  <2>2. (IF Followed(bullet[b].at) THEN dt ELSE 0) \in Int
    BY <1>2
  <2>3. QED
    BY <1>1, <2>1, <2>2 DEF NextOfBullet
<1>5. QED
  BY <1>3, <1>4

LEMMA InitIInv == Init => IInv
<1> SUFFICES ASSUME Init PROVE IInv
  OBVIOUS
<1>1. Types
  BY Constants, VelocityFacts DEF Init, Types, Live
<1>2. WallsHold
  BY Constants DEF Init, WallsHold
<1>3. BulletsHeld
  BY DEF Init, BulletsHeld, Live
<1>4. QED
  BY <1>1, <1>2, <1>3 DEF IInv

LEMMA TypesStep == IInv /\ [Next]_vars => Types'
<1> SUFFICES ASSUME IInv, [Next]_vars PROVE Types'
  OBVIOUS
<1> USE DEF IInv
<1>1. ASSUME NEW p \in Players, Frame(p) PROVE Types'
  <2>1. PICK v \in PlayerVelocities, messages \in Seq(Requests) :
          /\ up' = [up EXCEPT ![p] = @ \o messages]
          /\ lastPos' = [lastPos EXCEPT ![p] = v]
          /\ UNCHANGED <<pos, velocity, bullet, dt, due, told, halted, fromBound>>
    BY <1>1, FrameFacts
  <2>2. up[p] \o messages \in Seq(Requests)
    BY ConcatProperties DEF Types
  <2>3. up' \in [Players -> Seq(Requests)]
    BY <2>1, <2>2 DEF Types
  <2>4. QED
    BY <2>1, <2>3 DEF Types, Live
<1>2. ASSUME NEW p \in Players, ProcessMessage(p) PROVE Types'
  <2> DEFINE m == Head(up[p])
  <2>1. /\ m \in Requests /\ Tail(up[p]) \in Seq(Requests)
        /\ m.type = "coords" => m.v \in PlayerVelocities
        /\ m.type # "coords" => m.v \in Aims
    BY <1>2, HeadFacts DEF ProcessMessage
  <2> HIDE DEF m
  <2>2. up' \in [Players -> Seq(Requests)]
    BY <1>2, <2>1 DEF ProcessMessage, Types
  <2>3. UNCHANGED <<lastPos, pos, dt, due>>
    BY <1>2 DEF ProcessMessage
  <2>4. CASE m.type = "coords"
    <3>1. ProcessCoords(p, m)
      BY <1>2, <2>4 DEF ProcessMessage, m
    <3>2. QED
      BY <2>1, <2>2, <2>3, <2>4, <3>1 DEF ProcessCoords, Types, Live
  <2>5. CASE m.type # "coords"
    <3>1. ProcessShoot(p, m)
      BY <1>2, <2>5 DEF ProcessMessage, m
    <3>2. PICK b \in Bullets \ Live :
            /\ bullet' = [bullet EXCEPT ![b] =
                 [by |-> p, at |-> GetNextPosition(pos[p], m.v, PlayerRadius),
                  v |-> Vector2Scale(m.v, BulletSpeed)]]
            /\ told' = [told EXCEPT ![b] = GetNextPosition(pos[p], m.v, PlayerRadius)]
            /\ fromBound' \subseteq fromBound \cup {b}
            /\ UNCHANGED <<velocity, halted>>
      BY <3>1 DEF ProcessShoot
    <3>3. GetNextPosition(pos[p], m.v, PlayerRadius) \in Vector
          /\ Vector2Scale(m.v, BulletSpeed) \in BulletVelocities
      BY <2>1, <2>5, BulletStart DEF Types, WallsHold
    <3>4. bullet' \in [Bullets -> Flights \cup {None}]
      BY <3>2, <3>3 DEF Types, Flights
    <3>5. Live \subseteq Live' /\ b \in Live'
      <4>1. bullet'[b] \in Flights
        BY <3>2, <3>3 DEF Types, Flights
      <4>2. \A c \in Bullets \ {b} : bullet'[c] = bullet[c]
        BY <3>2 DEF Types
      <4>3. QED
        BY <4>1, <4>2, VelocityFacts DEF Live
    <3>6. told' \in [Players \cup Bullets -> Vector \cup {None}]
      BY <3>2, <3>3 DEF Types
    <3>7. QED
      BY <2>2, <2>3, <3>2, <3>4, <3>5, <3>6 DEF Types
  <2>6. QED
    BY <2>4, <2>5
<1>3. CASE BeginTick
  <2>1. dt' \in 0 .. MaxDt
    BY <1>3, Constants DEF BeginTick
  <2>2. QED
    BY <1>3, <2>1 DEF BeginTick, clients, Types, Live
<1>4. ASSUME NEW b \in Bullets, BulletHitsWall(b) PROVE Types'
  BY <1>4 DEF BulletHitsWall, Destroy, clients, Types, Live
<1>5. ASSUME NEW b \in Bullets, BulletHitsPlayer(b) PROVE Types'
  <2>1. PICK p \in Players :
          /\ pos' = [pos EXCEPT ![p] = Spawn]
          /\ velocity' = [velocity EXCEPT ![p] = Zero]
          /\ halted' = [halted EXCEPT ![p] = TRUE]
    BY <1>5 DEF BulletHitsPlayer, Struck
  <2>2. /\ pos' \in [Players -> Vector]
        /\ velocity' \in [Players -> PlayerVelocities]
        /\ halted' \in [Players -> BOOLEAN]
    BY <2>1, VelocityFacts, Constants DEF Types
  <2>3. QED
    BY <1>5, <2>2 DEF BulletHitsPlayer, Destroy, clients, Types, Live
<1>6. ASSUME NEW b \in Bullets, BulletFlies(b) PROVE Types'
  <2>1. b \in Live /\ NextOfBullet(b) \in Vector
    BY <1>6, NextFacts DEF BulletFlies, Types
  <2>2. bullet[b] \in Flights
    BY <2>1 DEF Types, Live
  <2>3. [bullet[b] EXCEPT !.at = NextOfBullet(b)] \in Flights
    BY <2>1, <2>2 DEF Flights
  <2>4. bullet' = [bullet EXCEPT ![b] = [bullet[b] EXCEPT !.at = NextOfBullet(b)]]
    BY <1>6, <2>1 DEF BulletFlies, Types
  <2> HIDE DEF IInv
  <2>5. bullet' \in [Bullets -> Flights \cup {None}]
    BY <2>3, <2>4 DEF Types, IInv
  <2>6. Live \subseteq Live'
    BY <2>3, <2>4, VelocityFacts DEF Live, Types, IInv
  <2>7. told' \in [Players \cup Bullets -> Vector \cup {None}]
    BY <1>6, <2>1 DEF BulletFlies, Types, IInv
  <2>8. UNCHANGED <<lastPos, up, pos, velocity, dt, halted, fromBound>> /\ due' \subseteq due
    BY <1>6 DEF BulletFlies, clients
  <2>9. QED
    BY <2>5, <2>6, <2>7, <2>8 DEF Types, IInv
<1>7. CASE UpdatePlayers
  <2>1. velocity' \in [Players -> PlayerVelocities]
    BY <1>7, VelocityFacts DEF UpdatePlayers, Types
  <2>2. ASSUME NEW p \in Players
        PROVE  GetNextPosition(pos[p], velocity'[p], dt) \in Vector
    <3>1. pos[p] \in Vector /\ velocity'[p] \in Vector /\ dt \in Int
      BY <2>1, VelocityFacts, Constants DEF Types
    <3>2. QED
      BY <3>1 DEF GetNextPosition, Vector
  <2>3. pos' \in [Players -> Vector]
    BY <1>7, <2>2 DEF UpdatePlayers
  <2>4. told' \in [Players \cup Bullets -> Vector \cup {None}]
    BY <1>7, <2>3 DEF UpdatePlayers, Types
  <2>5. halted' \in [Players -> BOOLEAN]
    BY <1>7 DEF UpdatePlayers, Types
  <2>6. dt' \in 0 .. MaxDt /\ UNCHANGED <<lastPos, up, bullet, due, fromBound>>
    BY <1>7, Constants DEF UpdatePlayers, clients
  <2>7. QED
    BY <2>1, <2>3, <2>4, <2>5, <2>6 DEF Types, Live
<1>8. CASE UNCHANGED vars
  BY <1>8 DEF vars, clients, Types, Live
<1>9. QED
  BY <1>1, <1>2, <1>3, <1>4, <1>5, <1>6, <1>7, <1>8 DEF Next, UpdateBullet

(* A step moves players by a hit, to the spawn position, or in              *)
(* UpdatePlayers.                                                           *)
LEMMA WallsStep == IInv /\ [Next]_vars => WallsHold'
<1> SUFFICES ASSUME IInv, [Next]_vars PROVE WallsHold'
  OBVIOUS
<1> USE DEF IInv
<1>1. CASE UNCHANGED pos
  BY <1>1 DEF WallsHold
<1>2. ASSUME NEW b \in Bullets, BulletHitsPlayer(b) PROVE WallsHold'
  <2>1. PICK p \in Players : pos' = [pos EXCEPT ![p] = Spawn]
    BY <1>2 DEF BulletHitsPlayer, Struck
  <2>2. QED
    BY <2>1, Constants DEF WallsHold, Types
<1>3. CASE UpdatePlayers
  <2> SUFFICES ASSUME NEW p \in Players
      PROVE  Inside(pos'[p]) /\ ~Blocked(pos'[p], PlayerRadius)
    BY DEF WallsHold
  <2>1. pos'[p] = GetNextPosition(pos[p], velocity'[p], dt)
    BY <1>3 DEF UpdatePlayers
  <2>2. CASE p \in Stopped
    <3>1. velocity'[p] = Zero
      BY <1>3, <2>2 DEF UpdatePlayers
    <3>2. pos[p] \in Vector /\ dt \in Int
      BY Constants DEF Types
    <3>3. pos'[p] = pos[p]
      BY <2>1, <3>1, <3>2 DEF GetNextPosition, Zero, Vector
    <3>4. QED
      BY <3>3 DEF WallsHold
  <2>3. CASE p \notin Stopped
    <3>1. pos'[p] = GetNextPosition(pos[p], velocity[p], dt)
      BY <1>3, <2>1, <2>3 DEF UpdatePlayers
    <3>2. ~Blocked(GetNextPosition(pos[p], velocity[p], dt), PlayerRadius)
      BY <2>3 DEF Stopped, NextOfPlayer
    <3>3. pos[p] \in Vector /\ velocity[p] \in PlayerVelocities /\ dt \in 0 .. MaxDt
      BY DEF Types
    <3>4. Inside(pos[p]) /\ ~Blocked(pos[p], PlayerRadius)
      BY DEF WallsHold
    <3>5. QED
      BY <3>1, <3>2, <3>3, <3>4, PlayerStep
  <2>4. QED
    BY <2>2, <2>3
<1>4. ASSUME NEW p \in Players, Frame(p) \/ ProcessMessage(p) PROVE UNCHANGED pos
  BY <1>4 DEF Frame, ProcessMessage
<1>5. ASSUME NEW b \in Bullets, BulletHitsWall(b) \/ BulletFlies(b) PROVE UNCHANGED pos
  BY <1>5 DEF BulletHitsWall, BulletFlies
<1>6. BeginTick \/ UNCHANGED vars => UNCHANGED pos
  BY DEF BeginTick, vars
<1>7. QED
  BY <1>1, <1>2, <1>3, <1>4, <1>5, <1>6 DEF Next, UpdateBullet

LEMMA BulletsStep == IInv /\ [Next]_vars => BulletsHeld'
<1> DEFINE Held(b) == Inside(bullet[b].at) /\ ~AtBound(bullet[b].at, BulletRadius)
<1> SUFFICES ASSUME Types, WallsHold, BulletsHeld, [Next]_vars, StepWithinDiameter
    PROVE  \A b \in Live' \ fromBound' : Held(b)'
  BY DEF IInv, BulletsHeld, StepWithinDiameter
<1>1. \A b \in Live \ fromBound : Held(b)
  BY DEF BulletsHeld
<1>2. CASE UNCHANGED <<bullet, fromBound>>
  BY <1>1, <1>2 DEF Live
<1>3. ASSUME NEW p \in Players, ProcessMessage(p)
      PROVE  \A b \in Live' \ fromBound' : Held(b)'
  <2> DEFINE m == Head(up[p])
             at == GetNextPosition(pos[p], m.v, PlayerRadius)
             v == Vector2Scale(m.v, BulletSpeed)
             new == [by |-> p, at |-> at, v |-> v]
  <2>1. CASE m.type = "coords"
    BY <1>2, <1>3, <2>1 DEF ProcessMessage, ProcessCoords
  <2>2. CASE m.type # "coords"
    <3>1. m.v \in Aims
      BY <1>3, <2>2, HeadFacts DEF ProcessMessage
    <3>2. Inside(at)
      BY <3>1, BulletStart DEF Types, WallsHold
    <3>3. PICK b \in Bullets \ Live :
            /\ bullet' = [bullet EXCEPT ![b] = new]
            /\ fromBound' = IF AtBound(at, BulletRadius)
                            THEN fromBound \cup {b} ELSE fromBound
      BY <1>3, <2>2 DEF ProcessMessage, ProcessShoot
    <3>4. new.at = at
      OBVIOUS
    <3> HIDE DEF at, v, m, new
    <3>5. bullet'[b] = new /\ \A c \in Bullets \ {b} : bullet'[c] = bullet[c]
      BY <3>3 DEF Types
    <3>6. b \notin fromBound' => Held(b)'
      BY <3>2, <3>3, <3>4, <3>5
    <3>7. ASSUME NEW c \in Live' \ fromBound', c # b PROVE Held(c)'
      <4>1. c \in Live \ fromBound /\ bullet'[c] = bullet[c]
        BY <3>3, <3>5, <3>7 DEF Live
      <4>2. QED
        BY <1>1, <4>1
    <3>8. QED
      BY <3>6, <3>7
  <2>3. QED
    BY <2>1, <2>2
<1>4. ASSUME NEW b \in Bullets, BulletHitsWall(b) \/ BulletHitsPlayer(b)
      PROVE  \A c \in Live' \ fromBound' : Held(c)'
  <2>1. /\ bullet' = [bullet EXCEPT ![b] = None]
        /\ fromBound' = fromBound \ {b}
    BY <1>4 DEF BulletHitsWall, BulletHitsPlayer, Destroy
  <2>2. ASSUME NEW c \in Live' \ fromBound' PROVE Held(c)'
    <3>1. c \in Live \ fromBound /\ bullet'[c] = bullet[c]
      BY <2>1, <2>2 DEF Live, Types
    <3>2. QED
      BY <1>1, <3>1
  <2>3. QED
    BY <2>2
<1>5. ASSUME NEW b \in Bullets, BulletFlies(b)
      PROVE  \A c \in Live' \ fromBound' : Held(c)'
  <2>1. b \in Live /\ fromBound' = fromBound
    BY <1>5 DEF BulletFlies, Types
  <2>2. bullet[b] \in Flights
    BY <2>1 DEF Types, Live
  <2>3. bullet[b].at \in Vector /\ bullet[b].v \in BulletVelocities
    BY <2>2 DEF Flights
  <2>4. bullet' = [bullet EXCEPT ![b] = [bullet[b] EXCEPT !.at = NextOfBullet(b)]]
    BY <1>5, <2>1 DEF BulletFlies, Types
  <2>5. bullet'[b].at = NextOfBullet(b)
    BY <2>2, <2>4 DEF Types, Flights
  <2>6. \A c \in Bullets \ {b} : bullet'[c] = bullet[c]
    BY <2>4 DEF Types
  <2>7. ASSUME b \notin fromBound PROVE Held(b)'
    <3> DEFINE t == IF Followed(bullet[b].at) THEN dt ELSE 0
    <3>1. t \in 0 .. MaxDt
      BY Constants DEF Types
    <3>2. NextOfBullet(b) = GetNextPosition(bullet[b].at, bullet[b].v, t)
      BY DEF NextOfBullet
    <3> HIDE DEF t
    <3>3. Inside(bullet[b].at) /\ ~AtBound(bullet[b].at, BulletRadius)
      BY <1>1, <2>1, <2>7
    <3>4. ~AtBound(NextOfBullet(b), BulletRadius)
      BY <1>5, BoundingWallsBlock DEF BulletFlies
    <3>5. Inside(NextOfBullet(b))
      BY <2>3, <3>1, <3>2, <3>3, <3>4, BulletStep
    <3>6. QED
      BY <2>5, <3>4, <3>5
  <2>8. ASSUME NEW c \in Live' \ fromBound', c # b PROVE Held(c)'
    <3>1. c \in Live \ fromBound /\ bullet'[c] = bullet[c]
      BY <2>1, <2>6, <2>8 DEF Live
    <3>2. QED
      BY <1>1, <3>1
  <2>9. QED
    BY <2>1, <2>7, <2>8
<1>6. ASSUME NEW p \in Players, Frame(p) PROVE UNCHANGED <<bullet, fromBound>>
  BY <1>6 DEF Frame
<1>7. BeginTick \/ UpdatePlayers \/ UNCHANGED vars => UNCHANGED <<bullet, fromBound>>
  BY DEF BeginTick, UpdatePlayers, vars
<1>8. QED
  BY <1>2, <1>3, <1>4, <1>5, <1>6, <1>7 DEF Next, UpdateBullet

LEMMA Inductive == Spec => []IInv
<1>1. IInv /\ [Next]_vars => IInv'
  BY TypesStep, WallsStep, BulletsStep DEF IInv
<1>2. QED
  BY <1>1, InitIInv, PTL DEF Spec

-----------------------------------------------------------------------------
(* The types, for every world.                                              *)
THEOREM TypeCorrect == Spec => []TypeOK
<1>1. Types => TypeOK
  <2> SUFFICES ASSUME Types PROVE TypeOK
    OBVIOUS
  <2>1. Requests \subseteq Messages
    BY VelocityFacts DEF Requests, Messages
  <2>2. up \in [Players -> Seq(Messages)]
    BY <2>1 DEF Types
  <2>3. Flights \subseteq Flying
    BY VelocityFacts DEF Flights, Flying
  <2>4. QED
    BY <2>2, <2>3, VelocityFacts DEF Types, TypeOK
<1>2. QED
  BY <1>1, Inductive, PTL DEF IInv

(* Walls hold players, for every world whose ticks are short enough for its *)
(* players (GameServer.cpp:200, 219-227).                                   *)
THEOREM WallsAlwaysHold == Spec => []WallsHold
BY Inductive, PTL DEF IInv

(* And bullets, when in no tick they cross more than their diameter and    *)
(* were fired clear of the bounding walls (GameServer.cpp:129-136, 168-184);*)
(* that it takes the latter is what the configured bullets show.            *)
THEOREM ClearShotsAlwaysStayInside ==
  ASSUME StepWithinDiameter PROVE Spec => []ClearShotsStayInside
<1>1. IInv => ClearShotsStayInside
  BY DEF IInv, BulletsHeld, ClearShotsStayInside
<1>2. QED
  BY <1>1, Inductive, PTL

-----------------------------------------------------------------------------
(* The last velocity under way is the client's, and without one the server  *)
(* has it or has stopped the player.                                        *)
NoMove(q) == \A i \in DOMAIN q : q[i].type # "coords"
FinalMove(q, v) ==
  \A i \in DOMAIN q :
    q[i].type = "coords" /\ (\A j \in DOMAIN q : j > i => q[j].type # "coords")
      => q[i].v = v

Commanded ==
  \A p \in Players :
    /\ FinalMove(up[p], lastPos[p])
    /\ lastPos[p] = None => halted[p] /\ NoMove(up[p])
    /\ halted[p] => velocity[p] = Zero
    /\ NoMove(up[p]) => halted[p] \/ velocity[p] = lastPos[p]

LEMMA AppendMoves ==
  ASSUME NEW q \in Seq(Requests), NEW m \in Requests, NEW v
  PROVE  /\ m.type # "coords" /\ FinalMove(q, v) => FinalMove(Append(q, m), v)
         /\ m.type # "coords" => (NoMove(Append(q, m)) <=> NoMove(q))
         /\ m.type = "coords" /\ m.v = v => FinalMove(Append(q, m), v)
         /\ m.type = "coords" => ~NoMove(Append(q, m))
<1> DEFINE r == Append(q, m)
<1>1. /\ Len(q) \in Nat /\ DOMAIN q = 1 .. Len(q) /\ DOMAIN r = 1 .. (Len(q) + 1)
      /\ \A i \in DOMAIN q : r[i] = q[i]
      /\ r[Len(q) + 1] = m
  BY AppendProperties, LenProperties
<1> HIDE DEF r
<1>2. \A i \in DOMAIN r : i \in DOMAIN q \/ i = Len(q) + 1
  BY <1>1
<1>3. Len(q) + 1 \in DOMAIN r /\ \A i \in DOMAIN q : i \in DOMAIN r /\ Len(q) + 1 > i
  BY <1>1
<1>4. m.type # "coords" /\ FinalMove(q, v) => FinalMove(r, v)
  BY <1>1, <1>2, <1>3 DEF FinalMove
<1>5. m.type # "coords" => (NoMove(r) <=> NoMove(q))
  BY <1>1, <1>2, <1>3 DEF NoMove
<1>6. m.type = "coords" /\ m.v = v => FinalMove(r, v)
  BY <1>1, <1>2, <1>3 DEF FinalMove
<1>7. m.type = "coords" => ~NoMove(r)
  BY <1>1, <1>3 DEF NoMove
<1>8. QED
  BY <1>4, <1>5, <1>6, <1>7 DEF r

LEMMA TailMoves ==
  ASSUME NEW q \in Seq(Requests), q # <<>>, NEW v, FinalMove(q, v)
  PROVE  /\ FinalMove(Tail(q), v)
         /\ Head(q).type # "coords" => (NoMove(Tail(q)) <=> NoMove(q))
         /\ Head(q).type = "coords" /\ NoMove(Tail(q)) => Head(q).v = v
         /\ NoMove(q) => Head(q).type # "coords"
<1> DEFINE r == Tail(q)
<1>1. /\ Len(q) \in Nat \ {0} /\ DOMAIN q = 1 .. Len(q)
      /\ DOMAIN r = 1 .. (Len(q) - 1)
      /\ \A i \in DOMAIN r : r[i] = q[i + 1]
      /\ Head(q) = q[1]
  BY HeadTailProperties, LenProperties, EmptySeq
<1> HIDE DEF r
<1>2. /\ 1 \in DOMAIN q
      /\ \A i \in DOMAIN r : i + 1 \in DOMAIN q
      /\ \A i \in DOMAIN q : i = 1 \/ (i > 1 /\ i - 1 \in DOMAIN r /\ r[i - 1] = q[i])
  BY <1>1
<1>3. FinalMove(r, v)
  <2> SUFFICES ASSUME NEW i \in DOMAIN r, r[i].type = "coords",
                      \A j \in DOMAIN r : j > i => r[j].type # "coords"
      PROVE  r[i].v = v
    BY DEF FinalMove
  <2>1. ASSUME NEW j \in DOMAIN q, j > i + 1 PROVE q[j].type # "coords"
    <3>1. j - 1 \in DOMAIN r /\ r[j - 1] = q[j] /\ j - 1 > i
      BY <1>1, <1>2, <2>1
    <3>2. QED
      BY <3>1
  <2>2. QED
    BY <1>1, <1>2, <2>1 DEF FinalMove
<1>4. Head(q).type # "coords" => (NoMove(r) <=> NoMove(q))
  BY <1>1, <1>2 DEF NoMove
<1>5. Head(q).type = "coords" /\ NoMove(r) => Head(q).v = v
  BY <1>1, <1>2 DEF NoMove, FinalMove
<1>6. NoMove(q) => Head(q).type # "coords"
  BY <1>1, <1>2 DEF NoMove
<1>7. QED
  BY <1>3, <1>4, <1>5, <1>6 DEF r

(* A frame appends a shot, a velocity that is not the last one, or both.    *)
Sends(p, v, shot, q) ==
  /\ q = up[p] \/ \E m \in Requests : m.type # "coords" /\ q = Append(up[p], m)
  /\ IF lastPos[p] \in {None, v}
     THEN up[p] \o (shot \o SendMovement(p, v)) = q
     ELSE \E m \in Requests :
            /\ m.type = "coords" /\ m.v = v
            /\ up[p] \o (shot \o SendMovement(p, v)) = Append(q, m)

LEMMA FrameAppends ==
  ASSUME Types, NEW p \in Players, NEW v \in PlayerVelocities,
         NEW shot \in Clicks
  PROVE  \E q \in Seq(Requests) : Sends(p, v, shot, q)
<1> DEFINE m == [type |-> "coords", v |-> v]
           q == up[p] \o shot
<1>1. m \in Requests /\ m.type = "coords" /\ m.v = v /\ <<m>> \in Seq(Requests)
  BY DEF Requests
<1>2. up[p] \in Seq(Requests)
  BY DEF Types
<1>3. /\ shot \in Seq(Requests)
      /\ q = up[p] \/ \E n \in Requests : n.type # "coords" /\ q = Append(up[p], n)
  <2>1. CASE shot = <<>>
    BY <1>2, <2>1, EmptySeq, ConcatEmptySeq
  <2>2. ASSUME NEW a \in Aims, shot = SendShoot(a)
        PROVE  <1>3
    <3> DEFINE n == [type |-> "shoot", v |-> a]
    <3>1. n \in Requests /\ n.type # "coords"
      BY DEF Requests
    <3> HIDE DEF n
    <3>2. shot \in Seq(Requests)
      BY <2>2, <3>1 DEF n, SendShoot
    <3>3. q = Append(up[p], n)
      BY <1>2, <2>2, <3>1, AppendIsConcat DEF n, SendShoot
    <3>4. QED
      BY <3>1, <3>2, <3>3
  <2>3. QED
    BY <2>1, <2>2 DEF Clicks
<1>4. q \in Seq(Requests)
  BY <1>2, <1>3, ConcatProperties
<1> HIDE DEF m
<1>5. CASE lastPos[p] \in {None, v}
  <2>1. SendMovement(p, v) = <<>>
    BY <1>5 DEF SendMovement
  <2>2. up[p] \o (shot \o SendMovement(p, v)) = q
    BY <1>3, <2>1, ConcatEmptySeq
  <2>3. QED
    BY <1>3, <1>4, <1>5, <2>2 DEF Sends
<1>6. CASE lastPos[p] \notin {None, v}
  <2>1. SendMovement(p, v) = <<m>>
    BY <1>6 DEF SendMovement, m
  <2>2. up[p] \o (shot \o <<m>>) = q \o <<m>>
    <3>1. /\ up[p] \in Seq(Requests) /\ shot \in Seq(Requests)
          /\ <<m>> \in Seq(Requests)
      BY <1>1, <1>2, <1>3
    <3>2. \A a, b, c \in Seq(Requests) : (a \o b) \o c = a \o (b \o c)
      BY ConcatAssociative
    <3>3. QED
      BY <3>1, <3>2
  <2>3. q \o <<m>> = Append(q, m)
    BY <1>1, <1>4, AppendIsConcat
  <2> HIDE DEF q
  <2>4. QED
    BY <1>1, <1>3, <1>4, <1>6, <2>1, <2>2, <2>3 DEF Sends
<1>7. QED
  BY <1>5, <1>6

LEMMA CommandedStep == IInv /\ Commanded /\ [Next]_vars => Commanded'
<1> SUFFICES ASSUME Types, Commanded, [Next]_vars PROVE Commanded'
  BY DEF IInv
<1>1. ASSUME NEW p \in Players, Frame(p) PROVE Commanded'
  <2>1. PICK v \in PlayerVelocities, messages \in Seq(Requests), shot \in Clicks :
          /\ messages = shot \o SendMovement(p, v)
          /\ up' = [up EXCEPT ![p] = @ \o messages]
          /\ lastPos' = [lastPos EXCEPT ![p] = v]
          /\ UNCHANGED <<pos, velocity, bullet, dt, due, told, halted, fromBound>>
    BY <1>1, FrameFacts
  <2>2. PICK q \in Seq(Requests) : Sends(p, v, shot, q)
    BY FrameAppends
  <2>3. up[p] \in Seq(Requests)
    BY DEF Types
  <2>4. FinalMove(q, lastPos[p]) /\ (NoMove(q) <=> NoMove(up[p]))
    <3>1. FinalMove(up[p], lastPos[p])
      BY DEF Commanded
    <3>2. ASSUME NEW m \in Requests, m.type # "coords", q = Append(up[p], m)
          PROVE  <2>4
      BY <2>3, <3>1, <3>2, AppendMoves
    <3>3. q = up[p] \/ \E m \in Requests : m.type # "coords" /\ q = Append(up[p], m)
      BY <2>2 DEF Sends
    <3>4. QED
      BY <3>1, <3>2, <3>3
  <2>5. up'[p] = up[p] \o (shot \o SendMovement(p, v)) /\ lastPos'[p] = v
    BY <2>1 DEF Types
  <2>6. v # None
    BY VelocityFacts
  <2>7. CASE lastPos[p] = v
    <3>1. up'[p] = q
      BY <2>2, <2>5, <2>7 DEF Sends
    <3>2. QED
      BY <2>1, <2>4, <2>5, <2>6, <2>7, <3>1 DEF Commanded, Types
  <2>8. CASE lastPos[p] = None
    <3>1. up'[p] = q /\ NoMove(q) /\ halted[p]
      BY <2>2, <2>4, <2>5, <2>8 DEF Commanded, Sends
    <3>2. FinalMove(q, v)
      BY <3>1 DEF NoMove, FinalMove
    <3>3. QED
      BY <2>1, <2>5, <2>6, <3>1, <3>2 DEF Commanded, Types
  <2>9. CASE lastPos[p] \notin {None, v}
    <3>1. PICK m \in Requests : m.type = "coords" /\ m.v = v /\ up'[p] = Append(q, m)
      BY <2>2, <2>5, <2>9 DEF Sends
    <3>2. FinalMove(up'[p], v) /\ ~NoMove(up'[p])
      BY <3>1, AppendMoves
    <3>3. QED
      BY <2>1, <2>5, <2>6, <3>2 DEF Commanded, Types
  <2>10. QED
    BY <2>7, <2>8, <2>9
<1>2. ASSUME NEW p \in Players, ProcessMessage(p) PROVE Commanded'
  <2> DEFINE m == Head(up[p])
  <2>1. up[p] \in Seq(Requests) /\ up[p] # <<>> /\ FinalMove(up[p], lastPos[p])
    BY <1>2 DEF ProcessMessage, Types, Commanded
  <2>2. /\ FinalMove(Tail(up[p]), lastPos[p])
        /\ m.type # "coords" => (NoMove(Tail(up[p])) <=> NoMove(up[p]))
        /\ m.type = "coords" /\ NoMove(Tail(up[p])) => m.v = lastPos[p]
        /\ NoMove(up[p]) => m.type # "coords"
    BY <2>1, TailMoves
  <2>3. /\ up' = [up EXCEPT ![p] = Tail(up[p])] /\ lastPos' = lastPos
        /\ IF m.type = "coords" THEN ProcessCoords(p, m) ELSE ProcessShoot(p, m)
    BY <1>2 DEF ProcessMessage
  <2> HIDE DEF m
  <2>4. up'[p] = Tail(up[p]) /\ \A o \in Players \ {p} : up'[o] = up[o]
    BY <2>3 DEF Types
  <2>5. CASE m.type = "coords"
    <3>1. /\ velocity' = [velocity EXCEPT ![p] = m.v]
          /\ halted' = [halted EXCEPT ![p] = FALSE]
      BY <2>3, <2>5 DEF ProcessCoords
    <3>2. /\ velocity'[p] = m.v /\ halted'[p] = FALSE
          /\ \A o \in Players \ {p} : velocity'[o] = velocity[o] /\ halted'[o] = halted[o]
      BY <3>1 DEF Types
    <3>3. lastPos[p] # None
      BY <2>2, <2>5 DEF Commanded
    <3>4. QED
      BY <2>2, <2>3, <2>4, <2>5, <3>2, <3>3 DEF Commanded
  <2>6. CASE m.type # "coords"
    <3>1. UNCHANGED <<velocity, halted>>
      BY <2>3, <2>6 DEF ProcessShoot
    <3>2. QED
      BY <2>2, <2>3, <2>4, <2>6, <3>1 DEF Commanded
  <2>7. QED
    BY <2>5, <2>6
<1>3. ASSUME NEW b \in Bullets, BulletHitsPlayer(b) PROVE Commanded'
  <2>1. PICK p \in Players :
          /\ velocity' = [velocity EXCEPT ![p] = Zero]
          /\ halted' = [halted EXCEPT ![p] = TRUE]
    BY <1>3 DEF BulletHitsPlayer, Struck
  <2>2. UNCHANGED <<lastPos, up>>
    BY <1>3 DEF BulletHitsPlayer, clients
  <2>3. \A o \in Players :
          \/ velocity'[o] = Zero /\ halted'[o]
          \/ velocity'[o] = velocity[o] /\ halted'[o] = halted[o]
    BY <2>1 DEF Types
  <2>4. QED
    BY <2>2, <2>3 DEF Commanded
<1>4. CASE UpdatePlayers
  <2>1. UNCHANGED <<lastPos, up>>
    BY <1>4 DEF UpdatePlayers, clients
  <2>2. \A o \in Players :
          \/ velocity'[o] = Zero /\ halted'[o]
          \/ velocity'[o] = velocity[o] /\ halted'[o] = halted[o]
    BY <1>4 DEF UpdatePlayers, Types
  <2>3. QED
    BY <2>1, <2>2 DEF Commanded
<1>5. CASE UNCHANGED <<lastPos, up, velocity, halted>>
  BY <1>5 DEF Commanded
<1>6. ASSUME NEW b \in Bullets, BulletHitsWall(b) \/ BulletFlies(b)
      PROVE  UNCHANGED <<lastPos, up, velocity, halted>>
  BY <1>6 DEF BulletHitsWall, BulletFlies, clients
<1>7. BeginTick \/ UNCHANGED vars => UNCHANGED <<lastPos, up, velocity, halted>>
  BY DEF BeginTick, vars, clients
<1>8. QED
  BY <1>1, <1>2, <1>3, <1>4, <1>5, <1>6, <1>7 DEF Next, UpdateBullet

(* A player moves as its client last chose, or was stopped                  *)
(* (NetworkClient.cpp:139-146; GameServer.cpp:201; Components.cpp:89).      *)
THEOREM VelocitiesAgree == Spec => []VelocityAgreement
<1>1. Init => Commanded
  BY EmptySeq DEF Init, Commanded, NoMove, FinalMove
<1>2. IInv /\ Commanded /\ [Next]_vars => Commanded'
  BY CommandedStep
<1>3. Commanded => VelocityAgreement
  BY DEF Commanded, VelocityAgreement, NoMove
<1>4. QED
  BY <1>1, <1>2, <1>3, Inductive, PTL DEF Spec

-----------------------------------------------------------------------------
(* What the clients have been told of bullets is right at any time, of      *)
(* players between ticks: within one, a hit may have moved them.            *)
Where(b) == IF bullet[b] = None THEN None ELSE bullet[b].at

Told ==
  /\ due # {} => dt > 0
  /\ \A b \in Bullets : told[b] = Where(b)
  /\ dt = 0 => \A p \in Players : told[p] = pos[p]

LEMMA ToldStep == IInv /\ Told /\ [Next]_vars => Told'
<1> SUFFICES ASSUME Types, WallsHold, Told, [Next]_vars PROVE Told'
  BY DEF IInv
<1>1. \A p \in Players : p \notin Bullets
  BY MovementAssumption
<1>2. CASE UNCHANGED <<pos, bullet, dt, due, told>>
  BY <1>2 DEF Told, Where
<1>3. ASSUME NEW p \in Players, ProcessMessage(p) PROVE Told'
  <2> DEFINE m == Head(up[p])
             at == GetNextPosition(pos[p], m.v, PlayerRadius)
             new == [by |-> p, at |-> at, v |-> Vector2Scale(m.v, BulletSpeed)]
  <2>1. UNCHANGED <<pos, dt, due>>
    BY <1>3 DEF ProcessMessage
  <2>2. CASE m.type = "coords"
    BY <1>2, <1>3, <2>1, <2>2 DEF ProcessMessage, ProcessCoords
  <2>3. CASE m.type # "coords"
    <3>1. m.v \in Aims
      BY <1>3, <2>3, HeadFacts DEF ProcessMessage
    <3>2. at \in Vector /\ Vector2Scale(m.v, BulletSpeed) \in BulletVelocities
      BY <3>1, BulletStart DEF Types, WallsHold
    <3>3. new \in Flights /\ new # None /\ new.at = at
      BY <3>2, VelocityFacts DEF Flights
    <3>4. PICK b \in Bullets : /\ bullet' = [bullet EXCEPT ![b] = new]
                               /\ told' = [told EXCEPT ![b] = at]
      BY <1>3, <2>3 DEF ProcessMessage, ProcessShoot
    <3> HIDE DEF new, at, m
    <3>5. \A c \in Bullets : told'[c] = Where(c)'
      BY <3>3, <3>4 DEF Told, Where, Types
    <3>6. \A o \in Players : told'[o] = told[o]
      BY <1>1, <3>4 DEF Types
    <3>7. QED
      BY <2>1, <3>5, <3>6 DEF Told
  <2>4. QED
    BY <2>2, <2>3
<1>4. CASE BeginTick
  <2>1. dt' > 0 /\ UNCHANGED <<bullet, told>>
    BY <1>4, Constants DEF BeginTick
  <2>2. QED
    BY <2>1 DEF Told, Where
<1>5. ASSUME NEW b \in Bullets,
             BulletHitsWall(b) \/ BulletHitsPlayer(b) \/ BulletFlies(b)
      PROVE  Told'
  <2>1. dt > 0 /\ dt' = dt
    BY <1>5 DEF BulletHitsWall, BulletHitsPlayer, BulletFlies, Told
  <2>2. CASE Destroy(b)
    <3>1. \A c \in Bullets : told'[c] = Where(c)'
      BY <2>2 DEF Destroy, Told, Where, Types
    <3>2. QED
      BY <2>1, <3>1, Constants DEF Told, Types
  <2>3. CASE BulletFlies(b)
    <3>1. b \in Live
      BY <2>3 DEF BulletFlies, Types
    <3>2. bullet[b] \in Flights
      BY <3>1 DEF Types, Live
    <3>3. NextOfBullet(b) \in Vector
      BY <3>1, NextFacts
    <3> DEFINE new == [bullet[b] EXCEPT !.at = NextOfBullet(b)]
    <3>4. new \in Flights /\ new # None /\ new.at = NextOfBullet(b)
      BY <3>2, <3>3, VelocityFacts DEF Flights
    <3>5. bullet' = [bullet EXCEPT ![b] = new]
          /\ told' = [told EXCEPT ![b] = NextOfBullet(b)]
      BY <2>3, <3>1 DEF BulletFlies, Types
    <3> HIDE DEF new
    <3>6. \A c \in Bullets : told'[c] = Where(c)'
      BY <3>4, <3>5 DEF Told, Where, Types
    <3>7. QED
      BY <2>1, <3>6, Constants DEF Told, Types
  <2>4. QED
    BY <1>5, <2>2, <2>3 DEF BulletHitsWall, BulletHitsPlayer
<1>6. CASE UpdatePlayers
  <2>1. due' = {} /\ bullet' = bullet
    BY <1>6 DEF UpdatePlayers
  <2>2. \A p \in Players : told'[p] = pos'[p]
    BY <1>6 DEF UpdatePlayers
  <2>3. \A b \in Bullets : told'[b] = told[b]
    BY <1>1, <1>6 DEF UpdatePlayers
  <2>4. QED
    BY <2>1, <2>2, <2>3 DEF Told, Where
<1>7. ASSUME NEW p \in Players, Frame(p)
      PROVE  UNCHANGED <<pos, bullet, dt, due, told>>
  BY <1>7 DEF Frame
<1>8. UNCHANGED vars => UNCHANGED <<pos, bullet, dt, due, told>>
  BY DEF vars
<1>9. QED
  BY <1>2, <1>3, <1>4, <1>5, <1>6, <1>7, <1>8 DEF Next, UpdateBullet

(* Between ticks every client has been told where everything is, a player   *)
(* that was hit included (GameServer.cpp:196-215, 227-235).                 *)
THEOREM PositionsAlwaysAgree == Spec => []PositionsAgree
<1>1. Init => Told
  BY MovementAssumption DEF Init, Told, Where
<1>2. Told => PositionsAgree
  BY DEF Told, Where, PositionsAgree
<1>3. QED
  BY <1>1, <1>2, ToldStep, Inductive, PTL DEF Spec
=============================================================================
