------------------------------ MODULE Movement ------------------------------
(***************************************************************************)
(* Movement, shots and collisions: what a client's frame sends             *)
(* (Scene::Update, PlayerController, NetworkClient::SendMovement and       *)
(* SendShoot) and what a game server's tick makes of it                    *)
(* (GameServer::ProcessMessage and UpdateGameState), for players that are  *)
(* connected throughout; GameServer models how they come and go.           *)
(*                                                                         *)
(* Coordinates are integers and walls are parallel to the axes; distances  *)
(* are compared by their squares, which is exact.  A tick updates bullet   *)
(* after bullet, in any order, and then the players.                       *)
(***************************************************************************)
EXTENDS Integers, Sequences, FiniteSets

CONSTANTS
  Players, Bullets,           \* Bullets bounds the bullets that fly at once
  None,                       \* no bullet; no velocity yet
  KeysOf,                     \* the keys that each player uses
  Aims,                       \* the normalised targets of shots
  Width, Height,              \* WorldWidth, WorldHeight
  InnerWalls,                 \* the walls of the configuration
  Spawn,                      \* s_PlayerSpawnPos
  PlayerRadius, PlayerSpeed, BulletRadius, BulletSpeed,
  MaxDt,                      \* bound: the longest tick, in units of time
  MaxBacklog,                 \* bound: messages under way from a client
  MaxLost                     \* bound: how far outside a bullet is followed

VARIABLES
  \* the clients
  lastPos,   \* the velocity SendMovement was last called with
  up,        \* messages under way to the server
  \* the server
  pos,       \* the players' positions
  velocity,  \* and velocities
  bullet,    \* bullets: who fired, position, velocity
  dt,        \* frameTime of the tick that is being computed, or 0
  due,       \* bullets that it has not come to
  \* history
  told,      \* where the last messages to the clients put everything
  halted,    \* players the server stopped, or whose client has sent nothing
  fromBound  \* bullets that were fired at a bounding wall, touching it

clients == <<lastPos, up>>
vars == <<clients, pos, velocity, bullet, dt, due, told, halted, fromBound>>

-----------------------------------------------------------------------------
(* Components.cpp: circles and walls.                                       *)
Vector == [x : Int, y : Int]
Zero == [x |-> 0, y |-> 0]

GetNextPosition(at, v, time) == [x |-> at.x + time * v.x, y |-> at.y + time * v.y]
Vector2Scale(v, k) == [x |-> k * v.x, y |-> k * v.y]

(* SessionOptions adds the bounding walls to those of the configuration.    *)
BoundingWalls ==
  {[x1 |-> 0, y1 |-> 0, x2 |-> Width, y2 |-> 0],
   [x1 |-> Width, y1 |-> 0, x2 |-> Width, y2 |-> Height],
   [x1 |-> 0, y1 |-> Height, x2 |-> Width, y2 |-> Height],
   [x1 |-> 0, y1 |-> 0, x2 |-> 0, y2 |-> Height]}
Walls == InnerWalls \cup BoundingWalls

(* raylib: the distance to the closest point of the segment, and between    *)
(* the centres of two circles.                                              *)
Beyond(c, lo, hi) == IF c < lo THEN lo - c ELSE IF c > hi THEN c - hi ELSE 0

CheckCollisionCircleLine(c, r, w) ==
  LET dx == Beyond(c.x, w.x1, w.x2)
      dy == Beyond(c.y, w.y1, w.y2)
  IN  dx * dx + dy * dy <= r * r

CheckCollisionCircles(c1, r1, c2, r2) ==
  (c1.x - c2.x) * (c1.x - c2.x) + (c1.y - c2.y) * (c1.y - c2.y)
    <= (r1 + r2) * (r1 + r2)

(* CollideCircleLine over all walls.                                        *)
Blocked(at, r) == \E w \in Walls : CheckCollisionCircleLine(at, r, w)

AtBound(at, r) == \E w \in BoundingWalls : CheckCollisionCircleLine(at, r, w)

Inside(at) == at.x \in 0 .. Width /\ at.y \in 0 .. Height

(* The last conjunct keeps players inside the world: in one tick nobody can *)
(* cross a bounding wall, or pass by a corner, without touching it.         *)
ASSUME MovementAssumption ==
  /\ Players \cap Bullets = {}
  /\ None \notin Vector /\ None \notin [by : Players, at : Vector, v : Vector]
  /\ KeysOf \in [Players -> SUBSET {"W", "A", "S", "D"}]
  /\ Aims \subseteq {v \in [x : -1 .. 1, y : -1 .. 1] : v.x = 0 \/ v.y = 0}
  /\ {Width, Height, PlayerRadius, BulletRadius, PlayerSpeed, BulletSpeed,
      MaxDt, MaxBacklog, MaxLost} \subseteq Nat \ {0}
  /\ InnerWalls \subseteq [x1 : Int, y1 : Int, x2 : Int, y2 : Int]
  /\ Spawn \in Vector /\ Inside(Spawn) /\ ~Blocked(Spawn, PlayerRadius)
  /\ 2 * (MaxDt * PlayerSpeed) <= 3 * PlayerRadius

Flying == [by : Players, at : Vector, v : Vector]
Messages == [type : {"coords", "shoot"}, v : Vector]
Live == {b \in Bullets : bullet[b] # None}

TypeOK ==
  /\ lastPos \in [Players -> Vector \cup {None}]
  /\ up \in [Players -> Seq(Messages)]
  /\ pos \in [Players -> Vector]
  /\ velocity \in [Players -> Vector]
  /\ bullet \in [Bullets -> Flying \cup {None}]
  /\ dt \in 0 .. MaxDt
  /\ due \subseteq Live
  /\ told \in [Players \cup Bullets -> Vector \cup {None}]
  /\ halted \in [Players -> BOOLEAN]
  /\ fromBound \subseteq Live

Init ==
  /\ lastPos = [p \in Players |-> None]
  /\ up = [p \in Players |-> <<>>]
  /\ pos = [p \in Players |-> Spawn]
  /\ velocity = [p \in Players |-> Zero]
  /\ bullet = [b \in Bullets |-> None]
  /\ dt = 0 /\ due = {}
  /\ told = [o \in Players \cup Bullets |-> IF o \in Players THEN Spawn ELSE None]
  /\ halted = [p \in Players |-> TRUE] /\ fromBound = {}

-----------------------------------------------------------------------------
(* A client's frame.                                                        *)

(* PlayerController::Update: the later key wins.                            *)
ControllerVelocity(keys) ==
  [x |-> IF "A" \in keys THEN -PlayerSpeed
         ELSE IF "D" \in keys THEN PlayerSpeed ELSE 0,
   y |-> IF "S" \in keys THEN PlayerSpeed
         ELSE IF "W" \in keys THEN -PlayerSpeed ELSE 0]

(* SendMovement: the static lastPos is initialised by the first velocity,   *)
(* which is not sent, and only a change is sent.                            *)
SendMovement(p, v) ==
  IF lastPos[p] \in {None, v} THEN <<>> ELSE <<[type |-> "coords", v |-> v]>>

(* Bound: a shot is fired only while there is a bullet left for it.         *)
Shooting == {p \in Players : \E i \in DOMAIN up[p] : up[p][i].type = "shoot"}
MayShoot(p) ==
  /\ p \notin Shooting
  /\ Cardinality(Live) + Cardinality(Shooting) < Cardinality(Bullets)

SendShoot(target) == <<[type |-> "shoot", v |-> target]>>

(* Player::Update: what a click, or none, makes the scene send.             *)
Clicks == {<<>>} \cup {SendShoot(a) : a \in Aims}

(* Scene::Update: a click, then the keys.                                   *)
Frame(p) ==
  \E keys \in SUBSET KeysOf[p], shot \in Clicks :
    LET v == ControllerVelocity(keys)
        messages == shot \o SendMovement(p, v)
    IN  /\ shot # <<>> => MayShoot(p)
        /\ Len(up[p]) + Len(messages) <= MaxBacklog
        /\ up' = [up EXCEPT ![p] = @ \o messages]
        /\ lastPos' = [lastPos EXCEPT ![p] = v]
        /\ UNCHANGED <<pos, velocity, bullet, dt, due, told, halted, fromBound>>

-----------------------------------------------------------------------------
(* The server, between two ticks.                                           *)

(* "coords" is a velocity.                                                  *)
ProcessCoordsByAdding(p, m) ==
  /\ velocity' = [velocity EXCEPT ![p] = GetNextPosition(velocity[p], m.v, 1)]
  /\ halted' = [halted EXCEPT ![p] = FALSE]
  /\ UNCHANGED <<bullet, told, fromBound>>

ProcessCoords(p, m) ==
  /\ velocity' = [velocity EXCEPT ![p] = m.v]
  /\ halted' = [halted EXCEPT ![p] = FALSE]
  /\ UNCHANGED <<bullet, told, fromBound>>

(* "shoot": the bullet starts at the shooter's edge.                        *)
ProcessShoot(p, m) ==
  \E b \in Bullets \ Live :
    LET at == GetNextPosition(pos[p], m.v, PlayerRadius)
    IN  /\ bullet' = [bullet EXCEPT ![b] =
                        [by |-> p, at |-> at, v |-> Vector2Scale(m.v, BulletSpeed)]]
        /\ told' = [told EXCEPT ![b] = at]
        /\ fromBound' = IF AtBound(at, BulletRadius) THEN fromBound \cup {b} ELSE fromBound
        /\ UNCHANGED <<velocity, halted>>

ProcessMessage(p) ==
  /\ dt = 0 /\ up[p] # <<>>
  /\ LET m == Head(up[p])
     IN  IF m.type = "coords" THEN ProcessCoords(p, m) ELSE ProcessShoot(p, m)
  /\ up' = [up EXCEPT ![p] = Tail(@)]
  /\ UNCHANGED <<lastPos, pos, dt, due>>

-----------------------------------------------------------------------------
(* UpdateGameState.  A tick lasts at least one unit, as Run sleeps, and may *)
(* be late.                                                                 *)
BeginTick ==
  /\ dt = 0
  /\ dt' \in 1 .. MaxDt
  /\ due' = Live
  /\ UNCHANGED <<clients, pos, velocity, bullet, told, halted, fromBound>>

(* Bound: nothing stops a bullet that has left the world, and MaxLost       *)
(* outside of it the bullet is not followed any farther.                    *)
Followed(at) == at.x \in -MaxLost .. Width + MaxLost /\ at.y \in -MaxLost .. Height + MaxLost

NextOfBullet(b) ==
  GetNextPosition(bullet[b].at, bullet[b].v, IF Followed(bullet[b].at) THEN dt ELSE 0)
NextOfPlayer(p) == GetNextPosition(pos[p], velocity[p], dt)

Destroy(b) ==
  /\ bullet' = [bullet EXCEPT ![b] = None]
  /\ told' = [told EXCEPT ![b] = None]
  /\ fromBound' = fromBound \ {b}

BulletHitsWallAndGoesOn(b) ==
  /\ b \in due /\ UNCHANGED due
  /\ Blocked(NextOfBullet(b), BulletRadius)
  /\ Destroy(b)
  /\ UNCHANGED <<clients, pos, velocity, dt, halted>>

BulletStopsAtWall(b) ==
  /\ b \in due /\ due' = due \ {b}
  /\ Blocked(NextOfBullet(b), BulletRadius)
  /\ bullet' = [bullet EXCEPT ![b].v = Zero]
  /\ UNCHANGED <<clients, pos, velocity, dt, halted, told, fromBound>>

BulletHitsWall(b) ==
  /\ b \in due /\ due' = due \ {b}
  /\ Blocked(NextOfBullet(b), BulletRadius)
  /\ Destroy(b)
  /\ UNCHANGED <<clients, pos, velocity, dt, halted>>

(* The players but the shooter whose next position the bullet's touches.    *)
Struck(b) ==
  {p \in Players \ {bullet[b].by} :
     CheckCollisionCircles(NextOfPlayer(p), PlayerRadius,
                           NextOfBullet(b), BulletRadius)}

(* The first of them in the order of the view is sent back to the spawn     *)
(* position.  That it stands there now is told when the players are updated.*)
BulletHitsPlayer(b) ==
  /\ b \in due /\ due' = due \ {b}
  /\ ~Blocked(NextOfBullet(b), BulletRadius)
  /\ \E p \in Struck(b) :
       /\ pos' = [pos EXCEPT ![p] = Spawn]
       /\ velocity' = [velocity EXCEPT ![p] = Zero]
       /\ halted' = [halted EXCEPT ![p] = TRUE]
  /\ Destroy(b)
  /\ UNCHANGED <<clients, dt>>

BulletLooksTooLate(b) ==
  /\ b \in due /\ due' = due \ {b}
  /\ ~Blocked(bullet[b].at, BulletRadius)
  /\ Struck(b) = {}
  /\ bullet' = [bullet EXCEPT ![b].at = NextOfBullet(b)]
  /\ told' = [told EXCEPT ![b] = NextOfBullet(b)]
  /\ UNCHANGED <<clients, pos, velocity, dt, halted, fromBound>>

BulletFlies(b) ==
  /\ b \in due /\ due' = due \ {b}
  /\ ~Blocked(NextOfBullet(b), BulletRadius)
  /\ Struck(b) = {}
  /\ bullet' = [bullet EXCEPT ![b].at = NextOfBullet(b)]
  /\ told' = [told EXCEPT ![b] = NextOfBullet(b)]
  /\ UNCHANGED <<clients, pos, velocity, dt, halted, fromBound>>

(* A wall on a player's next position stops the player, who then moves on   *)
(* with the velocity that is left; every position is sent.                  *)
StoppedTooLate == {p \in Players : Blocked(pos[p], PlayerRadius)}
Stopped == {p \in Players : Blocked(NextOfPlayer(p), PlayerRadius)}

UpdateMovingPlayers ==
  /\ dt > 0 /\ due = {}
  /\ velocity' = [p \in Players |-> IF p \in Stopped THEN Zero ELSE velocity[p]]
  /\ pos' = [p \in Players |-> GetNextPosition(pos[p], velocity'[p], dt)]
  /\ told' = [o \in Players \cup Bullets |->
                IF o \in Players /\ velocity'[o] # Zero THEN pos'[o] ELSE told[o]]
  /\ halted' = [p \in Players |-> halted[p] \/ p \in Stopped]
  /\ dt' = 0
  /\ UNCHANGED <<clients, bullet, due, fromBound>>

UpdatePlayers ==
  /\ dt > 0 /\ due = {}
  /\ velocity' = [p \in Players |-> IF p \in Stopped THEN Zero ELSE velocity[p]]
  /\ pos' = [p \in Players |-> GetNextPosition(pos[p], velocity'[p], dt)]
  /\ told' = [o \in Players \cup Bullets |-> IF o \in Players THEN pos'[o] ELSE told[o]]
  /\ halted' = [p \in Players |-> halted[p] \/ p \in Stopped]
  /\ dt' = 0
  /\ UNCHANGED <<clients, bullet, due, fromBound>>

UpdateBullet == \E b \in Bullets : BulletHitsWall(b) \/ BulletHitsPlayer(b) \/ BulletFlies(b)

-----------------------------------------------------------------------------
Next ==
  \/ \E p \in Players : Frame(p) \/ ProcessMessage(p)
  \/ BeginTick \/ UpdateBullet \/ UpdatePlayers

Spec == Init /\ [][Next]_vars

(* Run's loop goes on: ticks begin and are computed.  Nothing is asked of   *)
(* the clients.                                                             *)
FairSpec == Spec /\ WF_vars(BeginTick) /\ WF_vars(UpdateBullet) /\ WF_vars(UpdatePlayers)

-----------------------------------------------------------------------------
(* Properties.                                                              *)

(* No tick leaves a player on a wall or outside of the world, however late  *)
(* it is (up to MaxDt) and wherever a hit sends the player                  *)
(* (GameServer.cpp:200, 219-227).                                           *)
WallsHold == \A p \in Players : Inside(pos[p]) /\ ~Blocked(pos[p], PlayerRadius)

(* Between ticks the clients have been told, by one message or another,     *)
(* where everything is - a player that was sent back to the spawn position  *)
(* too, whom the message of the hit does not name (GameServer.cpp:196-215,  *)
(* 227-235).                                                                *)
PositionsAgree ==
  dt = 0 =>
    \A o \in Players \cup Bullets :
      told[o] = IF o \in Players THEN pos[o]
                ELSE IF bullet[o] = None THEN None ELSE bullet[o].at

(* When nothing is under way from a client, its player moves as its keys    *)
(* say; or it stands, and only because the server has stopped it since its  *)
(* last change of keys or the client has never sent one                     *)
(* (NetworkClient.cpp:139-146; GameServer.cpp:201; Components.cpp:89).      *)
VelocityAgreement ==
  \A p \in Players :
    (\A i \in DOMAIN up[p] : up[p][i].type # "coords") =>
      velocity[p] = IF halted[p] THEN Zero ELSE lastPos[p]

(* Bullets that in no tick cross more than they span: 8.33 against 10 for   *)
(* config1.json when ticks are regular, and until a tick is a fifth late.   *)
StepWithinDiameter == MaxDt * BulletSpeed <= 2 * BulletRadius

(* "add bounding walls" (SessionOptions.hpp:32): no bullet leaves the world.*)
BulletsStayInside == \A b \in Live : Inside(bullet[b].at)

(* What is left of it with bullets that cross more than their radius in a   *)
(* tick, as the configured ones do, but not more than their diameter: only  *)
(* a bullet that was fired with its start touching a bounding wall leaves   *)
(* the world.  Walls are looked for at the next position alone, not on the  *)
(* way to it (GameServer.cpp:168-184; Components.cpp:82).                   *)
ClearShotsStayInside == \A b \in Live \ fromBound : Inside(bullet[b].at)

(* A bullet that was aimed anywhere ends, at a wall or a player             *)
(* (GameServer.cpp:168-205), or leaves the world, and then it was fired at  *)
(* a bounding wall.  One that was aimed at its shooter's own centre has no  *)
(* direction and stays (GameServer.cpp:128): it is not promised to end.     *)
BulletsEnd ==
  \A b \in Bullets :
    bullet[b] # None /\ bullet[b].v # Zero
      ~> bullet[b] = None \/ (b \in fromBound /\ ~Inside(bullet[b].at))
=============================================================================
