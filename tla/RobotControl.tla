---------------------------- MODULE RobotControl ----------------------------
(***************************************************************************)
(* main.cpp: a finder is chosen, its path is turned into commands, and the *)
(* robot is driven along the lines of the scene, command by command, by    *)
(* loops that read the sensors out of the inbox and set the motors.        *)
(*                                                                         *)
(* The scene is external.  A line joins every two neighbouring free cells, *)
(* so that the robot sees a crossing when it comes to a cell with a line   *)
(* to one of its sides.  A read of the sensors has what the robot senses   *)
(* or, when nothing newer was received, what the program read last; at     *)
(* first that is uninitialised memory.  The robot is slow: what it senses  *)
(* changes only after the program has read it and reacted to it.  Once a   *)
(* walk was cut short by an obstacle the robot is astray, and reads        *)
(* anything.                                                               *)
(***************************************************************************)
EXTENDS GeneticAlgorithm

ASSUME SceneAssumption ==
    \A s \in FreeState :
        ~Blocked(s, s.theta) => \/ ~IsRightObstacle(Walk(s))
                                \/ ~IsLeftObstacle(Walk(s))

Sensor == {"L", "LM", "M", "RM", "R"}
Place == {"centre", "between", "ahead", "turned", "none"}
Reading == [place : Place, line : SUBSET Sensor, obstacle : BOOLEAN]

\* comando has not been assigned.  A command that was never given is -1.
Unset == -2
NoCommand == -1

VARIABLES
    connected,  \* simxGetConnectionId(clientID) != -1
    comando,
    reading,    \* position and orientation, reading*VS # 0 and readingMU
    origin,     \* where the position or the angle was read that the loop starts from
    turn,       \* turnright, turnleft
    motors,     \* the velocities of the motors
    pose,       \* scene: the cell and the heading last reached
    phase,      \* scene: how far the robot has got from there
    offset,     \* scene: how far the line is to the right of the robot
    obstacle,   \* scene: the middle ultrasonic sensor detects something
    astray      \* history: a walk was skipped or cut, or a handle is missing

findVars == <<population, path>>
sceneVars == <<pose, phase, offset, obstacle>>
vars == <<findVars, pc, connected, comando, reading, origin, turn, motors, sceneVars, astray>>

Init ==
    /\ population = {}
    /\ path = <<>>
    /\ pc = "select"
    /\ connected = FALSE
    /\ comando = Unset
    /\ reading = [place |-> "none", line |-> {}, obstacle |-> FALSE]
    /\ origin = "none"
    /\ turn = "none"
    /\ motors = "stop"
    /\ pose = Start
    /\ phase = "centre"
    /\ offset = 0
    /\ obstacle = FALSE
    /\ astray = FALSE

\* From now on nothing is known of the robot.
GoAstray ==
    /\ astray' = TRUE
    /\ pose' = Start
    /\ phase' = "centre"
    /\ offset' = 0
    /\ obstacle' = FALSE

-----------------------------------------------------------------------------
(* selectPathFinder *)

\* DepthFirstSearch and AStarSearch return a route; only the former compares the start
\* with the goal.
SelectPathFinder ==
    /\ pc = "select"
    /\ \/ /\ path' \in Routes(Start, Ends) \cup (IF Start \in Ends THEN {<<Start>>} ELSE {})
          /\ pc' = "found"
          /\ UNCHANGED population
       \/ /\ population' \in InitializePopulation
          /\ pc' = "evolving"
          /\ UNCHANGED path
       \* any other number: the finder is not initialised
       \/ /\ pc' = "undefined"
          /\ UNCHANGED findVars
    /\ UNCHANGED <<connected, comando, reading, origin, turn, motors, sceneVars, astray>>

driveVars == <<connected, comando, reading, origin, turn, motors, sceneVars, astray>>

Breed == CreateNewGeneration /\ UNCHANGED driveVars

FindPath == (SelectBest \/ FindPathGoingThrough) /\ UNCHANGED driveVars

\* What the arrays of the sensors may hold when they are allocated.
Uninitialised == [place : {"none"}, line : SUBSET Sensor, obstacle : {FALSE}]

\* The client number -1 of a failure is used as an index.
Connect ==
    /\ pc = "found"
    /\ reading' \in Uninitialised
    /\ \/ pc' = "handles" /\ connected' = TRUE
       \/ pc' = "undefined" /\ UNCHANGED connected
    /\ UNCHANGED <<findVars, comando, origin, turn, motors, sceneVars, astray>>

\* Each list of sensors is asked for until one of them is not found.  A handle that is
\* missing stays 0; of the ultrasonic sensors only the third is read.
GetHandles(robot, ultrasonic, vision, leftMotor, rightMotor) ==
    /\ pc = "handles"
    /\ IF robot /\ ultrasonic >= 3 /\ vision = 5 /\ leftMotor /\ rightMotor
       THEN UNCHANGED <<sceneVars, astray>> ELSE GoAstray
    /\ pc' = "top"
    /\ UNCHANGED <<findVars, connected, comando, reading, origin, turn, motors>>

-----------------------------------------------------------------------------
(* What the robot senses *)

SensedLine ==
    CASE phase = "centre" -> IF Blocked(pose, pose.theta) THEN {} ELSE {"M"}
      [] phase = "between" ->
            CASE offset = 0 -> {"M"}
              [] offset = 1 -> {"RM"}
              [] offset = 2 -> {"R"}
              [] offset = -1 -> {"LM"}
              [] offset = -2 -> {"L"}
              [] OTHER -> {}
      [] phase = "ahead" ->
            {"M"} \cup (IF IsLeftObstacle(Walk(pose)) THEN {} ELSE {"L", "LM"})
                  \cup (IF IsRightObstacle(Walk(pose)) THEN {} ELSE {"R", "RM"})
      [] OTHER -> {}

Sensed ==
    IF astray
    THEN [place : {"centre", "turned"}, line : {{}, {"M"}, Sensor}, obstacle : BOOLEAN]
    ELSE {[place |-> phase, line |-> SensedLine, obstacle |-> obstacle]}

\* A read fails once the connection is lost: the inbox was emptied.
Readable == {reading} \cup (IF connected THEN Sensed ELSE {})

OnCrossing(r) == "M" \in r.line /\ ("L" \in r.line \/ "R" \in r.line)

-----------------------------------------------------------------------------
(* The loop of main *)

\* get_next_command
NextCommand == IF Len(path) > 1 THEN ToCommand(path[1], path[2]) ELSE NoCommand

\* The end of the commands is looked for in what is left of the last pass.
ReturnEarly ==
    /\ pc = "top"
    /\ connected
    /\ comando \in {Unset, NoCommand}
    /\ pc' = "returned"
    /\ UNCHANGED <<findVars, connected, comando, reading, origin, turn, motors, sceneVars, astray>>

\* A walk is skipped when there is an obstacle; the command is used up all the same.
BeginPass(r) ==
    /\ pc = "top"
    /\ connected
    /\ comando # NoCommand
    /\ comando' = NextCommand
    /\ path' = IF Len(path) > 1 THEN Tail(path) ELSE path
    /\ reading' = r
    /\ origin' = r.place
    /\ pc' = IF comando' = WALK /\ ~r.obstacle THEN "leave"
             ELSE IF comando' \in {RIGHT, LEFT} THEN "turnAway" ELSE "endPass"
    /\ IF comando' = WALK /\ r.obstacle THEN GoAstray ELSE UNCHANGED <<sceneVars, astray>>
    /\ UNCHANGED <<population, connected, turn, motors>>

rest == <<findVars, connected, comando, turn, sceneVars, astray>>

\* The body of a loop: it sets the motors and reads the sensors.
Body(loop, speed, r) ==
    /\ pc = loop
    /\ motors' = speed
    /\ reading' = r
    /\ UNCHANGED <<pc, origin>>

Exit(loop, next) ==
    /\ pc = loop
    /\ pc' = next
    /\ origin' = reading.place
    /\ UNCHANGED <<motors, reading>>

LeaveJunction(r) ==
    /\ IF OnCrossing(reading) /\ ~reading.obstacle
       THEN Body("leave", "straight", r) ELSE Exit("leave", "follow")
    /\ UNCHANGED rest

\* Bug: the robot does not remember to which side it left the line.
Remembered_Nothing(line) == turn

\* turnright and turnleft
Remembered(line) ==
    IF {"R", "RM"} \cap line # {} THEN "right"
    ELSE IF {"L", "LM"} \cap line # {} THEN "left" ELSE turn

\* Towards the sensor that sees the line and, when none does, to where it was seen last.
Steered(line) ==
    IF {"R", "RM"} \cap line # {} THEN "bearRight"
    ELSE IF {"L", "LM"} \cap line # {} THEN "bearLeft"
    ELSE IF "M" \in line \/ turn = "none" THEN "straight"
    ELSE IF turn = "right" THEN "bearRight" ELSE "bearLeft"

\* Having steered to a side the program reads the sensors again, and it is this second
\* reading that decides whether the loop goes on.
FollowLine(r) ==
    \/ /\ ~OnCrossing(reading) /\ ~reading.obstacle
       /\ \E again \in {r} \cup (IF connected THEN Sensed ELSE {}) :
             /\ Steered(r.line) = "straight" => again = r
             /\ Body("follow", Steered(r.line), again)
       /\ turn' = Remembered(r.line)
       /\ UNCHANGED <<findVars, connected, comando, sceneVars, astray>>
    \/ /\ OnCrossing(reading) \/ reading.obstacle
       /\ Exit("follow", "reach")
       /\ UNCHANGED rest

\* On for DIS_RETO from where the crossing was seen.
ReachLine(r) ==
    \/ /\ reading.place = origin /\ ~reading.obstacle
       /\ Body("reach", "straight", r)
       /\ UNCHANGED rest
    \/ /\ reading.place # origin \/ reading.obstacle
       /\ Exit("reach", "endPass")
       /\ IF reading.place = origin THEN GoAstray ELSE UNCHANGED <<sceneVars, astray>>
       /\ UNCHANGED <<findVars, connected, comando, turn>>

Spin == IF comando = RIGHT THEN "right" ELSE "left"

\* Through less than a right angle from the angle that was read at first, which may have
\* been no angle of the robot; then the sensors are read.
TurnAway(r) ==
    /\ \/ reading.place # "turned" /\ Body("turnAway", Spin, r)
       \/ /\ reading.place = "turned" \/ (origin = "none" /\ reading.place # "none")
          /\ pc = "turnAway"
          /\ pc' = "leaveLine"
          /\ reading' = r
          /\ UNCHANGED <<motors, origin>>
    /\ UNCHANGED rest

LeaveLine(r) ==
    /\ IF "M" \in reading.line THEN Body("leaveLine", Spin, r) ELSE Exit("leaveLine", "findLine")
    /\ UNCHANGED rest

FindLine(r) ==
    /\ IF "M" \in reading.line THEN Exit("findLine", "endPass") ELSE Body("findLine", Spin, r)
    /\ UNCHANGED rest

\* Bug: the command is not cleared.
EndPass_KeepsCommand ==
    /\ pc = "endPass"
    /\ motors' = "stop"
    /\ pc' = "top"
    /\ UNCHANGED <<findVars, connected, comando, reading, origin, turn, sceneVars, astray>>

EndPass ==
    /\ pc = "endPass"
    /\ motors' = "stop"
    /\ comando' = 0
    /\ pc' = "top"
    /\ UNCHANGED <<findVars, connected, reading, origin, turn, sceneVars, astray>>

Finish ==
    /\ pc = "top"
    /\ ~connected
    /\ pc' = "finished"
    /\ UNCHANGED <<findVars, connected, comando, reading, origin, turn, motors, sceneVars, astray>>

Drive(r) ==
    \/ BeginPass(r) \/ LeaveJunction(r) \/ FollowLine(r) \/ ReachLine(r)
    \/ TurnAway(r) \/ LeaveLine(r) \/ FindLine(r)

-----------------------------------------------------------------------------
(* The scene *)

Loops == {"leave", "follow", "reach", "turnAway", "leaveLine", "findLine"}

\* The program has read what the robot senses, and the loop it is in goes on.
Reacted ==
    /\ connected
    /\ ~astray
    /\ Sensed = {reading}
    /\ \/ pc = "leave" /\ OnCrossing(reading) /\ ~reading.obstacle
       \/ /\ pc = "follow" /\ ~OnCrossing(reading) /\ ~reading.obstacle
          /\ motors = Steered(reading.line)
       \/ pc = "reach" /\ reading.place = origin /\ ~reading.obstacle
       \/ pc = "turnAway" /\ reading.place # "turned"
       \/ pc = "leaveLine" /\ "M" \in reading.line
       \/ pc = "findLine" /\ "M" \notin reading.line

programVars == <<findVars, pc, connected, comando, reading, origin, turn, motors>>

Advance ==
    /\ Reacted
    /\ motors = "straight"
    /\ offset = 0
    /\ IF SensedLine = {} THEN GoAstray
       ELSE /\ \/ phase = "centre" /\ phase' = "between" /\ UNCHANGED pose
               \/ phase = "between" /\ phase' = "ahead" /\ UNCHANGED pose
               \/ phase = "ahead" /\ phase' = "centre" /\ pose' = Walk(pose)
            /\ UNCHANGED <<offset, obstacle, astray>>
    /\ UNCHANGED programVars

\* What makes the robot drift is weaker than its motors (Fairness).
Drift ==
    /\ Reacted
    /\ phase = "between"
    /\ \E side \in {-1, 1} : offset' = offset + side
    /\ offset' \in -3 .. 3
    /\ UNCHANGED <<programVars, pose, phase, obstacle, astray>>

Bear ==
    /\ Reacted
    /\ phase = "between"
    /\ \/ motors = "bearRight" /\ offset' \in 0 .. offset - 1
       \/ motors = "bearLeft" /\ offset' \in offset + 1 .. 0
    /\ UNCHANGED <<programVars, pose, phase, obstacle, astray>>

Rotate ==
    /\ Reacted
    /\ motors \in {"right", "left"}
    /\ \/ phase = "centre" /\ phase' = "turned" /\ UNCHANGED pose
       \/ /\ phase = "turned"
          /\ phase' = "centre"
          /\ pose' = IF motors = "right" THEN TurnRight(pose) ELSE TurnLeft(pose)
    /\ UNCHANGED <<programVars, offset, obstacle, astray>>

\* An obstacle that goes away is as good as one that nobody has seen.
Obstruct ==
    /\ connected
    /\ ~astray
    /\ ~obstacle
    /\ obstacle' = TRUE
    /\ UNCHANGED <<programVars, pose, phase, offset, astray>>

Disconnect ==
    /\ connected
    /\ connected' = FALSE
    /\ UNCHANGED <<findVars, pc, comando, reading, origin, turn, motors, sceneVars, astray>>

-----------------------------------------------------------------------------
Next ==
    \/ SelectPathFinder
    \/ Breed
    \/ FindPath
    \/ Connect
    \/ \E robot, leftMotor, rightMotor \in BOOLEAN, ultrasonic, vision \in 0 .. 5 :
           GetHandles(robot, ultrasonic, vision, leftMotor, rightMotor)
    \/ ReturnEarly
    \/ \E r \in Readable : Drive(r)
    \/ EndPass
    \/ Finish
    \/ Advance
    \/ Drift
    \/ Bear
    \/ Rotate
    \/ Obstruct
    \/ Disconnect

\* The program runs on and gets new readings as long as it is connected; the motors move
\* the robot; the random numbers are what their name says.
Fairness ==
    /\ WF_vars(SelectFit /\ UNCHANGED driveVars)
    /\ \A k \in 1 .. MapSize - 1 : SF_vars(BreedCloser(k) /\ UNCHANGED driveVars)
    /\ WF_vars(EndPass)
    /\ WF_vars(IF connected THEN \E r \in Sensed : Drive(r) ELSE Drive(reading))
    /\ SF_vars(Advance)
    /\ SF_vars(Bear /\ offset' = 0)
    /\ SF_vars(Rotate)

Spec == Init /\ [][Next]_vars /\ Fairness

-----------------------------------------------------------------------------
(* Properties *)

TypeOK ==
    /\ population \subseteq Point /\ Cardinality(population) <= PopulationSize
    /\ path \in Seq(FreeState)
    /\ pc \in Loops \cup {"select", "evolving", "best", "found", "handles", "top", "endPass",
                          "returned", "finished", "undefined"}
    /\ connected \in BOOLEAN
    /\ comando \in {Unset, NoCommand, 0, WALK, RIGHT, LEFT}
    /\ reading \in Reading
    /\ origin \in Place
    /\ turn \in {"none", "right", "left"}
    /\ motors \in {"stop", "straight", "bearRight", "bearLeft", "right", "left"}
    /\ pose \in FreeState
    /\ phase \in {"centre", "between", "ahead", "turned"}
    /\ offset \in -3 .. 3
    /\ obstacle \in BOOLEAN
    /\ astray \in BOOLEAN

\* Between two commands the robot stands where the plan takes it to be: on the centre of the
\* cell, with the heading of the state its path has come to, and in an end state when the
\* commands are used up.  The loops only know lines: a walk goes on to the next crossing and
\* a turn to the next line, wherever that is.
FollowsPlan ==
    pc = "top" /\ ~astray =>
        /\ pose = path[1]
        /\ phase = "centre"
        /\ Len(path) = 1 => pose \in Ends

\* As long as the connection holds and nothing is in the way the robot comes to the end of
\* its plan: every loop over the sensors is left.
PlanIsUsedUp ==
    (pc = "top") ~> (Len(path) = 1 \/ astray \/ ~connected \/ pc = "returned")

\* The program never ends because its commands are used up: the -1 that says so has been
\* cleared when it is looked for, and it goes on until the connection is lost.  It ends at
\* once when the memory of comando holds a -1.
ReturnsOnlyUnset == pc = "returned" => comando = Unset
=============================================================================
