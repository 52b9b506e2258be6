# Formal models of the AutoLawnmower nodes

TLA+ models of the ROS 2 nodes under `src/` of this repository, the TLC runs
that check them on small instances, and TLAPS proofs of the core results for
every value of the constants. `PROJECT.json` lists, for every definition, the
source lines it stands for, and for every property a plausible bug of that code
under which TLC finds the property violated. Source paths below are relative
to the repository.

Run a check with `tlc -workers 2 -config MCMission.cfg MCMissionManager.tla`,
the proofs with `tlapm MissionManagerProofs.tla` (any module whose name ends in
`Proofs`).

## 1. The system

The mower is a set of ROS 2 processes that talk over topics, services and
actions. Its own logic is in six nodes; the rest is Nav2, Fields2Cover and
robot_localization (external) and configuration.

| component | source | state it keeps | operations | talks to |
|---|---|---|---|---|
| mission_manager | `src/mission_manager/` | mission state, battery, the segments of the path and an index, two "goal active" flags, three retry counters and timers, `coverage_in_flight_` | start service, battery callback, 1 s tick, coverage response, goal response and result of three actions, three retry timers | coverage_server (service), Nav2 (`/navigate_to_pose`, `/follow_path`), docking_helper (`/dock_robot_nearest`) |
| path treatment | `mission_manager_node.cpp:181-376` | none (a pure function of the path) | split at jumps, merge or drop fragments, remove reversal spikes, weigh what is left | called by the coverage response |
| docking_helper | `src/docking_helper/` | docking stations of the last map; per goal: a detached thread, three atomics and a shared pointer to the Nav2 handle | map callback, goal and cancel handlers of two actions, the thread, goal response and result of the Nav2 client | map_server (topic), Nav2 (`/dock_robot`), mission_manager |
| map_recorder | `src/map_recorder/` | recording flag, mode, name and points of the area, handles of the last goals, charging flag, three services that exist while recording | goal and cancel handlers of two actions, their detached threads, three services, charging callback | map_server (service), Nav2 (`/drive_on_heading`), charger topic |
| map_server | `src/map_server/map_server_node.cpp` | the map in memory | save and remove an area or a docking station, publish, draw the occupancy grid | geo_json_map, everyone on `/map`, Nav2 on `/map_grid` |
| geo_json_map | `src/map_server/geo_json_map.cpp` | the file | load, save | map_server |
| coverage_server | `src/coverage_server/` | the last map | map callback, plan an area (Fields2Cover), cut out exclusions, make poses of swaths | map_server (topic), mission_manager |
| charger_presence_charging_dock | `src/docking_helper/charger_presence_charging_dock.cpp` | the last charger message | Nav2 plugin interface | Nav2 |
| sim_node | `src/sim/` | simulated battery and charger contact | contact callback, 1 s battery timer | `/power`, charger topic |

Where the behaviour is hard:

* **mission_manager** is single-threaded, so a callback is atomic, but every
  decision is about goals whose answers are still under way: results are
  matched by the *state* the mission is in, never by the goal they belong to.
  What makes it correct is that one and only one thing drives the mission at
  any time, that segments are mown once and in order, that retries are capped
  and that nothing drives the robot against the dock.
* **docking_helper** and **map_recorder** run a detached thread per goal
  beside the executor, talk through atomics or plain members, and both sides
  may end the goal. What makes them correct is that every goal ends exactly
  once and as what really happened, that cancelling works at every moment, and
  that a recording saves its own data.
* **map_server** changes memory, truncates and rewrites the file, reads it back
  and publishes, and can fail or die between any two of these.
* **the two pictures of the field** are made by two nodes from one map: Nav2
  drives by a grid painted in three passes with an iterator of its own, the
  mission mows what the coverage server plans from the last map that reached
  it. What makes them correct is that exclusions win in every order of saving,
  that the wall is one robot radius outside the areas, and that a path, swaths and
  headland rings, leaves the free cells nowhere but where the two pictures are
  known to differ: along the right and the upper edge of an exclusion, by rings.
* **simulation** closes the loop: the mission takes the success of docking for
  contact, and nothing tells it when the contact is lost.
* **path treatment** loops over a vector while changing it; each step creates
  new neighbours for the next.

## 2. Modules

| module | models | shape |
|---|---|---|
| `Mission` | what a mission promises | abstract specification |
| `MissionManager` | mission_manager, and the servers as it sees them | one action per callback; implements `Mission` |
| `MissionManagerProofs`, `MissionOrderProofs` | theorems about it in any environment, and about missions that do not overlap | TLAPS |
| `SimNode` | sim_node and the charging dock plugin | one action per timer and subscription |
| `SimMission` | a mission in simulation | composes `MissionManager` and `SimNode` with a robot that goals move |
| `SimMissionProofs` | a theorem about the composition | TLAPS |
| `PathSegmentation` | a coverage path from the swaths to the segments that are mown (coverage_server's `toMsg`, mission_manager's treatment) | one action per pass of a loop |
| `SegmentationProofs` | theorems about it | TLAPS |
| `GoalLifecycle` | what any action server promises for its goals | abstract specification |
| `DockingHelper` | docking_helper and Nav2's docking server | one action per stretch of code between two shared accesses; implements `GoalLifecycle` |
| `DockingProofs` | theorems about it | TLAPS |
| `MapRecorder` | map_recorder and its two servers | the same; implements `GoalLifecycle` |
| `MapRecorderProofs` | theorems about it | TLAPS |
| `MapServer` | map_server and geo_json_map | one action per handler and per step of saving |
| `MapServerProofs` | theorems about it | TLAPS |
| `OccupancyGrid` | drawing the grid: frame, iterator, painting, widening, stamping | operators |
| `CoverageServer` | answering a coverage request | operators |
| `Field` | the map server with both pictures of its map | composes `MapServer`, `OccupancyGrid` and `CoverageServer` |
| `FieldProofs` | theorems about the grid and the plans | TLAPS |
| `MC*` | symmetry, views and small inputs for TLC | |

`MissionManager` is checked alone and inside `SimMission`; `MapServer` is checked
only inside `Field`, which adds variables and steps of its own and none of
`MapServer`'s.

### Mission

Seven phases, how many segments the path has and which have been mown. It has no
goals, timers, retries or battery: those are how `MissionManager` keeps the
promise. The mapping (`Phase`, `HasPath`, `AbstractMission`) takes the seven
states to the phases and forgets the path when the mission fails or waits.

### MissionManager

Variables carry the names of the members (`state_` is `state`). Data is
reduced to what decisions depend on: a path is its number of segments,
`pending_path_` the index it was copied from, a goal the action it was sent to,
the segment it carries and how far it has got. `mowed`, `attempts`, `lost` and
the `stale` mark of a goal are ghosts: no action's guard reads them.

* Every callback (`HandleStartService`, `BatteryCallback`, the cases of
  `Tick`, `CoverageResponse`, `*Rejected`, `*Result`, `*RetryTimer`) is one
  action that contains everything it calls: sending a goal waits up to 5 s for
  the server *inside* the callback, so the choice "sent or ERROR" is part of the
  action, and so are the cancel requests and the retry bookkeeping.
* `AcceptGoal`, `RejectGoal`, `EndGoal`, `LoseGoal` and `LoseCoverageRequest`
  are the servers. Nav2's action servers preempt: accepting a goal aborts the
  running one of that action. A goal being cancelled may still succeed first.
* The node cancels with `async_cancel_all_goals` (`mission_manager_node.cpp:116`,
  :126), which needs no goal handle: it asks the server to cancel whatever it
  holds. `CancelAll` marks goals that the server has not answered yet as well,
  which assumes that it takes a waiting goal request before a cancel request
  that was sent later.
* An empty coverage path (a success of no poses) passes the 50 % guard and
  `path_segments_[0]` is read from an empty vector: undefined behaviour, after
  which the model stops (`Crashed`).
* `LateResults` states an assumption about time as a constant. With `FALSE` a
  new mission starts only when goals and timers of the last one have run out:
  a cancelled goal ends and a 3 s timer fires well before an operator restarts a
  mission in ERROR or a battery is full. With `TRUE` anything may overlap.

### SimNode, SimMission

Lengths are centimetres and voltages decivolts. `port` is the pose of the charging
port in the frame of the dock, from which `charger_present` is computed by one
timer and `is_charging` heard by the plugin; the voltage is counted up and down
by another timer, `Elapsed` being the time it finds since its last tick.

`SimMission` replaces the arbitrary battery of `MissionManager` by this one. A
goal that runs and is not being cancelled may put the port anywhere
(`MoveRobot`). Two assumptions: a goal that has been told to cancel no longer
moves the robot, and Nav2 reports a docking as succeeded only while the plugin
hears of contact and the contact is there (`ContactIsSeen`: 15 messages a second,
against a docking that takes many seconds).

### PathSegmentation

A pose is a position on a line in decimetres, so a turn is none or a reversal.
`stage` says which loop the code is in and `next` where that is: `toMsg` makes poses
of the swaths, at most 0.5 m apart, and the callback splits the path (up to the
next `push_back`), deals with fragments, removes spikes (one, after which the
segment is scanned again from its beginning) and weighs what is left; the
thresholds are the code's. Nothing interleaves with these loops; they are
steps so that an invariant can say what each of them keeps. `split` is a ghost: the
segments before fragments are dealt with. Orientations are left out:
`fixSegmentEndpointOrientations` changes nothing a decision depends on.

### GoalLifecycle, DockingHelper, MapRecorder

`GoalLifecycle` has one variable, the state of every goal handle: decided once,
asked to cancel while running, ended once, canceled only if asked.
rclcpp_action *throws* at a handler that breaks these rules and nothing in
the nodes catches it, so both node models have a state `"broken"` for it, which
no invariant allows.

In `DockingHelper` the executor's callbacks that touch two atomics are cut
between the accesses (`Result`, `ResultStop`, `ResultReport`; `GoalRejected`,
`GoalRejectedEnd`), with the variable `executor` remembering which callback the
one thread is in. `nav2` is external: it decides, ends, fails a goal when a
later one pushes it out, or stays silent. The client library forgets a handle
once it has handed its result to the callback, and `async_cancel_goal` throws for
a handle it has forgotten: nothing in the detached thread catches that
(`CancelThrows`), so the process ends (`terminated`) with every goal it held. The
promises of `GoalLifecycle` survive this, those about ending do not, and the
properties say so.

In `MapRecorder` the shared members are not atomic. The steps that use the vector
of points are the ones that can overlap with another use of it (`Racing`); when
they do the outcome is either as if they had not or `undefined`, after which the
model stops, as the program has no defined behaviour left.

### MapServer, OccupancyGrid, CoverageServer, Field

`step` is where the handler is: the process down, idle, opening (truncating) the
file, writing, loading it back, publishing the map, drawing the grid. `Faults`
says what can go wrong: `"open"` (the file cannot be opened), `"disk"` (what is
written does not arrive, and the code does not look), `"crash"` (the process ends
at any step and is started again; one way there needs no accident, the
uninitialised `gaussian_filter_`).

`OccupancyGrid` works in cells. A polygon has its corners on corners of cells;
the iterator samples lower left corners of cells, never the one it starts
from, and takes what lies on an edge for inside. A grid is its frame and the
set of its free cells: the interior of operation and navigation areas, widened by
a disc of the robot radius, without the exclusions.

`CoverageServer` is an operator: the refusals in their order, the field with
the exclusions cut out, and the squares that the path leads through, its
`mainland` and, if the mainland is not used up by headlands, the rings of its
`headland`. Fields2Cover is external; the model says of it how many whole squares
lie between the edge of the field and what it lays there. `RingDepths` and
`MainlandDepth` give these numbers, which follow from `operation_width_` and the
resolution. They say where swaths and rings may run, not where they do: a square
counts as mown over if the distance allows it.

`Field` composes them. `MapCallback` brings the map to the coverage server, late
or after the map server has gone. The properties compare the grid with a second
definition of a polygon's ground (winding numbers and edges) that shares no code
with the iterator. A polygon that crosses itself has the ground it winds around an
odd number of times, which is what counting crossings finds. `PlansAreDrivable`
takes the squares of a path that the grid keeps the mower out of (`Forbidden`). The
iterator counts an edge as inside, so the cells right of an exclusion and above it
are lethal (`Verge`), and there the outermost ring runs; anywhere else a forbidden
square would be a fault, and in the mainland inside headlands even there. The
property excepts the corner that the iterator skips. `WallIsKept` bounds
the free cells from both sides: within a robot radius of the ground, and at
least within one of what the iterator visits. Between the two lies only what
the corner that it skips would have added.

## 3. Runs

| run | shows |
|---|---|
| `mission` | Missions that do not overlap: the node implements the abstract mission (`ImplementsMission`), one driver (`OneDriver`), every segment mown by its own goal in order (`MowedInOrder`), no navigate or follow goal left to drive uncancelled once the mission has turned to the dock or failed, the retry cap, and that mowing, docking and planning come to an end |
| `mission_late` | Late answers and dying servers: coverage answers only meet REQUESTING_COVERAGE, docking is exclusive, nothing stalls unless a server has died |
| `mission_lost_coverage` | *violation*: one lost coverage request leaves the mission waiting for good |
| `sim_mission` | In simulation: while the mission takes itself to be charging, the charger is there (`ChargingIsReal`), and charging comes to an end (`ChargingEnds`) |
| `docking` | Ends exactly once, tells clients what Nav2 did, leaves no goal behind, answers every cancel request even if Nav2 is silent, unless the exception has ended the process |
| `docking_early_cancel` | *violation*: a goal cancelled before Nav2 has accepted it is reported canceled while docking goes on |
| `recorder` | Overlapping recordings: goals end once, nothing blocks the next recording, success means saved, no station without charging, nobody left driving |
| `recorder_serial` | With clients that wait for results, an area is saved with its own points and name; docking recordings and cancelled recordings end although servers may be silent |
| `recorder_mixed` | *violation*: a second recording accepted while the first is being processed changes what the first one saves |
| `segmentation` | All paths of up to 6 poses over 6 positions and all plans of up to 4 of 7 long swaths: a swath stays in one piece, no jumps, no spikes, only fragments and spikes lost |
| `field` | Ids stay unique, success means done and persisted, memory, file and topics agree unless a request has failed, also across crashes; in every field that comes about exclusions are lethal, the wall is where it should be, and paths lead into what the grid forbids only along the right and upper edges of exclusions, and only in headland rings |
| `field_disk` | *violation*: on a full disk the map is lost, and success is reported |

### Bounds, and why they are enough

* `GoalIds` bounds the goals whose answer has not been handled. Without
  overlapping missions at most two are out at once (the cancelled one and the
  dock goal), so two slots lose nothing; a step that needs a third slot is not
  taken in `mission_late`. `MaxSegments = 2` has a first, a middle (advance) and
  a last (dock) segment; `mission_late`'s properties do not depend on segments.
* `kMaxActionRetries` is 5 in the code; 3 (and 2) keep all the cases: below, at
  and past the limit. The counter is only compared with the limit, and the model
  stops it one past it.
* `BatteryReadings` are the two thresholds; the initial 100 is the third value.
* Two goals of one docking action cannot disturb each other except at Nav2,
  which one goal of each action already shows; two stations make "another
  station" and "no station" possible.
* Two area recordings and one docking recording are the smallest overlap of
  everything with everything. `MaxPoints = 3` is the least polygon.
* Segmentation: positions 0,2 | 4,5 | 16,18 have gaps of below, at and above
  both the fragment length and the jump; six poses give up to three segments.
  The maximal jump, leg and fragment thresholds are the code's own numbers. The
  long swaths are a mainland swath each way, one that comes back on itself,
  one shorter than the spacing of poses, one far away, and two without a length;
  paths of six arbitrary poses are swaths of a single point.
* Field: two ids with six shapes: a lawn with a reentrant corner or a triangular
  way with a closed ring under one id, so a save replaces one with the other, and
  under the other a pond that covers the lawn's reentrant corner and leaves lawn
  on its right and above it, a flood over everything, an exclusion of two points, or
  a way that leaves the lawn. Requests ask for no headland loops or for the
  mission's three. `RingDepths = {0, 1}` and `MainlandDepth = 1` are what the default
  `operation_width` of 0.065 m comes to in cells of 0.1 m (rings 0.03, 0.10 and
  0.16 m from the edge, the mainland from 0.195 m on). The simulation's 0.3 m
  (`launch/sim.launch.py:158`) would be `{1, 3, 4, 5, 6, 7}` and 6, for which the field
  is too small; the theorems hold for any depths. The
  padding (1 m), the robot radius (0.48 m, so squares up to 23 cells) and its
  disc are the code's defaults at 0.1 m; `MaxGridSize = 18` in place of 2000 is
  below the size of every frame, so that all of them are cut off.
* Sim: a battery from 28.7 V to just below empty in four levels, so that a
  percentage below 0, one between the thresholds and one beyond each occur; `LowestVoltage` ends
  the discharge of a robot that never gets to the dock. The port is in the dock
  or exactly on the tolerance, which is outside. One segment, one retry and two
  goal slots leave every way to CHARGING and out of it.

`MCMissionLate` uses symmetry on goal slots; no liveness is checked there.
`MCRecorder` uses a view that drops what no step's guard and none of its
properties reads (the contents of saved areas and points, and which area goal
was the last); `recorder_serial` checks the contents without a view.

Deadlock is switched off where the system stops by design or by undefined
behaviour: the mission without an operator or after the crash (alone and in simulation), the
recorder and docking when their bounded sets of goals are used up (docking also
when the exception has ended the process), and the segmentation, which is a
function. `Field` never stops.

### Fairness

* Mission: weak fairness of the tick, of every callback that has an answer to
  handle and of every retry timer (one executor thread serves its queue), and
  of the servers accepting or rejecting and ending a goal they hold. In
  `mission_lost_coverage` the coverage service is fair too, but may lose the
  request. No fairness for the operator, the battery, or a server's death.
  Fairness of `Tick` is enough for coverage to be requested again: the disjunct
  of `RequestCoveragePath` that does nothing (the service is not there yet) is
  a stuttering step and does not satisfy it, which is the assumption that the
  service comes up at some time.
* Docking: weak fairness of each thread and of the executor's callbacks; nothing
  at all of Nav2. `EndsWithNav2` is stated from the moment Nav2 has decided.
* Recorder: weak fairness of each thread, and strong fairness of
  `RunOutOfTime`, because the loop's condition is tested again and again and 60 s
  pass. Nothing of Nav2 or the map server, nothing of the clients, which wait for
  a result before they start another recording.
* Sim: the mission's, and weak fairness of the two timers of sim_node, of the
  plugin's subscription and of the battery subscription: three more executors
  that serve their queues. Nothing makes the robot move or the tf appear.

## 4. Proofs

`MissionManagerProofs` proves `TypeCorrect: Spec => []TypeOK` with no
assumption but `ConstantsAssumption` (naturals, Booleans and a positive
`MaxSegments`): for every number of goal slots, segments and retries, any
battery thresholds, dying servers and late answers. `TypeOK` is not inductive:
nothing in it says that the callback of a path is only reached with a path to
index, and advancing needs that too. The strengthening `IndexOK` says that while
the mission navigates or mows, `current_segment_index` is below `path_segments`
and `pending_path` is the segment it names, although goals and timers of an
earlier mission may still be out. One lemma per helper
(`CancelAll`, `StartLeg`, sending, retrying), then one step per action.

The module also proves `CoverageMeetsItsState` (the coverage answer, which
is applied without a look at `state_`, only ever meets REQUESTING_COVERAGE) and
`DockingIsExclusive` (at most one dock goal, exactly when the flag says so,
only in RETURNING_TO_DOCK, never beside an armed dock retry), again in the worst
environment. They rest on type correctness and on a joint inductive invariant.

`DockingProofs` proves that `DockingHelper` implements `GoalLifecycle`
(`KeepsThePromise: Spec => ImplementsLifecycle`), that clients are told what Nav2
did (`ResultsAreTrue`), that no thread leaves a goal behind (`NoGoalIsLeft`) and
type correctness, which here says that no terminal call is ever thrown back. They
hold for any number of goals of both actions, so also for two goals of one action
that push each other out at Nav2, which the run does not show. The
inductive invariant `Owner` says, for every place the thread and the executor may
be at, who will end the goal: `finished` goes up once, raised by the thread on its
way to `canceled` or by the result callback, which then reports; a rejection
raises `goal_rejected` instead, and no result ever follows a rejection. A step of
one goal leaves the others `Untouched`, but for Nav2 pushing them out
(`OtherGoals`).

In `DockingProofs` the invariant has a second half, `GoneInv`, for what holds after
the exception has ended the process.

`CancelAfterAcceptance` bounds what the run `docking_early_cancel` finds. A thread that
sees a cancel request before Nav2's goal handle has arrived ends its goal as canceled
and leaves Nav2 docking; the theorem says that this is the only way. Once the handle is
there and the thread not past the line that looks for it, the goal is never
`canceled` without Nav2 having been told. It is an invariant of the rest of the
goal's life (`ToldIfKnown`) and not of the whole of it, hence the box inside.

`MissionOrderProofs` proves, with no assumption on time, that no waiting state is
left without a goal, a timer or a dead server (`MissionNeverStalls`). The rest of
it assumes `~LateResults`: that segments are mown in order (`SegmentsInOrder`),
that nothing drives against the dock (`NothingIsLeftDriving`), that a driving
state has one driver (`DriverIsAlone`, which also needs that no server dies) and,
from these, that the node implements the abstract mission (`MissionIsKept`: every
step is a step of `Mission` or a stutter). None of them is inductive alone. That
a result belongs to the present leg, which the node never asks, rests on there
being one goal or one armed timer of the leg's action; that in turn on the
earlier legs having left nothing behind that could be taken for it. `OrderInv`
says what is out in every state and for which segment.

The module ends with the retry cap (`RetriesAreCapped`). `RetryInv` relates
the goals sent for a leg to its counter: at most one more than it shows, and none
more while the retry is still to come. Only navigation starts each leg at 0, which
is why the exact number holds for navigation alone.

`MissionRunsDown` is what `MowingEnds` and `DockingEnds` say beyond fairness, for any
number of segments and retries. Three numbers, compared in this order, are bounded:
the legs still to come (`LegsLeft`), the failures the leg may still meet
(`RetriesLeft`) and what is left of the present attempt (`StepsLeft`: the timer, to be
accepted, to end, to be answered). In a driving state each of the leg's moves lowers
them, a server's death included, and no other step of any actor raises them
(`RunsDown`). What is left for TLC is that these moves come, which is fairness and
ENABLED. The premise `~LateResults` is needed: with late results TLC refutes
`RunsDown`, because a goal of an earlier mission may be out beside the leg's own and
move in its place.

`SimMissionProofs` proves `ContactIsKept`: a mission that charges is on the
charger, for any ports and tolerances. `ContactInv` carries the contact from the
success of docking over the answer on its way to CHARGING; that it is not lost
there rests on `OneDockGoal` (no second dock goal moves the robot) and on
`OrderInv` (what was left driving has been told to stop). The simulation's two
assumptions above and `~LateResults` are the premises. The lemma
`SimulationIsAMission` carries the theorems about `MissionManager` over to the
composition, which it can because the composition was built so that the mission
takes no steps but its own.

`MapRecorderProofs` proves that `MapRecorder` implements `GoalLifecycle`, is never
blocked, saves stations only with charging, tells success only on the map
server's word and leaves nobody driving, for any number of overlapping recordings.
`Fits` says what is the case for each place a thread may be at, `FlagOK` that
somebody will lower the flag. With clients that wait (`OneAtATime`) areas do not mix
(`RecordingsDoNotMix`); without, `recorder_mixed` shows that they do.

`MapServerProofs` proves that ids stay unique (`TypeCorrect`), that memory, file
and topics agree between requests unless one has failed (`InSync`), and, if
`"disk"` is not among the `Faults`, that a success is done and persisted
(`SuccessPersists`). The invariant follows the map through the handler: changed in
memory, then in the file, then read back, then published, then drawn
(`InStep`), carrying what the request asked for (`Carried`). They speak of
`MapServer`; the lemma `FieldIsAMapServer` carries them over to `Field`, whose
steps were built to be `MapServer`'s or to leave its variables alone.

`SegmentationProofs` proves, for swaths of any number, length and place
(`SegmentationAssumption`: sequences of integer points), all that the
`segmentation` run checks:

* No segment jumps (`SegmentsDoNotJump`), there is something to mow
  (`SomethingIsLeft`) and no spike is left (`SpikesAreGone`). `SegmentInv` adds to
  these that no segment is empty, that the splitting of a path with poses has
  produced something as soon as it has begun, that merging is never left with
  nothing, and that the segments before `next` have no spikes. That taking out a
  spike makes no jump is arithmetic: the two legs point against each other, so
  the new one is shorter than the longer of them.
* Only fragments are lost (`WholeSegmentsAreKept`). `OrderInv` says that while the
  fragments are dealt with neighbours lie apart (`Apart`), which is why nothing is
  ever merged forward, so that `segments` is still `split`; and that `merged` holds
  the whole segments passed so far, by rank (`Listed`).
* A swath longer than the spacing of poses stays in one piece
  (`SwathsAreKeptWhole`). `WayInv` follows its poses into the path, into a
  segment and through merging. That they are no fragment rests on
  `SwathIsCovered` (the poses are dense and no shorter than the swath) and
  `CoveredIsWhole` (three poses, and 0.3 m).
* Nothing else becomes of the path. `SplitLosesNothing`: the split segments, one after
  another, are the path, cut before every jump and nowhere else. `CutUp` says so with
  the places of the cuts, each step of the loop adding one. `SegmentsAreThePath`: the
  segments the mission is given are what merging leaves of these, one for one, each
  less inner poses only (`Thinned`), so that the robot is sent to the first pose of a
  piece and given its last one to end at, whatever spikes are taken out. No run checks
  these two: they quantify over functions on the poses.
* The loops end (`EveryPassCounts`): each step goes to a later loop, or on towards an
  end that stays where it is, or shortens the segment being scanned. This is a
  variant, so that a loop that repeats a step for ever is excluded without any
  fairness; no run checks it.

The functions `SegmentLength` and `SwathPoses` are recursive. The induction theorems of
the library cannot be used with this prover, but that a non-empty set of naturals has
a least element can (`LeastNumber`, from `WFMin`); `Induction` and `Recursion`
follow from it, both about sets and functions and not about operators.

`FieldProofs` proves what the `field` run checks of the two pictures, for any
polygons with integer corners (`FieldAssumption`), any padding, radius, resolution
and maximal grid (`GridAssumption`: naturals, and a window of cells that
holds the disc, as `map_server_node.cpp:557` rounds it). It is stated both of
the fields that come about in the model and of every map that the map server has
drawn:

* Exclusions win in any order of saving (`ExclusionsWin`) and the wall is one robot
  radius outside (`WallIsMovedOut`). Both rest on `VisitedIsSampled`: the iterator's
  even-odd count and the winding number agree in parity at every point, because an
  edge crosses the ray upward or downward exactly if the iterator counts it
  (`CrossesIsTurn`), and the closed-edge test is the iterator's
  (`TouchesIsOnEdge`).
* The path of a mission, planned from the map that the grid shows, leaves the free
  cells only in the verge of an exclusion, and its mainland never does
  (`PlansAreKeptDrivable`), for any width of the tool (`CoverageAssumption`: the
  mainland keeps at least a square away from the edge).
  A plan made from an older map than the grid shows is not covered: it need not know
  of the newest exclusion, and nothing in the code prevents that. The other premise,
  `DrawnInSquares`, is the resolution of
  `CoverageServer`, which knows a field by whole squares: areas that are mown or
  excluded have edges along the lattice, and an exclusion has no part without width.
  `MCField` assumes it of its areas, so that TLC evaluates it on the run.
  The centre of a square and its corner then lie on the same side of every edge
  (`CornerIsMiddle`), so that the cell of a square that may be mown was painted, or
  is the corner the iterator skips; and one that an exclusion's paint covers is in the
  exclusion's verge (`InVerge`), so that it is not a square away from the edge of the
  field (`SquareOfPlan`).
* If no ring comes as close to the edge as a square (`0 \notin RingDepths`), the
  whole path is free (`WidePathsAreFree`). This holds for the 0.3 m that the
  simulation is launched with and not for the default width. No run checks it; TLC
  agreed to it with `RingDepths = {1}`.

Every safety property of a passing run is stated by a theorem, with the premises
named above. Only model-checked is liveness under fairness, which is out of the
prover's reach, as is ENABLED (of the first two the ranking is proved): `MowingEnds`, `DockingEnds`, `CoverageIsRequestedAgain`, `ChargingEnds`,
`EndsWithNav2`, `CancelIsAnswered`, `DockingRecordingEnds` and `CancelEnds`.

## 5. Disagreements met while modelling

Four have a run (the *violation* runs above) and are listed in `PROJECT.json`
under `findings`. Others, seen while translating the code and not given a run:

* `docs/phase2_test_plans.md:75` expects exactly 6 follow_path goals before
  ERROR. `follow_path_retry_count_` is reset only by a success, so after a
  low-battery return during retries the next leg starts with a used-up budget.
* `docs/phase2_test_plans.md:76` expects a stale result to be ignored. A late
  result of an earlier mission is taken for the current one's if it meets its
  state (`mission_manager_node.cpp:430`); `LateResults = TRUE` shows it.
* An empty successful path is read past its end at `mission_manager_node.cpp:199`,
  although the code at :403 treats an index past the segments as an ordinary case.
* `docs/phase2_test_plans.md:84` promises segments of at least 3 poses and 0.3 m;
  spikes are removed after fragments have been merged and can leave less.
  Merging a fragment forward never happens: segments are cut only where the gap
  is too large to merge across. Only the last fragment can be merged, and only
  when the fragments between it and the last kept segment have been dropped.
* The recorder removes its services when any recording ends, also when another
  has just created them (`map_recorder_node.cpp:366-370`).
* The docking thread's cancel request can meet a goal whose result has just been
  handled (`docking_helper_node.cpp:355`): `async_cancel_goal` throws in a detached
  thread and the whole node ends, although `docs/phase2_test_plans.md:191` expects
  CANCELED within 2 s. `CancelThrows` is the step.
* `docs/phase2_test_plans.md:166` expects every cell of an exclusion to be lethal.
  The iterator never samples the lower left corner of a polygon's bounding box, so
  that cell stays free if an area covers it. `docs/phase1_audit.md:37` says that
  the whole column `min_x_` is missed; it is one cell.
* `docs/phase2_test_plans.md:198` expects 0.3 V less after 60 s. A tick that comes
  less than a second after the last discharges nothing and moves the timestamp on
  (`sim_node.cpp:170-178`); a 1 s timer may well have many of them.
* The voltage is a float32 and the maximum a double: at full charge 28.7 as a
  float32 is more than 28.7, so a full battery is reported as OVERVOLTAGE
  (`sim_node.cpp:198`). The supply status stays CHARGING or FULL when the robot
  leaves the charger, because it is only set on it.
* `docs/architecture/sim-node.md:63` says that contact is made within 5 cm; the
  tolerance is 20 cm by 12 cm (`docs/phase2_test_plans.md:199` has the numbers of
  the code).
* `docs/architecture/map-server.md:37` says that an exclusion is not to be occupied by
  the robot. With the default `operation_width` of 0.065 m the outermost headland ring
  runs 0.03 m beside every exclusion (`coverage_server_node.cpp:252-269`), on its right
  and above it in cells that the grid stamps lethal, so that every mission with an
  exclusion in its lawn is sent through lethal cells. Whether exclusions are to be
  widened, and where, is an open decision (`docs/phase1_audit.md:36`), and
  `docs/phase2_test_plans.md:109` expects its "buffered clause" to fail until then:
  hence no run.
* A broken exclusion of fewer than three points refuses coverage of every area,
  wherever it lies (`coverage_server_node.cpp:179`): it is looked at before the
  test for contact with the area.

## 6. Not modelled, and the plan

Not modelled, because no state and no decision depends on it:
`fixSegmentEndpointOrientations`, the publishers of states, markers and previews,
the staging pose of the dock, the battery's status, health and charge voltage.

Not modelled, because it is arithmetic on reals that a model of small integers
says nothing about: the geometry of docks and poses, which station is nearest, the
projection to latitude and longitude, rounding in the iterator, the Gaussian blur.

Not modelled, because it is not this repository's code or has no behaviour:
Fields2Cover, Nav2 and robot_localization beyond how the nodes use them; launch
files, configuration, robot description, dashboards.

What has been done, most important behaviour first:

1. `MissionManager` with its runs; type correctness, coverage and docking proved.
2. `GoalLifecycle`, `DockingHelper`, `MapRecorder` with their refinements;
   `PathSegmentation`; `MapServer`.
3. `Mission`, the refinement to it and the proofs for missions that do not
   overlap; the proofs of the recorder and the map server.
4. `OccupancyGrid`, `CoverageServer` and their composition with the map server
   (`Field`); `SimNode` and its composition with the mission (`SimMission`), with a
   proof that joins both.
5. `PathSegmentation` taken apart into its loops, and the proofs of it
   (`SegmentationProofs`) and of the field (`FieldProofs`).
6. Proofs of what no run states: that the mission runs down, what becomes of the poses
   of a path, what an early cancel can break, and when a whole path is free.

What is left, in this order:

1. `Mower`: mission_manager with docking_helper in place of the abstract dock
   server, to carry a cancelled or preempted docking through both nodes. The
   mission's view of a dock goal (decided, ended once, canceled only when asked) is
   `GoalLifecycle`, which docking_helper is proved to keep; what the
   composition would add is the mission after docking_helper has been terminated
   (`"dock"` in `Lossy` stands for it).
2. The recorder with the map server in place of its two answers.
3. Polygons with corners off the lattice, so that the edge tolerance matters.
