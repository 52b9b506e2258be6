------------------------------ MODULE MapServer ------------------------------
(***************************************************************************)
(* The map_server node (src/map_server/map_server_node.cpp) and the file   *)
(* behind it (src/map_server/geo_json_map.cpp): services that save and     *)
(* remove areas and docking stations.  Each changes the map in memory,     *)
(* rewrites the whole file, reads the file back and publishes what it read.*)
(*                                                                         *)
(* One executor thread runs one handler at a time; a handler is taken      *)
(* apart where it can fail or the process can end with part of it done.    *)
(* Areas and stations are records with an id.  Of the grid drawn for Nav2  *)
(* this module knows which areas it shows (OccupancyGrid draws it); the    *)
(* markers and poses published for display are left out.                   *)
(***************************************************************************)
EXTENDS Naturals, Sequences, SequencesExt

CONSTANTS
  Areas, Stations, \* the areas and docking stations that may be saved
  Faults           \* what may go wrong: "open", "disk", "crash"

Kinds == {"areas", "docking_stations"}
Entries(k) == IF k = "areas" THEN Areas ELSE Stations
Ids(k) == {e.id : e \in Entries(k)}

ASSUME MapServerAssumption == Faults \subseteq {"open", "disk", "crash"}

VARIABLES
  current_map,   \* current_map_
  file,          \* the GeoJSON file at path_
  published,     \* what /map holds (transient local: gone with the process)
  map_grid,      \* the areas the grid on /map_grid shows: none or one list
  step,          \* where the handler is
  request,       \* the request it serves, or served last
  code,          \* the response to it
  failed         \* ghost: has a request failed since the last success?

topics == <<published, map_grid>>
vars == <<current_map, file, topics, step, request, code, failed>>

UniqueIds(s) == \A i, j \in 1..Len(s) : s[i].id = s[j].id => i = j
Lists(k) == {s \in Seq(Entries(k)) : UniqueIds(s)}
IsMap(m) == /\ DOMAIN m = Kinds
            /\ \A k \in Kinds : m[k] \in Lists(k)
EmptyMap == [k \in Kinds |-> <<>>]
NoMap == <<>>

\* map is what the file holds when it is whole, and the empty map otherwise.
File(contents, m) == [contents |-> contents, map |-> m]
Damaged == {File("empty", EmptyMap), File("partial", EmptyMap)}

NoRequest == [op |-> "start", kind |-> "areas", id |-> "none"]
Steps == {"down", "idle", "open", "write", "load", "publish", "draw"}
Codes == {"none", "success", "failed", "not found"}

----------------------------------------------------------------------------
(* The handlers: what they do to the map in memory.                        *)

Positions(s, id) == {i \in 1..Len(s) : s[i].id = id}
First(s, id) == Min(Positions(s, id))

\* Faulty: an entry is added whether or not its id is there.
SavedTwice(s, e) == Append(s, e)
Saved(s, e) ==
  IF Positions(s, e.id) = {} THEN Append(s, e)
  ELSE [s EXCEPT ![First(s, e.id)] = e]

Erased(s, id) == RemoveAt(s, First(s, id))

Begin(op, k, id) == request' = [op |-> op, kind |-> k, id |-> id]
Change(k, s) == /\ current_map' = [current_map EXCEPT ![k] = s]
                /\ code' = "none" /\ step' = "open"

SaveHandler(k) ==
  /\ step = "idle"
  /\ \E e \in Entries(k) : /\ Begin("save", k, e.id)
                           /\ Change(k, Saved(current_map[k], e))
  /\ UNCHANGED <<file, topics, failed>>

RemoveHandler(k) ==
  /\ step = "idle"
  /\ \E id \in Ids(k) :
       /\ Begin("remove", k, id)
       /\ \/ /\ Positions(current_map[k], id) = {}
             /\ code' = "not found"
             /\ UNCHANGED <<current_map, step>>
          \/ /\ Positions(current_map[k], id) # {}
             /\ Change(k, Erased(current_map[k], id))
  /\ UNCHANGED <<file, topics, failed>>

SaveAreaHandler             == SaveHandler("areas")
RemoveAreaHandler           == RemoveHandler("areas")
SaveDockingStationHandler   == SaveHandler("docking_stations")
RemoveDockingStationHandler == RemoveHandler("docking_stations")

----------------------------------------------------------------------------
(* saveAndPublishMap.                                                      *)

\* Faulty: the failure is not told.
FailSilently == code' = "success" /\ step' = "idle" /\ UNCHANGED failed
\* The exception is caught, what has been done stays done.
Fail == code' = "failed" /\ step' = "idle" /\ failed' = TRUE

\* std::ofstream out_file(path_) truncates the file if it can open it.
OpenFile ==
  /\ step = "open"
  /\ \/ /\ file' = File("empty", EmptyMap) /\ step' = "write"
        /\ UNCHANGED <<code, failed>>
     \/ /\ "open" \in Faults
        /\ Fail /\ UNCHANGED file
  /\ UNCHANGED <<current_map, topics, request>>

\* Nobody looks at the stream after writing to it.
WriteFile ==
  /\ step = "write" /\ step' = "load"
  /\ \/ file' = File("whole", current_map)
     \/ "disk" \in Faults /\ file' \in Damaged
  /\ UNCHANGED <<current_map, topics, request, code, failed>>

\* Faulty: the map is not read back.
NotLoaded == UNCHANGED current_map
Loaded == current_map' = file.map

\* publishMap loads first; an empty file is an empty map.  The exception of
\* a missing or damaged file ends the process if the node is just starting.
LoadMap ==
  /\ step = "load"
  /\ \/ /\ file.contents \in {"whole", "empty"}
        /\ Loaded /\ step' = "publish"
        /\ UNCHANGED <<code, failed>>
     \/ /\ file.contents \in {"partial", "missing"}
        /\ IF request.op = "start"
             THEN step' = "down" /\ UNCHANGED <<code, failed>> ELSE Fail
        /\ UNCHANGED current_map
  /\ UNCHANGED <<file, topics, request>>

PublishMap ==
  /\ step = "publish" /\ step' = "draw"
  /\ published' = current_map
  /\ UNCHANGED <<current_map, file, map_grid, request, code, failed>>

\* The grid goes out after the map.
PublishGrid ==
  /\ step = "draw" /\ step' = "idle"
  /\ map_grid' = {current_map["areas"]}
  /\ code' = "success" /\ failed' = FALSE
  /\ UNCHANGED <<current_map, file, published, request>>

----------------------------------------------------------------------------
(* The process.                                                            *)

Start ==
  /\ step = "down" /\ step' = "load"
  /\ request' = NoRequest /\ code' = "none"
  /\ UNCHANGED <<current_map, file, topics, failed>>

\* A file that was being written is left with a part of it.  One way to get
\* here needs no accident: gaussian_filter_, a raw pointer nothing sets while
\* blur is off, is tested and called through as the grid is drawn.
Crash ==
  /\ "crash" \in Faults /\ step # "down"
  /\ step' = "down"
  /\ IF step = "write" THEN file' \in Damaged ELSE UNCHANGED file
  /\ current_map' = EmptyMap /\ published' = NoMap /\ map_grid' = {}
  /\ UNCHANGED <<request, code, failed>>

\* The file a user starts with: none, an empty one, or one without features.
Init ==
  /\ file \in {File("missing", EmptyMap), File("empty", EmptyMap),
               File("whole", EmptyMap)}
  /\ current_map = EmptyMap /\ published = NoMap /\ map_grid = {}
  /\ step = "down" /\ request = NoRequest /\ code = "none"
  /\ failed = FALSE

Next == \/ SaveAreaHandler \/ RemoveAreaHandler
        \/ SaveDockingStationHandler \/ RemoveDockingStationHandler
        \/ OpenFile \/ WriteFile \/ LoadMap \/ PublishMap \/ PublishGrid
        \/ Start \/ Crash

Spec == Init /\ [][Next]_vars

----------------------------------------------------------------------------
(* Properties.                                                             *)

\* The type of every variable.  In memory, in the file and on the topic an
\* area or docking station is "uniquely identified by an ID".
TypeOK ==
  /\ IsMap(current_map)
  /\ published # NoMap => IsMap(published)
  /\ \A areas \in map_grid : areas \in Lists("areas")
  /\ file \in [contents : {"missing", "empty", "partial", "whole"},
               map : {file.map}]
  /\ IsMap(file.map)
  /\ file.contents # "whole" => file.map = EmptyMap
  /\ step \in Steps /\ code \in Codes /\ failed \in BOOLEAN

\* What the request asks of the map has been done.
DoneIn(m) ==
  request.op # "start" =>
    (Positions(m[request.kind], request.id) # {} <=> request.op = "save")

\* "After each operation, the map is published to the /map topic and
\* persisted" (docs/architecture/map-server.md:60): a request answered with
\* success has been done, and memory, file and topics agree on it.
SuccessIsPersisted ==
  step = "idle" /\ code = "success" /\ request.op # "start" =>
    /\ file = File("whole", current_map)
    /\ published = current_map /\ map_grid = {current_map["areas"]}
    /\ DoneIn(current_map)

\* The node never runs ahead of its file: between requests memory, file and
\* topics agree, unless a request has failed, whose change stays in memory.
InSyncUnlessFailed ==
  step = "idle" /\ ~failed =>
    /\ file.contents \in {"whole", "empty"}
    /\ current_map = file.map /\ published = file.map
    /\ map_grid = {file.map["areas"]}

=============================================================================
