--------------------------- MODULE MapServerProofs ---------------------------
(***************************************************************************)
(* For any areas and stations, whatever cannot be opened and wherever the  *)
(* process ends: ids stay unique, memory, file and topics agree unless a   *)
(* request has failed, and on a disk that takes what is written a request  *)
(* answered with success has been done and is in the file.                 *)
(***************************************************************************)
EXTENDS MapServer, TLAPS

----------------------------------------------------------------------------
(* What the handlers do to a list.                                         *)

LEMMA FirstIsOnly ==
  ASSUME NEW k, NEW s \in Lists(k), NEW id, Positions(s, id) # {}
  PROVE  /\ First(s, id) \in 1..Len(s) /\ s[First(s, id)].id = id
         /\ \A i \in 1..Len(s) : s[i].id = id => i = First(s, id)
<1>1. PICK i \in 1..Len(s) : s[i].id = id
  BY DEF Positions
<1>2. Positions(s, id) = {i}
  BY <1>1 DEF Lists, UniqueIds, Positions
<1>3. i \in Int /\ i <= i
  BY DEF Lists
<1>4. First(s, id) = i
  BY <1>2, <1>3 DEF First, Min
<1>. QED  BY <1>1, <1>2, <1>4 DEF Positions

\* Saving leaves one entry with the id.
LEMMA SavedIn ==
  ASSUME NEW k, NEW s \in Lists(k), NEW e \in Entries(k)
  PROVE  Saved(s, e) \in Lists(k) /\ Positions(Saved(s, e), e.id) # {}
<1>1. s \in Seq(Entries(k)) /\ UniqueIds(s)
  BY DEF Lists
<1>2. CASE Positions(s, e.id) = {}
  <2> DEFINE t == Append(s, e)
  <2>1. /\ t \in Seq(Entries(k)) /\ Len(t) = Len(s) + 1 /\ Len(s) \in Nat
        /\ \A i \in 1..Len(s) : t[i] = s[i]
        /\ t[Len(s) + 1] = e
    BY <1>1
  <2>2. \A i \in 1..Len(s) : s[i].id # e.id
    BY <1>2 DEF Positions
  <2>3. UniqueIds(t)
    BY <1>1, <2>1, <2>2 DEF UniqueIds
  <2>4. Len(t) \in Positions(t, e.id)
    BY <2>1 DEF Positions
  <2>. QED  BY <1>2, <2>1, <2>3, <2>4 DEF Saved, Lists
<1>3. CASE Positions(s, e.id) # {}
  <2> DEFINE i == First(s, e.id)
             t == [s EXCEPT ![i] = e]
  <2>1. /\ i \in 1..Len(s)
        /\ \A j \in 1..Len(s) : s[j].id = e.id => j = i
    BY <1>3, FirstIsOnly
  <2>2. /\ t \in Seq(Entries(k)) /\ Len(t) = Len(s) /\ t[i] = e
        /\ \A j \in 1..Len(s) : j # i => t[j] = s[j]
    BY <1>1, <2>1
  <2>3. UniqueIds(t)
    BY <1>1, <2>1, <2>2 DEF UniqueIds
  <2>4. i \in Positions(t, e.id)
    BY <2>1, <2>2 DEF Positions
  <2>. QED  BY <1>3, <2>2, <2>3, <2>4 DEF Saved, Lists
<1>. QED  BY <1>2, <1>3

\* What concatenation does, in terms a prover without it can use.
LEMMA Concatenated ==
  ASSUME NEW E, NEW a \in Seq(E), NEW b \in Seq(E)
  PROVE  /\ a \o b \in Seq(E) /\ Len(a \o b) = Len(a) + Len(b)
         /\ \A j \in 1..(Len(a) + Len(b)) :
              (a \o b)[j] = IF j <= Len(a) THEN a[j] ELSE b[j - Len(a)]
  OBVIOUS

\* Removing leaves none.
LEMMA ErasedFrom ==
  ASSUME NEW k, NEW s \in Lists(k), NEW id, Positions(s, id) # {}
  PROVE  Erased(s, id) \in Lists(k) /\ Positions(Erased(s, id), id) = {}
<1> DEFINE i == First(s, id)
           a == SubSeq(s, 1, i - 1)
           b == SubSeq(s, i + 1, Len(s))
           t == a \o b
<1>1. s \in Seq(Entries(k)) /\ UniqueIds(s) /\ Len(s) \in Nat
  BY DEF Lists
<1>2. /\ i \in 1..Len(s) /\ s[i].id = id
      /\ \A j \in 1..Len(s) : s[j].id = id => j = i
  BY FirstIsOnly
<1>3. Erased(s, id) = t
  BY DEF Erased, RemoveAt
<1> HIDE DEF i
<1>4. /\ a \in Seq(Entries(k)) /\ Len(a) = i - 1
      /\ \A j \in 1..(i - 1) : a[j] = s[j]
  BY <1>1, <1>2
<1>5. /\ b \in Seq(Entries(k)) /\ Len(b) = Len(s) - i
      /\ \A j \in 1..(Len(s) - i) : b[j] = s[j + i]
  BY <1>1, <1>2
<1> HIDE DEF a, b
<1>6. /\ t \in Seq(Entries(k)) /\ Len(t) = Len(s) - 1
      /\ \A j \in 1..Len(t) : t[j] = IF j < i THEN a[j] ELSE b[j - (i - 1)]
  <2>1. t \in Seq(Entries(k)) /\ Len(t) = Len(a) + Len(b)
    BY <1>4, <1>5, Concatenated
  <2>2. \A j \in 1..(Len(a) + Len(b)) :
          t[j] = IF j <= Len(a) THEN a[j] ELSE b[j - Len(a)]
    BY <1>4, <1>5, Concatenated
  <2>3. Len(t) = Len(s) - 1
    BY <1>1, <1>2, <1>4, <1>5, <2>1
  <2> HIDE DEF t
  <2>4. \A j \in 1..Len(t) : j <= i - 1 <=> j < i
    BY <1>1, <1>2, <2>3
  <2>. QED  BY <1>4, <2>1, <2>2, <2>3, <2>4
<1>7. \A j \in 1..Len(t) : t[j] = IF j < i THEN s[j] ELSE s[j + 1]
  <2> SUFFICES ASSUME NEW j \in 1..Len(t)
               PROVE  t[j] = IF j < i THEN s[j] ELSE s[j + 1]
    OBVIOUS
  <2>1. CASE j < i
    BY <1>1, <1>2, <1>4, <1>6, <2>1
  <2>2. CASE ~(j < i)
    <3>1. t[j] = b[j - (i - 1)] /\ j - (i - 1) \in 1..(Len(s) - i)
      BY <1>1, <1>2, <1>6, <2>2
    <3>2. b[j - (i - 1)] = s[(j - (i - 1)) + i]
      BY <1>5, <3>1
    <3>3. (j - (i - 1)) + i = j + 1
      BY <1>1, <1>2, <1>6
    <3>. QED  BY <2>2, <3>1, <3>2, <3>3
  <2>. QED  BY <2>1, <2>2
<1> HIDE DEF t
<1>8. UniqueIds(t)
  <2> SUFFICES ASSUME NEW j \in 1..Len(t), NEW l \in 1..Len(t),
                      t[j].id = t[l].id
               PROVE  j = l
    BY DEF UniqueIds
  <2> DEFINE at(n) == IF n < i THEN n ELSE n + 1
  <2>1. /\ at(j) \in 1..Len(s) /\ at(l) \in 1..Len(s)
        /\ at(j) = at(l) => j = l
    BY <1>1, <1>2, <1>6
  <2>2. t[j] = s[at(j)] /\ t[l] = s[at(l)]
    BY <1>7
  <2> HIDE DEF at
  <2>. QED  BY <1>1, <2>1, <2>2 DEF UniqueIds
<1>9. Positions(t, id) = {}
  BY <1>1, <1>2, <1>6, <1>7 DEF Positions
<1>. QED  BY <1>3, <1>6, <1>8, <1>9 DEF Lists

----------------------------------------------------------------------------
(* The invariants.                                                         *)

RequestOK == /\ request.op \in {"start", "save", "remove"}
             /\ request.kind \in Kinds

\* Memory is the file from the moment it has been read back, and the topics
\* follow one by one.
Read == file.contents \in {"whole", "empty"} /\ current_map = file.map
InStep == /\ step \in {"publish", "draw"} => Read
          /\ step = "draw" => published = current_map
          /\ step = "idle" /\ ~failed =>
               Read /\ published = file.map /\ map_grid = {file.map["areas"]}

Inv == TypeOK /\ RequestOK /\ InStep

\* On a disk that takes what is written: the change is in memory as soon as
\* the handler has made it, and in the file as soon as it has been written.
Carried ==
  request.op # "start" =>
    /\ step \in {"open", "write", "load", "publish", "draw"} =>
         DoneIn(current_map)
    /\ step \in {"load", "publish", "draw"} =>
         file = File("whole", current_map)

PersistInv == Inv /\ Carried /\ SuccessIsPersisted

\* The part of TypeOK about the file.
FileOK ==
  /\ file \in [contents : {"missing", "empty", "partial", "whole"},
               map : {file.map}]
  /\ IsMap(file.map)
  /\ file.contents # "whole" => file.map = EmptyMap

LEMMA EmptyMapIsMap == IsMap(EmptyMap)
  BY DEF IsMap, EmptyMap, Kinds, Lists, UniqueIds

LEMMA InitInv == Init => PersistInv
<1> SUFFICES ASSUME Init
             PROVE  PersistInv
  OBVIOUS
<1>2. TypeOK
  <2>1. /\ IsMap(current_map) /\ published = NoMap /\ map_grid = {}
        /\ step \in Steps /\ code \in Codes /\ failed \in BOOLEAN
    BY EmptyMapIsMap DEF Init, Steps, Codes
  <2>2. PICK c \in {"missing", "empty", "whole"} : file = File(c, EmptyMap)
    BY DEF Init
  <2>3. FileOK
    BY <2>2, EmptyMapIsMap DEF FileOK, File
  <2>. QED  BY <2>1, <2>3 DEF TypeOK, FileOK
<1>3. RequestOK /\ InStep
  BY DEF Init, RequestOK, InStep, NoRequest, Kinds
<1>4. Carried /\ SuccessIsPersisted
  BY DEF Init, Carried, SuccessIsPersisted, NoRequest
<1>. QED  BY <1>2, <1>3, <1>4 DEF PersistInv, Inv

\* What a handler does to the map in memory: it changes one list.
LEMMA ChangeIsMap ==
  ASSUME IsMap(current_map), NEW k \in Kinds, NEW s \in Lists(k), Change(k, s)
  PROVE  IsMap(current_map') /\ current_map'[k] = s
  BY DEF IsMap, Change

LEMMA SaveStep ==
  ASSUME Inv, NEW k \in Kinds, SaveHandler(k)
  PROVE  Inv' /\ Carried' /\ SuccessIsPersisted'
<1>1. PICK e \in Entries(k) :
        Begin("save", k, e.id) /\ Change(k, Saved(current_map[k], e))
  BY DEF SaveHandler
<1>2. current_map[k] \in Lists(k)
  BY DEF Inv, TypeOK, IsMap
<1>3. /\ Saved(current_map[k], e) \in Lists(k)
      /\ Positions(Saved(current_map[k], e), e.id) # {}
  BY <1>2, SavedIn
<1>4. IsMap(current_map') /\ current_map'[k] = Saved(current_map[k], e)
  BY <1>1, <1>3, ChangeIsMap DEF Inv, TypeOK
<1>5. DoneIn(current_map)'
  BY <1>1, <1>3, <1>4 DEF DoneIn, Begin
<1>6. TypeOK'
  BY <1>1, <1>4 DEF SaveHandler, Change, topics, Inv, TypeOK, Steps, Codes
<1>7. RequestOK' /\ InStep' /\ Carried' /\ SuccessIsPersisted'
  BY <1>1, <1>5
     DEF Begin, Change, RequestOK, InStep, Carried, SuccessIsPersisted
<1>. QED  BY <1>6, <1>7 DEF Inv

LEMMA RemoveStep ==
  ASSUME Inv, NEW k \in Kinds, RemoveHandler(k)
  PROVE  Inv' /\ Carried' /\ SuccessIsPersisted'
<1>1. PICK id \in Ids(k) :
        /\ Begin("remove", k, id)
        /\ \/ /\ Positions(current_map[k], id) = {}
              /\ code' = "not found"
              /\ UNCHANGED <<current_map, step>>
           \/ /\ Positions(current_map[k], id) # {}
              /\ Change(k, Erased(current_map[k], id))
  BY DEF RemoveHandler
<1>2. current_map[k] \in Lists(k)
  BY DEF Inv, TypeOK, IsMap
<1>3. CASE code' = "not found" /\ UNCHANGED <<current_map, step>>
  BY <1>1, <1>3
     DEF RemoveHandler, Begin, topics, Inv, TypeOK, RequestOK, InStep, Read,
         Carried, SuccessIsPersisted, Steps, Codes
<1>4. CASE /\ Positions(current_map[k], id) # {}
           /\ Change(k, Erased(current_map[k], id))
  <2>1. /\ Erased(current_map[k], id) \in Lists(k)
        /\ Positions(Erased(current_map[k], id), id) = {}
    BY <1>2, <1>4, ErasedFrom
  <2>2. IsMap(current_map') /\ current_map'[k] = Erased(current_map[k], id)
    BY <1>4, <2>1, ChangeIsMap DEF Inv, TypeOK
  <2>3. DoneIn(current_map)'
    BY <1>1, <2>1, <2>2 DEF DoneIn, Begin
  <2>4. TypeOK'
    BY <1>4, <2>2 DEF RemoveHandler, Change, topics, Inv, TypeOK, Steps, Codes
  <2>5. RequestOK' /\ InStep' /\ Carried' /\ SuccessIsPersisted'
    BY <1>1, <1>4, <2>3
       DEF Begin, Change, RequestOK, InStep, Carried, SuccessIsPersisted
  <2>. QED  BY <2>4, <2>5 DEF Inv
<1>. QED  BY <1>1, <1>3, <1>4

\* Every step keeps the first invariant.
LEMMA StepInv ==
  ASSUME Inv, [Next]_vars
  PROVE  Inv'
<1> USE DEF Inv
<1>1. CASE OpenFile
  <2>1. FileOK'
    BY <1>1, EmptyMapIsMap DEF OpenFile, File, FileOK, TypeOK
  <2>2. TypeOK'
    BY <1>1, <2>1
       DEF OpenFile, Fail, topics, TypeOK, FileOK, Steps, Codes
  <2>3. RequestOK' /\ InStep'
    BY <1>1 DEF OpenFile, Fail, RequestOK, InStep
  <2>. QED  BY <2>2, <2>3
<1>2. CASE WriteFile
  BY <1>2, EmptyMapIsMap
     DEF WriteFile, topics, File, Damaged, TypeOK, RequestOK, InStep, Steps
<1>3. CASE LoadMap
  <2>1. TypeOK'
    BY <1>3 DEF LoadMap, Loaded, Fail, topics, TypeOK, Steps, Codes
  <2>2. RequestOK' /\ InStep'
    BY <1>3 DEF LoadMap, Loaded, Fail, topics, RequestOK, InStep, Read
  <2>. QED  BY <2>1, <2>2
<1>4. CASE PublishMap
  BY <1>4 DEF PublishMap, TypeOK, RequestOK, InStep, Read, Steps
<1>5. CASE PublishGrid
  <2>1. current_map["areas"] \in Lists("areas")
    BY DEF TypeOK, IsMap, Kinds
  <2>. QED  BY <1>5, <2>1
         DEF PublishGrid, TypeOK, RequestOK, InStep, Read, Steps, Codes
<1>6. CASE Start
  BY <1>6
     DEF Start, topics, NoRequest, TypeOK, RequestOK, InStep, Kinds, Steps,
         Codes
<1>7. CASE Crash
  BY <1>7, EmptyMapIsMap
     DEF Crash, File, Damaged, NoMap, TypeOK, RequestOK, InStep, Steps
<1>8. CASE UNCHANGED vars
  BY <1>8 DEF vars, topics, TypeOK, RequestOK, InStep, Read
<1>9. "areas" \in Kinds /\ "docking_stations" \in Kinds
  BY DEF Kinds
<1>. QED  BY <1>1, <1>2, <1>3, <1>4, <1>5, <1>6, <1>7, <1>8, <1>9, SaveStep,
             RemoveStep
       DEF Next, SaveAreaHandler, RemoveAreaHandler, SaveDockingStationHandler,
           RemoveDockingStationHandler

\* Every step keeps what is carried, if the disk takes what is written.
LEMMA StepPersist ==
  ASSUME "disk" \notin Faults, PersistInv, [Next]_vars
  PROVE  Carried' /\ SuccessIsPersisted'
<1> USE DEF PersistInv, Inv
<1>1. CASE OpenFile
  BY <1>1
     DEF OpenFile, Fail, topics, Carried, DoneIn, SuccessIsPersisted
<1>2. CASE WriteFile
  BY <1>2 DEF WriteFile, topics, Carried, DoneIn, SuccessIsPersisted
<1>3. CASE LoadMap
  BY <1>3
     DEF LoadMap, Loaded, Fail, topics, Carried, DoneIn, File,
         SuccessIsPersisted
<1>4. CASE PublishMap
  BY <1>4 DEF PublishMap, Carried, DoneIn, SuccessIsPersisted
<1>5. CASE PublishGrid
  BY <1>5 DEF PublishGrid, Carried, DoneIn, InStep, SuccessIsPersisted
<1>6. CASE Start
  BY <1>6 DEF Start, NoRequest, Carried, SuccessIsPersisted
<1>7. CASE Crash
  BY <1>7 DEF Crash, Carried, SuccessIsPersisted
<1>8. CASE UNCHANGED vars
  BY <1>8 DEF vars, topics, Carried, DoneIn, SuccessIsPersisted
<1>9. "areas" \in Kinds /\ "docking_stations" \in Kinds
  BY DEF Kinds
<1>. QED  BY <1>1, <1>2, <1>3, <1>4, <1>5, <1>6, <1>7, <1>8, <1>9, SaveStep,
             RemoveStep
       DEF Next, SaveAreaHandler, RemoveAreaHandler, SaveDockingStationHandler,
           RemoveDockingStationHandler

LEMMA AlwaysInv == Spec => []Inv
<1>1. Init => Inv
  BY InitInv DEF PersistInv
<1>2. Inv /\ [Next]_vars => Inv'
  BY StepInv
<1>. QED  BY <1>1, <1>2, PTL DEF Spec

----------------------------------------------------------------------------
(* The theorems.                                                           *)

\* Every variable keeps its type; in particular no sequence of requests,
\* failures and restarts leaves two areas or stations with one id.
THEOREM TypeCorrect == Spec => []TypeOK
<1>1. Inv => TypeOK
  BY DEF Inv
<1>. QED  BY <1>1, AlwaysInv, PTL

\* Between requests memory, file and topics agree, unless one has failed.
THEOREM InSync == Spec => []InSyncUnlessFailed
<1>1. Inv => InSyncUnlessFailed
  BY DEF Inv, InStep, Read, InSyncUnlessFailed
<1>. QED  BY <1>1, AlwaysInv, PTL

\* A request answered with success has been done and is in the file, as long
\* as the disk takes what is written to it.
THEOREM SuccessPersists ==
  ASSUME "disk" \notin Faults
  PROVE  Spec => []SuccessIsPersisted
<1>1. Init => PersistInv
  BY InitInv
<1>2. PersistInv /\ [Next]_vars => PersistInv'
  BY StepInv, StepPersist DEF PersistInv
<1>3. PersistInv => SuccessIsPersisted
  BY DEF PersistInv
<1>. QED  BY <1>1, <1>2, <1>3, PTL DEF Spec

=============================================================================
