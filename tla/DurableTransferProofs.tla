----------------------- MODULE DurableTransferProofs -----------------------
(***************************************************************************)
(* What the steps of a transfer guarantee, for any tasks, files, names and *)
(* failures: what is done is in place, nothing is copied twice, and nobody *)
(* is asked to decide without a reason.                                    *)
(***************************************************************************)
EXTENDS DurableTransfer, FiniteSetTheorems, TLAPS

------------------------------------------------------------------------------
(* The inductive invariant.                                                *)

\* Where the handler of a task is says where its step is.
Placed(t) ==
    /\ pc[t] # "out" => ~Ended(t)
    /\ step[t] \in {"capture", "materialize"} => item[t] = None
    /\ step[t] \in {"rename", "done"} => item[t] # None
    /\ pc[t] \in {"waiting", "batched", "answered", "observing"} => begun[t]
    /\ pc[t] = "observing" => step[t] \in {"materialize", "rename"}

\* A request is for operations of one kind, and who is in it waits for its answer.
Batched ==
    /\ \A t \in Tasks : t \in batch <=> pc[t] = "batched"
    /\ batch = {} => called = "no"
    /\ \A t, u \in batch : Operation(t) = Operation(u)

\* Tasks that are worked on write different paths.
Locked == \A t, u \in Holding : t # u => Keys(t) \intersect Keys(u) = {}

Stopping ==
    /\ closed => closing /\ \A t \in Tasks : pc[t] = "out"
    /\ stopper # "off" => closing
    /\ stopper = "join" => closed
    /\ reported => closed /\ batch = {}

\* What is carried out late is a step of a task that has had it.
Floats ==
    \A f \in floating :
        /\ f.task \in late /\ step[f.task] # "capture"
        /\ f.op \in {"move", "copy"} => f.op = Mode[f.task]
        /\ f.op = "rename" => item[f.task] # None

\* The task that brings the file i into the folder, and the name it comes under.
Owner(t, i) == IF i \in Files THEN Mode[t] = "move" /\ Source[t] = i ELSE i[1] = t
OwnName(i) == IF i \in Files THEN Name[i] ELSE Name[Source[i[1]]]
Bears(i, n) == n = OwnName(i) \/ \E u \in Tasks : Claims(u, i) /\ n = Target[u]

\* What is in the folder was brought there, stays until somebody removes it, and is
\* named by who brought it or by who claims it.
Folder ==
    /\ \A i \in Files : cloud[i].at = "nowhere" <=> i \in removed
    /\ \A i \in Files : cloud[i].at = "target" => \E t \in Tasks : Owner(t, i)
    /\ \A i \in Copies :
         /\ cloud[i].at # "source"
         /\ cloud[i].at = "target" => i[2] <= made[i[1]]
         /\ i[2] <= made[i[1]] => cloud[i].at = "target" \/ i \in removed
         /\ i \in removed => i[2] <= made[i[1]] /\ cloud[i].at = "nowhere"
    /\ \A i \in Ids : Bears(i, cloud[i].name)

\* What a listing has shown was brought by a task; it is there, or was removed, or
\* renamed by who claims it.
Shown(t) ==
    /\ IsFiniteSet(seen[t])
    /\ \A x, y \in seen[t] : x.id = y.id => x = y
    /\ \A x \in seen[t] :
         /\ x.id \in removed \/ cloud[x.id].at = "target"
         /\ cloud[x.id].name = x.name \/ \E u \in Tasks : Claims(u, x.id)
         /\ Bears(x.id, x.name) /\ \E o \in Tasks : Owner(o, x.id)

Sole(t) == \A u \in Tasks \ {t} : ~Claims(u, item[t].id)

\* The renaming is confirmed, or is not needed.
Settled(t) ==
    \/ step[t] = "done"
    \/ step[t] = "rename" /\ pc[t] = "answered" /\ answer[t] = "ok"
    \/ step[t] = "rename" /\ \E x \in Renamed(t) : x.name = Target[t]

\* What a task claims has its content and is there; a task that is alone in its claim
\* finds it under the name it saw or the one it gave.
Claimed(t) ==
    item[t] # None =>
        LET i == item[t].id IN
        /\ ContentOf(i) = Content[Source[t]]
        /\ Mode[t] = "move" => i = Source[t]
        /\ i \in removed \/ cloud[i].at = "target"
        /\ Sole(t) =>
             /\ cloud[i].name \in {item[t].name, Target[t]}
             /\ \A x \in Renamed(t) : x.name \in {item[t].name, Target[t]}
             /\ Settled(t) => cloud[i].name = Target[t]
        /\ step[t] = "rename" /\ pc[t] = "observing" => i \in removed \/ Renamed(t) # {}

\* Who claims what another brought could not tell it from its own, and the other has
\* lost it to a twin.
Strangers ==
    \A t \in Tasks : \A i \in Ids : Claims(t, i) /\ ~Owner(t, i) =>
        HasTwin(t) /\ \A o \in Tasks : Owner(o, i) => HasTwin(o)

\* A copy was ordered again for a reason.
Excused(t) ==
    \/ t \in late
    \/ \E n \in 1 .. MaxCopies :
          <<t, n>> \in removed \/ \E u \in Tasks \ {t} : Claims(u, <<t, n>>)

\* The copy of a task is still to be asked for.
Untried(t) ==
    \/ step[t] = "capture"
    \/ step[t] = "materialize" /\ (\/ ~begun[t] \/ pc[t] = "waiting"
                                   \/ pc[t] = "batched" /\ called = "no")

Observing(t) == pc[t] = "observing" /\ step[t] = "materialize"

\* Without a reason a copy is made once, and an observation finds it.
Copying(t) ==
    /\ Mode[t] = "move" \/ step[t] = "capture" => made[t] = 0
    /\ \A n \in 1 .. MaxCopies : <<t, n>> \notin baseline[t]
    /\ Excused(t) \/ (/\ made[t] <= 1
                      /\ Untried(t) => made[t] = 0
                      /\ Observing(t) /\ made[t] = 1 =>
                            [id |-> <<t, 1>>, name |-> Name[Source[t]]] \in seen[t])

\* Without a late request an observation finds what was moved.
Moving(t) ==
    Observing(t) /\ Mode[t] = "move" /\ cloud[Source[t]].at = "target" =>
        t \in late \/ \E x \in seen[t] : x.id = Source[t]

Reviewed(t) ==
    step[t] = "review" => t \in blind \union late \/ removed # {} \/ HasTwin(t)

EachTask(t) ==
    Placed(t) /\ Shown(t) /\ Claimed(t) /\ Copying(t) /\ Moving(t) /\ Reviewed(t)

General ==
    /\ TypeOK /\ Batched /\ Locked /\ Stopping /\ Floats /\ Folder /\ Strangers
    /\ \A t \in Tasks : EachTask(t)
------------------------------------------------------------------------------
(* As long as nothing has gone wrong.                                      *)

\* The file a task has brought into the folder.
Own(t) == IF Mode[t] = "move" THEN Source[t] ELSE <<t, 1>>
Brought(t) == cloud[Own(t)].at = "target"

\* The listing or the folder shows t nothing but its own file.
OnlyOwn(t) ==
    \A i \in Ids : /\ cloud[i].at = "target" /\ cloud[i].name = Name[Source[t]]
                   /\ i \notin baseline[t]
                   => i = Own(t)

Listed(t) == pc[t] = "answered" \/ (pc[t] = "batched" /\ called = "listed")

SmoothTask(t) ==
    /\ step[t] # "review" /\ ~doubt[t] /\ answer[t] # "error" /\ pc[t] # "observing"
    /\ pc[t] # "out" => owned[t]
    /\ begun[t] => pc[t] \in {"waiting", "batched", "answered"}
    /\ pc[t] \in {"out", "entered"} => step[t] \in {"capture", "done"}
    /\ item[t] # None => item[t].id = Own(t)
    /\ Mode[t] = "copy" => cloud[Source[t]].at = "source"
    /\ made[t] <= 1
    /\ Brought(t) <=> ~Untried(t)
    /\ step[t] = "capture" /\ Mode[t] = "copy" /\ Listed(t) =>
         \A i \in Ids : cloud[i].at = "target" /\ cloud[i].name = Name[Source[t]]
                        => \E x \in seen[t] : x.id = i
    /\ step[t] = "materialize" /\ Mode[t] = "copy" => OnlyOwn(t)
    /\ step[t] = "materialize" /\ ~Untried(t) =>
          cloud[Own(t)].name = Name[Source[t]]
    /\ step[t] = "materialize" /\ Listed(t) =>
          \E x \in seen[t] : x.id = Own(t) /\ Matches(t) = {x}
    /\ step[t] = "rename" /\ pc[t] = "batched" /\ called # "no" => cloud[Own(t)].name = Target[t]
    /\ step[t] = "rename" /\ pc[t] = "batched" /\ called = "listed" =>
          \E x \in Renamed(t) : x.name = Target[t]

Smooth ==
    failures = 0 =>
        /\ late = {} /\ removed = {} /\ floating = {} /\ blind = {}
        /\ \A t \in Tasks : SmoothTask(t)

IInv == General /\ Smooth
------------------------------------------------------------------------------
(* Files, copies and who brought them.                                     *)

\* Where a task's file is and is to go.
LEMMA TaskTypes ==
    ASSUME NEW t \in Tasks
    PROVE  /\ Source[t] \in Files /\ Source[t] \in Ids /\ Target[t] \in Names
           /\ Name[Source[t]] \in Names /\ Mode[t] \in {"move", "copy"}
BY TaskAssumption DEF Ids

\* A copy knows the task that made it, and is no file of the source folder.
LEMMA CopyTypes ==
    ASSUME NEW i \in Copies
    PROVE  /\ i \in Ids /\ i \notin Files /\ i[1] \in Tasks /\ i[2] \in 1 .. MaxCopies
           /\ i = <<i[1], i[2]>>
BY NameAssumption DEF Ids, Copies

LEMMA CopyIs ==
    ASSUME NEW t \in Tasks, NEW n \in 1 .. MaxCopies
    PROVE  /\ <<t, n>> \in Copies /\ <<t, n>> \in Ids /\ <<t, n>> \notin Files
           /\ <<t, n>>[1] = t /\ <<t, n>>[2] = n
BY NameAssumption DEF Ids, Copies

LEMMA IdsAre == \A i \in Ids : i \in Files \/ i \in Copies
BY DEF Ids

\* What a task brings has its content, and comes under its name.
LEMMA OwnerBrings ==
    ASSUME NEW t \in Tasks, NEW i \in Ids, Owner(t, i)
    PROVE  ContentOf(i) = Content[Source[t]] /\ OwnName(i) = Name[Source[t]]
<1>1. CASE i \in Files
  BY <1>1 DEF Owner, ContentOf, OwnName
<1>2. CASE i \notin Files
  BY <1>2 DEF Owner, ContentOf, OwnName
<1> QED
  BY <1>1, <1>2

\* No two tasks bring the same entry into the folder: only one may move a file.
LEMMA OneOwner ==
    ASSUME NEW t \in Tasks, NEW u \in Tasks, NEW i \in Ids, Owner(t, i), Owner(u, i)
    PROVE  t = u
BY SourceAssumption DEF Owner

\* Whatever is in the folder was brought there by one of the tasks.
LEMMA HasOwner ==
    ASSUME TypeOK, Folder, NEW i \in Ids, cloud[i].at = "target"
    PROVE  \E t \in Tasks : Owner(t, i)
<1>1. CASE i \in Files
  BY <1>1 DEF Folder
<1>2. CASE i \in Copies
  BY <1>2, CopyTypes DEF Owner
<1> QED
  BY <1>1, <1>2, IdsAre

\* The cloud is finite, so that matches can be counted.
LEMMA FiniteIds == IsFiniteSet(Ids)
<1>1. IsFiniteSet(1 .. MaxCopies)
  BY BoundAssumption, FS_Interval
<1>2. IsFiniteSet(Copies)
  BY <1>1, TaskAssumption, FS_Product DEF Copies
<1> QED
  BY <1>2, TaskAssumption, FS_Union DEF Ids

\* A claim is on a file that was there.
LEMMA ClaimTypes ==
    ASSUME TypeOK, NEW t \in Tasks, NEW i, Claims(t, i)
    PROVE  item[t] \in Items /\ item[t].id = i /\ i \in Ids
BY DEF TypeOK, Claims, Items
------------------------------------------------------------------------------
(* Listings.                                                               *)

LEMMA ListingIs ==
    ASSUME TypeOK
    PROVE  /\ Listing \subseteq Items /\ IsFiniteSet(Listing)
           /\ \A i \in Ids : cloud[i].at = "target" => [id |-> i, name |-> cloud[i].name] \in Listing
           /\ \A x, y \in Listing : (x.id = y.id => x = y)
           /\ \A x \in Listing : /\ x.id \in Ids /\ cloud[x.id].at = "target"
                                 /\ x.name = cloud[x.id].name
                                 /\ x = [id |-> x.id, name |-> cloud[x.id].name]
<1> DEFINE there == {j \in Ids : cloud[j].at = "target"}
           f == [i \in there |-> [id |-> i, name |-> cloud[i].name]]
<1>1. Listing = {[id |-> i, name |-> cloud[i].name] : i \in there}
  BY DEF Listing
<1>2. \A i \in Ids : cloud[i].name \in Names
  BY DEF TypeOK
<1>3. f \in Surjection(there, Listing)
  BY <1>1 DEF Surjection
<1>4. IsFiniteSet(there)
  BY FiniteIds, FS_Subset
<1>5. IsFiniteSet(Listing)
  BY <1>3, <1>4, FS_Surjection
<1> QED
  BY <1>1, <1>2, <1>5 DEF Items

\* What an observation finds.
LEMMA MatchesAre ==
    ASSUME TypeOK, NEW t \in Tasks, Shown(t)
    PROVE  /\ Matches(t) \subseteq seen[t] /\ IsFiniteSet(Matches(t))
           /\ \A x \in Matches(t) :
                /\ x \in Items /\ x.id \in Ids
                /\ ContentOf(x.id) = Content[Source[t]]
                /\ Mode[t] = "move" => x.id = Source[t]
                /\ Mode[t] = "copy" => x.name = Name[Source[t]] /\ x.id \notin baseline[t]
<1>1. Matches(t) \subseteq seen[t]
  BY DEF Matches
<1>2. IsFiniteSet(Matches(t))
  BY <1>1, FS_Subset DEF Shown
<1>3. seen[t] \subseteq Items
  BY DEF TypeOK
<1>4. ContentOf(Source[t]) = Content[Source[t]]
  BY TaskTypes DEF ContentOf
<1> QED
  BY <1>1, <1>2, <1>3, <1>4, TaskTypes DEF Matches, Items
------------------------------------------------------------------------------
(* Steps in which the cloud stands still.                                  *)

Still ==
    /\ cloud' = cloud /\ item' = item /\ made' = made
    /\ late' = late /\ removed' = removed /\ floating' = floating

\* Facts about the folder outlast a step that leaves the cloud alone.
LEMMA WorldKept ==
    ASSUME TypeOK, Still, Folder, Strangers, Floats,
           \A t \in Tasks : step[t] # "capture" => step'[t] # "capture"
    PROVE  Folder' /\ Strangers' /\ Floats'
<1>1. Folder'
  BY DEF Folder, Still, Bears, Claims, OwnName, Owner
<1>2. Strangers'
  BY DEF Strangers, Still, Claims, Owner, HasTwin, Twins
<1>3. Floats'
  BY DEF Floats, Still, TypeOK
<1> QED
  BY <1>1, <1>2, <1>3

\* Locks stay exclusive while nobody goes past them.
LEMMA LocksKept ==
    ASSUME Locked, \A t \in Tasks : pc'[t] \notin {"out", "entered"} => pc[t] \notin {"out", "entered"}
    PROVE  Locked'
BY DEF Locked, Holding, Keys

\* A listing stays one of the folder while the folder stands still.
LEMMA ShownKept ==
    ASSUME TypeOK, Folder, Still, NEW t \in Tasks, Shown(t),
           seen'[t] \in {seen[t], {}, Listing}
    PROVE  Shown(t)'
<1>1. CASE seen'[t] = seen[t]
  BY <1>1 DEF Shown, Still, Bears, Claims, OwnName, Owner
<1>2. CASE seen'[t] = {}
  BY <1>2, FS_EmptySet DEF Shown
<1>3. CASE seen'[t] = Listing
  <2>1. \A x \in Listing : x.id \in Ids /\ cloud[x.id].at = "target" /\ x.name = cloud[x.id].name
    BY ListingIs
  <2>2. \A x \in Listing : \E o \in Tasks : Owner(o, x.id)
    BY <2>1, HasOwner
  <2>3. \A x \in Listing : Bears(x.id, x.name)
    BY <2>1 DEF Folder
  <2>4. IsFiniteSet(Listing) /\ \A x, y \in Listing : x.id = y.id => x = y
    BY ListingIs
  <2> QED
    BY <1>3, <2>1, <2>2, <2>3, <2>4 DEF Shown, Still, Bears, Claims, OwnName, Owner
<1> QED
  BY <1>1, <1>2, <1>3

\* What t finds when it observes the renaming of a file that it alone claims.
LEMMA SoleListing ==
    ASSUME TypeOK, NEW t \in Tasks, item[t] # None, Claimed(t), Folder, Sole(t)
    PROVE  \A x \in Listing : x.id = item[t].id =>
              x.name \in {item[t].name, Target[t]} /\ x.name = cloud[item[t].id].name
BY ListingIs DEF Claimed

\* The item a task has recorded stays its own while the cloud stands still.
LEMMA ClaimKept ==
    ASSUME TypeOK, Folder, Still, NEW t \in Tasks, Placed(t), Claimed(t), Shown(t),
           step'[t] = "rename" => step[t] = "rename",
           seen'[t] \in {seen[t], {}, Listing},
           pc'[t] = "observing" => seen'[t] = Listing \/ (pc[t] = "observing" /\ seen'[t] = seen[t]),
           Settled(t)' => \/ Settled(t)
                          \/ step[t] = "rename" /\ item[t].name = Target[t]
                          \/ seen'[t] = Listing /\ \E x \in Listing : x.id = item[t].id /\ x.name = Target[t]
    PROVE  Claimed(t)'
<1> SUFFICES ASSUME item'[t] # None PROVE Claimed(t)'
  BY DEF Claimed
<1> DEFINE i == item[t].id
<1>1. item' = item /\ cloud' = cloud /\ removed' = removed /\ item[t] # None /\ i \in Ids
  BY DEF Still, TypeOK, Items
<1>2. ContentOf(i) = Content[Source[t]] /\ (Mode[t] = "move" => i = Source[t])
      /\ (i \in removed \/ cloud[i].at = "target")
  BY <1>1 DEF Claimed
<1>3. Sole(t)' <=> Sole(t)
  BY <1>1 DEF Sole, Claims
<1>4. ASSUME Sole(t)
      PROVE  /\ cloud[i].name \in {item[t].name, Target[t]}
             /\ \A x \in Renamed(t)' : x.name \in {item[t].name, Target[t]}
             /\ Settled(t)' => cloud[i].name = Target[t]
  <2>1. cloud[i].name \in {item[t].name, Target[t]}
        /\ (\A x \in Renamed(t) : x.name \in {item[t].name, Target[t]})
        /\ (Settled(t) => cloud[i].name = Target[t])
    BY <1>1, <1>4 DEF Claimed
  <2>2. \A x \in Listing : x.id = i => x.name \in {item[t].name, Target[t]} /\ x.name = cloud[i].name
    BY <1>1, <1>4, SoleListing
  <2>3. Renamed(t)' = {x \in seen'[t] : x.id = i}
    BY <1>1 DEF Renamed
  <2>4. \A x \in Renamed(t)' : x.name \in {item[t].name, Target[t]}
    BY <2>1, <2>2, <2>3 DEF Renamed
  <2>5. Settled(t)' => cloud[i].name = Target[t]
    BY <2>1, <2>2
  <2> QED
    BY <2>1, <2>4, <2>5
<1>5. ASSUME step'[t] = "rename", pc'[t] = "observing"
      PROVE  i \in removed \/ Renamed(t)' # {}
  <2>1. CASE seen'[t] = Listing
    <3>1. CASE i \in removed
      BY <3>1
    <3>2. CASE cloud[i].at = "target"
      <4>1. [id |-> i, name |-> cloud[i].name] \in Listing
        BY <1>1, <3>2, ListingIs
      <4> QED
        BY <1>1, <2>1, <4>1 DEF Renamed
    <3> QED
      BY <3>1, <3>2, <1>2
  <2>2. CASE pc[t] = "observing" /\ seen'[t] = seen[t]
    BY <1>1, <1>5, <2>2 DEF Claimed, Renamed
  <2> QED
    BY <1>5, <2>1, <2>2
<1> QED
  BY <1>1, <1>2, <1>3, <1>4, <1>5 DEF Claimed

\* The same for the copies of a task, and for the file it moves.
LEMMA CopyKept ==
    ASSUME TypeOK, Folder, Still, NEW t \in Tasks, Placed(t), Copying(t), Moving(t),
           step'[t] = "capture" => step[t] = "capture",
           step'[t] = "materialize" /\ pc'[t] = "observing" => step[t] = "materialize",
           \A n \in 1 .. MaxCopies : <<t, n>> \notin baseline'[t],
           pc'[t] = "observing" => seen'[t] = Listing \/ (pc[t] = "observing" /\ seen'[t] = seen[t]),
           Untried(t)' => Untried(t) \/ made[t] = 0 \/ Excused(t)
    PROVE  Copying(t)' /\ Moving(t)'
<1>1. item' = item /\ cloud' = cloud /\ removed' = removed /\ made' = made /\ late' = late
  BY DEF Still
<1>2. Excused(t)' <=> Excused(t)
  BY <1>1 DEF Excused, Claims
<1>3. ASSUME ~Excused(t), Observing(t)', made[t] = 1
      PROVE  [id |-> <<t, 1>>, name |-> Name[Source[t]]] \in seen'[t]
  <2>1. CASE seen'[t] = Listing
    <3>1. <<t, 1>> \in Copies /\ <<t, 1>> \in Ids /\ <<t, 1>>[1] = t /\ <<t, 1>>[2] = 1
          /\ 1 \in 1 .. MaxCopies /\ <<t, 1>> \notin Files
      BY <1>3, BoundAssumption, CopyIs DEF TypeOK
    <3>2. <<t, 1>> \notin removed /\ \A u \in Tasks \ {t} : ~Claims(u, <<t, 1>>)
      BY <1>3, <3>1 DEF Excused
    <3>3. cloud[<<t, 1>>].at = "target"
      BY <1>3, <3>1, <3>2 DEF Folder
    <3>4. item[t] = None
      BY <1>3, <1>1 DEF Observing, Placed
    <3>5. cloud[<<t, 1>>].name = Name[Source[t]]
      BY <3>1, <3>2, <3>4 DEF Folder, Bears, OwnName, Claims
    <3> QED
      BY <2>1, <3>1, <3>3, <3>5, ListingIs
  <2>2. CASE pc[t] = "observing" /\ seen'[t] = seen[t]
    BY <1>1, <1>3, <2>2 DEF Copying, Observing
  <2> QED
    BY <1>3, <2>1, <2>2 DEF Observing
<1>4. Copying(t)'
  BY <1>1, <1>2, <1>3 DEF Copying
<1>5. ASSUME Observing(t)', Mode[t] = "move", cloud[Source[t]].at = "target", t \notin late
      PROVE  \E x \in seen'[t] : x.id = Source[t]
  <2>1. CASE seen'[t] = Listing
    BY <1>5, <2>1, TaskTypes, ListingIs
  <2>2. CASE pc[t] = "observing" /\ seen'[t] = seen[t]
    BY <1>1, <1>5, <2>2 DEF Moving, Observing
  <2> QED
    BY <1>5, <2>1, <2>2 DEF Observing
<1>6. Moving(t)'
  BY <1>1, <1>5 DEF Moving
<1> QED
  BY <1>4, <1>6

\* Whatever else happens to a task, as long as its step and the cloud stay as they are.
LEMMA TaskKept ==
    ASSUME TypeOK, Folder, Still, NEW t \in Tasks, EachTask(t), blind \subseteq blind',
           step'[t] = step[t], baseline'[t] = baseline[t], Placed(t)',
           seen'[t] \in {seen[t], {}, Listing},
           pc'[t] = "observing" => seen'[t] = Listing \/ (pc[t] = "observing" /\ seen'[t] = seen[t]),
           Untried(t)' => Untried(t),
           Settled(t)' => \/ Settled(t)
                          \/ step[t] = "rename" /\ item[t].name = Target[t]
                          \/ seen'[t] = Listing /\ \E x \in Listing : x.id = item[t].id /\ x.name = Target[t]
    PROVE  EachTask(t)'
<1>1. Shown(t)'
  BY ShownKept DEF EachTask
<1>2. Claimed(t)'
  BY ClaimKept DEF EachTask
<1>3. Copying(t)' /\ Moving(t)'
  BY CopyKept DEF EachTask, Copying
<1>4. Reviewed(t)'
  BY DEF EachTask, Reviewed, Still, HasTwin, Twins
<1> QED
  BY <1>1, <1>2, <1>3, <1>4 DEF EachTask

\* A task to which nothing happens.
LEMMA BystanderKept ==
    ASSUME TypeOK, Folder, Still, NEW t \in Tasks, EachTask(t), blind \subseteq blind',
           step'[t] = step[t], baseline'[t] = baseline[t], begun'[t] = begun[t],
           pc'[t] = pc[t], seen'[t] = seen[t], answer'[t] = answer[t],
           called' = "no" => called = "no" \/ pc[t] # "batched"
    PROVE  EachTask(t)'
<1>1. Placed(t)'
  BY DEF EachTask, Placed, Still, Ended
<1>2. Untried(t)' => Untried(t)
  BY DEF Untried
<1>3. Settled(t)' => Settled(t)
  BY DEF Settled, Renamed, Still
<1> QED
  BY <1>1, <1>2, <1>3, TaskKept
------------------------------------------------------------------------------
(* The host and the handlers.                                              *)

\* The steps of a handler before its request, one by one.
LEMMA BeginKeeps ==
    ASSUME General, NEW t \in Tasks, Begin(t)
    PROVE  General'
<1> USE DEF Begin, ledger, handler, coordinator, stop, history
<1>1. TypeOK'
  BY DEF General, TypeOK, PCs
<1>2. Batched' /\ Stopping'
  BY DEF General, Batched, Stopping, Operation, TypeOK
<1>3. Locked'
  BY LocksKept DEF General, TypeOK
<1>4. Still
  BY DEF Still
<1>5. Folder' /\ Strangers' /\ Floats'
  BY <1>4, WorldKept DEF General
<1>6. ASSUME NEW u \in Tasks PROVE EachTask(u)'
  <2>1. CASE u # t
    BY <1>4, <2>1, BystanderKept DEF General, TypeOK
  <2>2. CASE u = t
    <3>1. Placed(t)'
      BY DEF General, EachTask, Placed, TypeOK, Ended
    <3>2. (Untried(t)' => Untried(t)) /\ (Settled(t)' => Settled(t)) /\ pc'[t] = "entered"
      BY DEF Untried, Settled, Renamed, General, TypeOK
    <3> QED
      BY <1>4, <2>2, <3>1, <3>2, TaskKept DEF General, TypeOK
  <2> QED
    BY <2>1, <2>2
<1> QED
  BY <1>1, <1>2, <1>3, <1>5, <1>6 DEF General

LEMMA LockKeeps ==
    ASSUME General, NEW t \in Tasks, Lock(t)
    PROVE  General'
<1> USE DEF Lock, ledger, handler, coordinator, stop, history
<1>1. TypeOK'
  BY DEF General, TypeOK, PCs
<1>2. Batched' /\ Stopping'
  BY DEF General, Batched, Stopping, Operation, TypeOK
<1>3. Locked'
  BY DEF General, TypeOK, Locked, Holding, Keys
<1>4. Still
  BY DEF Still
<1>5. Folder' /\ Strangers' /\ Floats'
  BY <1>4, WorldKept DEF General
<1>6. ASSUME NEW u \in Tasks PROVE EachTask(u)'
  <2>1. CASE u # t
    BY <1>4, <2>1, BystanderKept DEF General, TypeOK
  <2>2. CASE u = t
    <3>1. Placed(t)'
      BY DEF General, EachTask, Placed, TypeOK, Ended
    <3>2. (Untried(t)' => Untried(t)) /\ (Settled(t)' => Settled(t)) /\ pc'[t] = "running"
      BY DEF Untried, Settled, Renamed, General, TypeOK
    <3> QED
      BY <1>4, <2>2, <3>1, <3>2, TaskKept DEF General, TypeOK
  <2> QED
    BY <2>1, <2>2
<1> QED
  BY <1>1, <1>2, <1>3, <1>5, <1>6 DEF General

LEMMA StartKeeps ==
    ASSUME General, NEW t \in Tasks, Start(t)
    PROVE  General'
<1> USE DEF Start, GoOn, ledger, handler, coordinator, stop, history
<1>1. TypeOK'
  BY DEF General, TypeOK, PCs
<1>2. Batched' /\ Stopping'
  BY DEF General, Batched, Stopping, Operation, TypeOK
<1>3. Locked'
  BY LocksKept DEF General, TypeOK
<1>4. Still
  BY DEF Still
<1>5. Folder' /\ Strangers' /\ Floats'
  BY <1>4, WorldKept DEF General
<1>6. ASSUME NEW u \in Tasks PROVE EachTask(u)'
  <2>1. CASE u # t
    BY <1>4, <2>1, BystanderKept DEF General, TypeOK
  <2>2. CASE u = t
    <3>1. Placed(t)'
      BY DEF General, EachTask, Placed, TypeOK, Ended
    <3>2. (Untried(t)' => Untried(t)) /\ (Settled(t)' => Settled(t)) /\ pc'[t] = "waiting"
      BY DEF Untried, Settled, Renamed, General, TypeOK
    <3> QED
      BY <1>4, <2>2, <3>1, <3>2, TaskKept DEF General, TypeOK
  <2> QED
    BY <2>1, <2>2
<1> QED
  BY <1>1, <1>2, <1>3, <1>5, <1>6 DEF General

LEMMA KeepNameKeeps ==
    ASSUME General, NEW t \in Tasks, KeepName(t)
    PROVE  General'
<1> USE DEF KeepName, ledger, handler, coordinator, stop, history
<1>1. TypeOK'
  BY DEF General, TypeOK, PCs
<1>2. Batched' /\ Stopping'
  BY DEF General, Batched, Stopping, Operation, TypeOK
<1>3. Locked'
  BY LocksKept DEF General, TypeOK
<1>4. Still
  BY DEF Still
<1>5. Folder' /\ Strangers' /\ Floats'
  BY <1>4, WorldKept DEF General
<1>6. ASSUME NEW u \in Tasks PROVE EachTask(u)'
  <2>1. CASE u # t
    BY <1>4, <2>1, BystanderKept DEF General, TypeOK
  <2>2. CASE u = t
    <3>1. Placed(t)'
      BY DEF General, EachTask, Placed, TypeOK, Ended
    <3>2. (Untried(t)' => Untried(t)) /\ step[t] = "rename" /\ item[t].name = Target[t]
          /\ pc'[t] = "answered"
      BY DEF Untried, General, TypeOK, NameFits
    <3> QED
      BY <1>4, <2>2, <3>1, <3>2, TaskKept DEF General, TypeOK
  <2> QED
    BY <2>1, <2>2
<1> QED
  BY <1>1, <1>2, <1>3, <1>5, <1>6 DEF General

LEMMA RecoverKeeps ==
    ASSUME General, NEW t \in Tasks, Recover(t)
    PROVE  General'
<1> USE DEF Recover, ledger, handler, coordinator, stop, history
<1>1. TypeOK'
  BY ListingIs DEF General, TypeOK, PCs
<1>2. Batched' /\ Stopping'
  BY DEF General, Batched, Stopping, Operation, TypeOK
<1>3. Locked'
  BY LocksKept DEF General, TypeOK
<1>4. Still
  BY DEF Still
<1>5. Folder' /\ Strangers' /\ Floats'
  BY <1>4, WorldKept DEF General
<1>6. ASSUME NEW u \in Tasks PROVE EachTask(u)'
  <2>1. CASE u # t
    BY <1>4, <2>1, BystanderKept DEF General, TypeOK
  <2>2. CASE u = t
    <3>1. Placed(t)'
      BY DEF General, EachTask, Placed, TypeOK, Ended, Steps
    <3>2. Untried(t)' => Untried(t)
      BY DEF Untried, General, TypeOK
    <3>3. CASE step[t] = "capture"
      <4>1. Settled(t)' => Settled(t)
        BY <3>3 DEF Settled
      <4> QED
        BY <1>4, <2>2, <3>1, <3>2, <3>3, <4>1, TaskKept DEF General, TypeOK
    <3>4. CASE step[t] # "capture"
      <4>1. pc'[t] = "observing" /\ seen'[t] = Listing
        BY <3>4 DEF General, TypeOK
      <4>2. Settled(t)' => \/ Settled(t)
                           \/ step[t] = "rename" /\ item[t].name = Target[t]
                           \/ seen'[t] = Listing /\ \E x \in Listing : x.id = item[t].id /\ x.name = Target[t]
        BY <4>1 DEF Settled, Renamed
      <4>3. /\ TypeOK /\ Folder /\ EachTask(t) /\ blind \subseteq blind'
            /\ step'[t] = step[t] /\ baseline'[t] = baseline[t]
        BY DEF General
      <4> HIDE DEF Recover
      <4> QED
        BY <1>4, <2>2, <3>1, <3>2, <4>1, <4>2, <4>3, TaskKept
    <3> QED
      BY <3>3, <3>4
  <2> QED
    BY <2>1, <2>2
<1> QED
  BY <1>1, <1>2, <1>3, <1>5, <1>6 DEF General

LEMMA LeaseLostKeeps ==
    ASSUME General, NEW t \in Tasks, LeaseLost(t)
    PROVE  General'
<1> USE DEF LeaseLost, Spend, ledger, handler, coordinator, stop, history
<1>1. TypeOK'
  BY BoundAssumption DEF General, TypeOK
<1>2. Batched' /\ Stopping'
  BY DEF General, Batched, Stopping, Operation
<1>3. Locked'
  BY LocksKept DEF General
<1>4. Still
  BY DEF Still
<1>5. Folder' /\ Strangers' /\ Floats'
  BY <1>4, WorldKept DEF General
<1>6. ASSUME NEW u \in Tasks PROVE EachTask(u)'
  BY <1>4, BystanderKept DEF General
<1> QED
  BY <1>1, <1>2, <1>3, <1>5, <1>6 DEF General

LEMMA DisownKeeps ==
    ASSUME General, NEW t \in Tasks, Disown(t)
    PROVE  General'
<1> USE DEF Disown, Leave, ledger, handler, coordinator, stop, history
<1>1. TypeOK'
  BY DEF General, TypeOK, PCs
<1>2. Batched' /\ Stopping'
  BY DEF General, Batched, Stopping, Operation, TypeOK
<1>3. Locked'
  BY LocksKept DEF General, TypeOK
<1>4. Still
  BY DEF Still
<1>5. Folder' /\ Strangers' /\ Floats'
  BY <1>4, WorldKept DEF General
<1>6. ASSUME NEW u \in Tasks PROVE EachTask(u)'
  <2>1. CASE u # t
    BY <1>4, <2>1, BystanderKept DEF General, TypeOK
  <2>2. CASE u = t
    <3>1. Placed(t)'
      BY DEF General, EachTask, Placed, TypeOK, Ended
    <3>2. (Untried(t)' => Untried(t)) /\ (Settled(t)' => Settled(t)) /\ pc'[t] = "out" /\ seen'[t] = {}
      BY DEF Untried, Settled, Renamed, General, TypeOK
    <3> QED
      BY <1>4, <2>2, <3>1, <3>2, TaskKept DEF General, TypeOK
  <2> QED
    BY <2>1, <2>2
<1> QED
  BY <1>1, <1>2, <1>3, <1>5, <1>6 DEF General

\* The batch worker: it forms a batch, captures, fails, or answers one operation.
LEMMA ExecuteKeeps ==
    ASSUME General, NEW T \in SUBSET Tasks, Execute(T)
    PROVE  General'
<1> USE DEF Execute, ledger, handler, coordinator, stop, history
<1>1. TypeOK'
  BY DEF General, TypeOK, PCs
<1>2. Batched' /\ Stopping'
  BY DEF General, Batched, Stopping, Operation, TypeOK
<1>3. Locked'
  BY LocksKept DEF General, TypeOK
<1>4. Still
  BY DEF Still
<1>5. Folder' /\ Strangers' /\ Floats'
  BY <1>4, WorldKept DEF General
<1>6. ASSUME NEW u \in Tasks PROVE EachTask(u)'
  <2>1. CASE u \notin T
    BY <1>4, <2>1, BystanderKept DEF General, TypeOK
  <2>2. CASE u \in T
    <3>1. Placed(u)'
      BY <2>2 DEF General, EachTask, Placed, TypeOK, Ended
    <3>2. (Untried(u)' => Untried(u)) /\ (Settled(u)' => Settled(u)) /\ pc'[u] # "observing"
      BY <2>2 DEF Untried, Settled, Renamed, General, TypeOK
    <3> QED
      BY <1>4, <3>1, <3>2, TaskKept DEF General, TypeOK
  <2> QED
    BY <2>1, <2>2
<1> QED
  BY <1>1, <1>2, <1>3, <1>5, <1>6 DEF General

LEMMA ListKeeps ==
    ASSUME General, List
    PROVE  General'
<1> USE DEF List, ledger, handler, coordinator, stop, history
<1>1. TypeOK'
  BY ListingIs DEF General, TypeOK
<1>2. Batched' /\ Stopping'
  BY DEF General, Batched, Stopping, Operation
<1>3. Locked'
  BY LocksKept DEF General
<1>4. Still
  BY DEF Still
<1>5. Folder' /\ Strangers' /\ Floats'
  BY <1>4, WorldKept DEF General
<1>6. ASSUME NEW u \in Tasks PROVE EachTask(u)'
  <2>1. CASE u \notin batch
    BY <1>4, <2>1, BystanderKept DEF General, TypeOK
  <2>2. CASE u \in batch
    <3>1. Placed(u)'
      BY DEF General, EachTask, Placed, Ended
    <3>2. (Untried(u)' => Untried(u)) /\ pc'[u] = "batched" /\ seen'[u] = Listing
      BY <2>2 DEF Untried, General, Batched, TypeOK
    <3>3. Settled(u)' => \/ Settled(u)
                         \/ step[u] = "rename" /\ item[u].name = Target[u]
                         \/ seen'[u] = Listing /\ \E x \in Listing : x.id = item[u].id /\ x.name = Target[u]
      BY <3>2 DEF Settled, Renamed
    <3>4. /\ TypeOK /\ Folder /\ EachTask(u) /\ blind \subseteq blind'
          /\ step'[u] = step[u] /\ baseline'[u] = baseline[u]
      BY DEF General
    <3> HIDE DEF List
    <3> QED
      BY <1>4, <3>1, <3>2, <3>3, <3>4, TaskKept
  <2> QED
    BY <2>1, <2>2
<1> QED
  BY <1>1, <1>2, <1>3, <1>5, <1>6 DEF General

LEMMA BatchFailsKeeps ==
    ASSUME General, BatchFails
    PROVE  General'
<1> USE DEF BatchFails, Spend, ledger, handler, coordinator, stop, history
<1>1. TypeOK'
  BY BoundAssumption DEF General, TypeOK, PCs
<1>2. Batched' /\ Stopping'
  BY DEF General, Batched, Stopping, Operation, TypeOK
<1>3. Locked'
  BY LocksKept DEF General, TypeOK, Batched
<1>4. Still
  BY DEF Still
<1>5. Folder' /\ Strangers' /\ Floats'
  BY <1>4, WorldKept DEF General
<1>6. ASSUME NEW u \in Tasks PROVE EachTask(u)'
  <2>1. CASE u \notin batch
    BY <1>4, <2>1, BystanderKept DEF General, TypeOK, Batched
  <2>2. CASE u \in batch
    <3>0. pc[u] = "batched"
      BY <2>2 DEF General, Batched
    <3>1. Placed(u)'
      BY <2>2, <3>0 DEF General, EachTask, Placed, TypeOK, Ended
    <3>2. (Untried(u)' => Untried(u)) /\ (Settled(u)' => Settled(u)) /\ pc'[u] # "observing"
      BY <2>2 DEF Untried, Settled, Renamed, General, TypeOK
    <3> QED
      BY <1>4, <3>1, <3>2, TaskKept DEF General, TypeOK
  <2> QED
    BY <2>1, <2>2
<1> QED
  BY <1>1, <1>2, <1>3, <1>5, <1>6 DEF General

\* A rename is confirmed only by a listing that shows the new name.
LEMMA RenameSeen ==
    ASSUME NEW t \in Tasks, step[t] = "rename", Observed(t) = "APPLIED"
    PROVE  \E x \in Renamed(t) : x.name = Target[t]
BY Zenon DEF Observed, ObservedRename

LEMMA AnswerKeeps ==
    ASSUME General, NEW t \in Tasks, Answer(t)
    PROVE  General'
<1> USE DEF Answer, ledger, handler, coordinator, stop, history
<1>0. pc[t] = "batched"
  BY DEF General, Batched
<1>1. TypeOK'
  BY DEF General, TypeOK, PCs
<1>2. Batched' /\ Stopping'
  BY <1>0 DEF General, Batched, Stopping, Operation, TypeOK
<1>3. Locked'
  BY <1>0, LocksKept DEF General, TypeOK
<1>4. Still
  BY DEF Still
<1>5. Folder' /\ Strangers' /\ Floats'
  BY <1>4, WorldKept DEF General
<1>6. ASSUME NEW u \in Tasks PROVE EachTask(u)'
  <2>1. CASE u # t
    BY <1>4, <2>1, BystanderKept DEF General, TypeOK, Batched
  <2>2. CASE u = t
    <3>1. Placed(t)'
      BY <1>0 DEF General, EachTask, Placed, TypeOK, Ended
    <3>2. (Untried(t)' => Untried(t)) /\ pc'[t] = "answered"
      BY <1>0 DEF Untried, General, TypeOK
    <3>3. ASSUME Settled(t)' PROVE Settled(t)
      <4>1. CASE step[t] = "rename" /\ answer'[t] = "ok"
        <5>1. Confirmed(t)
          BY <4>1 DEF General, TypeOK
        <5>2. Observed(t) = "APPLIED"
          BY <4>1, <5>1 DEF Confirmed
        <5> QED
          BY <4>1, <5>2, RenameSeen DEF Settled
      <4>2. CASE ~(step[t] = "rename" /\ answer'[t] = "ok")
        BY <3>3, <4>2 DEF Settled, Renamed
      <4> QED
        BY <4>1, <4>2
    <3> QED
      BY <1>4, <2>2, <3>1, <3>2, <3>3, TaskKept DEF General, TypeOK
  <2> QED
    BY <2>1, <2>2
<1> QED
  BY <1>1, <1>2, <1>3, <1>5, <1>6 DEF General

\* A crash or a reload forgets what is in memory, not the ledger.
LEMMA FreshKeeps ==
    ASSUME General, Fresh, failures' \in 0 .. MaxFailures
    PROVE  General'
<1> USE DEF Fresh, ledger, history
<1>1. TypeOK'
  BY DEF General, TypeOK, PCs
<1>2. Batched' /\ Stopping'
  BY DEF General, Batched, Stopping, Operation, TypeOK
<1>3. Locked'
  BY LocksKept DEF General, TypeOK
<1>4. Still
  BY DEF Still
<1>5. Folder' /\ Strangers' /\ Floats'
  BY <1>4, WorldKept DEF General
<1>6. ASSUME NEW u \in Tasks PROVE EachTask(u)'
  <2>1. Placed(u)'
    BY DEF General, EachTask, Placed, TypeOK, Ended
  <2>2. (Untried(u)' => Untried(u)) /\ (Settled(u)' => Settled(u))
    BY DEF Untried, Settled, Renamed, General, TypeOK
  <2> QED
    BY <1>4, <2>1, <2>2, TaskKept DEF General, TypeOK
<1> QED
  BY <1>1, <1>2, <1>3, <1>5, <1>6 DEF General

\* The steps of shutdown() touch neither the ledger nor the cloud.
LEMMA StopKeeps ==
    ASSUME General, Shutdown \/ CloseCoordinator \/ ReportStopped \/ GiveUp
    PROVE  General'
<1> USE DEF ledger, handler, coordinator, history
<1>1. TypeOK' /\ Stopping'
  <2>1. CASE Shutdown
    BY <2>1 DEF General, TypeOK, Stopping, Shutdown
  <2>2. CASE CloseCoordinator
    BY <2>2 DEF General, TypeOK, Stopping, CloseCoordinator
  <2>3. CASE ReportStopped
    BY <2>3 DEF General, TypeOK, Stopping, ReportStopped
  <2>4. CASE GiveUp
    BY <2>4, BoundAssumption DEF General, TypeOK, Stopping, GiveUp, Spend
  <2> QED
    BY <2>1, <2>2, <2>3, <2>4
<1>2. /\ UNCHANGED <<cloud, ledger, handler, coordinator, floating, history>>
  BY DEF Shutdown, CloseCoordinator, ReportStopped, GiveUp
<1>3. Batched'
  BY <1>2 DEF General, Batched, Operation
<1>4. Locked'
  BY <1>2, LocksKept DEF General
<1>5. Still
  BY <1>2 DEF Still
<1>6. Folder' /\ Strangers' /\ Floats'
  BY <1>2, <1>5, WorldKept DEF General
<1>7. ASSUME NEW u \in Tasks PROVE EachTask(u)'
  BY <1>2, <1>5, BystanderKept DEF General
<1> QED
  BY <1>1, <1>3, <1>4, <1>6, <1>7 DEF General
------------------------------------------------------------------------------
(* Results on record.                                                      *)

\* A task that goes on to its next step, tries this one again or ends.
LEMMA StepKept ==
    ASSUME TypeOK, Folder, Still, NEW t \in Tasks, EachTask(t), Placed(t)',
           blind \subseteq blind', seen'[t] = {}, pc'[t] # "observing",
           step'[t] = "rename" => step[t] = "rename",
           step'[t] = "capture" => step[t] = "capture",
           step'[t] = "review" => t \in blind' \union late \/ removed # {} \/ HasTwin(t),
           \A n \in 1 .. MaxCopies : <<t, n>> \notin baseline'[t],
           Untried(t)' => Untried(t) \/ made[t] = 0 \/ Excused(t),
           Settled(t)' => Settled(t)
    PROVE  EachTask(t)'
<1>1. Shown(t)'
  BY ShownKept DEF EachTask
<1>2. Claimed(t)'
  BY ClaimKept DEF EachTask
<1>3. Copying(t)' /\ Moving(t)'
  BY CopyKept DEF EachTask
<1>4. Reviewed(t)'
  BY DEF Reviewed, Still, HasTwin, Twins
<1> QED
  BY <1>1, <1>2, <1>3, <1>4 DEF EachTask

\* The cloud, the coordinator and the other tasks know nothing of a record.
OnRecord(t) ==
    /\ pc[t] \in {"answered", "observing"} /\ blind' \in {blind, blind \union {t}}
    /\ UNCHANGED <<cloud, coordinator, floating, stop, made, late, removed, failures>>

\* The host records the baseline of the folder.
LEMMA CapturedKeeps ==
    ASSUME General, NEW t \in Tasks, OnRecord(t), Captured(t)
    PROVE  General'
<1> USE DEF OnRecord, Captured, GoOn, coordinator, stop
<1>1. TypeOK'
  <2>1. {x.id : x \in seen[t]} \subseteq Ids
    BY DEF General, TypeOK, Items
  <2> QED
    BY <2>1 DEF General, TypeOK, PCs, Steps
<1>2. Batched' /\ Stopping'
  BY DEF General, Batched, Stopping, Operation, TypeOK
<1>3. Locked'
  BY LocksKept DEF General, TypeOK
<1>4. Still
  BY DEF Still
<1>5. Folder' /\ Strangers' /\ Floats'
  BY <1>4, WorldKept DEF General, TypeOK
<1>6. ASSUME NEW u \in Tasks PROVE EachTask(u)'
  <2>1. CASE u # t
    BY <1>4, <2>1, BystanderKept DEF General, TypeOK
  <2>2. CASE u = t
    <3>1. Placed(t)' /\ step'[t] = "materialize" /\ seen'[t] = {} /\ pc'[t] = "running"
      BY DEF General, EachTask, Placed, TypeOK, Ended
    <3>2. made[t] = 0
      BY DEF General, EachTask, Copying
    <3>3. ASSUME NEW n \in 1 .. MaxCopies PROVE <<t, n>> \notin baseline'[t]
      <4>1. \A x \in seen[t] : x.id \in removed \/ cloud[x.id].at = "target"
        BY DEF General, EachTask, Shown
      <4>2. <<t, n>> \notin removed /\ cloud[<<t, n>>].at # "target"
        BY <3>2, CopyIs, BoundAssumption DEF General, Folder
      <4>3. baseline'[t] = {x.id : x \in seen[t]}
        BY DEF General, TypeOK
      <4> HIDE DEF Captured
      <4> DEFINE c == <<t, n>>
      <4>4. c \notin removed /\ cloud[c].at # "target"
        BY <4>2
      <4> HIDE DEF c
      <4>5. c \notin baseline'[t]
        BY <4>1, <4>3, <4>4
      <4> QED
        BY <4>5 DEF c
    <3>4. ~Settled(t)'
      BY <3>1 DEF Settled
    <3> HIDE DEF Captured
    <3>5. TypeOK /\ Folder /\ EachTask(t) /\ blind \subseteq blind'
      BY DEF General
    <3> QED
      BY <1>4, <2>2, <3>1, <3>2, <3>3, <3>4, <3>5, StepKept
  <2> QED
    BY <2>1, <2>2
<1> QED
  BY <1>1, <1>2, <1>3, <1>5, <1>6 DEF General

\* An error sends the task to an observation and records nothing.
LEMMA ErrorKeeps ==
    ASSUME General, NEW t \in Tasks, OnRecord(t), GoOn(t, "running"), UNCHANGED ledger
    PROVE  General'
<1> USE DEF OnRecord, GoOn, coordinator, stop, ledger
<1>1. TypeOK'
  BY DEF General, TypeOK, PCs
<1>2. Batched' /\ Stopping'
  BY DEF General, Batched, Stopping, Operation, TypeOK
<1>3. Locked'
  BY LocksKept DEF General, TypeOK
<1>4. Still
  BY DEF Still
<1>5. Folder' /\ Strangers' /\ Floats'
  BY <1>4, WorldKept DEF General
<1>6. ASSUME NEW u \in Tasks PROVE EachTask(u)'
  <2>1. CASE u # t
    BY <1>4, <2>1, BystanderKept DEF General, TypeOK
  <2>2. CASE u = t
    <3>1. Placed(t)'
      BY DEF General, EachTask, Placed, TypeOK, Ended
    <3>2. (Untried(t)' => Untried(t)) /\ (Settled(t)' => Settled(t)) /\ pc'[t] = "running" /\ seen'[t] = {}
      BY DEF Untried, Settled, Renamed, General, TypeOK
    <3> QED
      BY <1>4, <2>2, <3>1, <3>2, TaskKept DEF General, TypeOK
  <2> QED
    BY <2>1, <2>2
<1> QED
  BY <1>1, <1>2, <1>3, <1>5, <1>6 DEF General

\* Manual review is reached only with a reason.
LEMMA ReviewKeeps ==
    ASSUME General, NEW t \in Tasks, OnRecord(t), Review(t),
           t \in blind' \union late \/ removed # {} \/ HasTwin(t)
    PROVE  General'
<1> USE DEF OnRecord, Review, Leave, coordinator, stop
<1>1. TypeOK'
  BY DEF General, TypeOK, PCs, Steps
<1>2. Batched' /\ Stopping'
  BY DEF General, Batched, Stopping, Operation, TypeOK
<1>3. Locked'
  BY LocksKept DEF General, TypeOK
<1>4. Still
  BY DEF Still
<1>5. Folder' /\ Strangers' /\ Floats'
  BY <1>4, WorldKept DEF General, TypeOK
<1>6. ASSUME NEW u \in Tasks PROVE EachTask(u)'
  <2>1. CASE u # t
    BY <1>4, <2>1, BystanderKept DEF General, TypeOK
  <2>2. CASE u = t
    <3>1. Placed(t)' /\ step'[t] = "review" /\ seen'[t] = {} /\ pc'[t] = "out" /\ baseline' = baseline
      BY DEF General, EachTask, Placed, TypeOK, Ended
    <3>2. ~Settled(t)' /\ ~Untried(t)'
      BY <3>1 DEF Settled, Untried, Renamed
    <3> HIDE DEF Review
    <3>3. TypeOK /\ Folder /\ EachTask(t) /\ blind \subseteq blind'
      BY DEF General
    <3>4. \A n \in 1 .. MaxCopies : <<t, n>> \notin baseline'[t]
      BY <3>1, <3>3 DEF EachTask, Copying
    <3> QED
      BY <1>4, <2>2, <3>1, <3>2, <3>3, <3>4, StepKept
  <2> QED
    BY <2>1, <2>2
<1> QED
  BY <1>1, <1>2, <1>3, <1>5, <1>6 DEF General

\* What _observe_materialize tells apart.
LEMMA MatchCount ==
    ASSUME TypeOK, NEW t \in Tasks, Shown(t)
    PROVE  /\ Cardinality(Matches(t)) \in Nat
           /\ Cardinality(Matches(t)) = 0 <=> Matches(t) = {}
           /\ Cardinality(Matches(t)) = 1 <=> \E x \in Matches(t) : Matches(t) = {x}
<1>1. IsFiniteSet(Matches(t))
  BY MatchesAre
<1> QED
  BY <1>1, FS_CardinalityType, FS_EmptySet, FS_Singleton

\* What an observation of a copy or a move tells about the matches it has found.
LEMMA MaterializeObserved ==
    ASSUME TypeOK, NEW t \in Tasks, Shown(t), step[t] = "materialize"
    PROVE  /\ Observed(t) = "NOT_APPLIED" => Matches(t) = {}
           /\ Observed(t) = "UNKNOWN" => Matches(t) = {} /\ cloud[Source[t]].at # "source"
           /\ Observed(t) = "CONFLICT" => \E x, y \in Matches(t) : x # y
           /\ (\E x \in Matches(t) : Matches(t) = {x}) => Observed(t) = "APPLIED"
<1> DEFINE c == Cardinality(Matches(t))
<1>1. /\ c \in Nat
      /\ c = 0 <=> Matches(t) = {}
      /\ c = 1 <=> \E x \in Matches(t) : Matches(t) = {x}
  BY MatchCount
<1>2. Observed(t) = CASE c = 1 -> "APPLIED" [] c > 1 -> "CONFLICT"
                      [] OTHER -> IF cloud[Source[t]].at = "source" THEN "NOT_APPLIED" ELSE "UNKNOWN"
  BY DEF Observed, ObservedMaterialize
<1> HIDE DEF c
<1>3. CASE c = 0
  <2>1. Matches(t) = {} /\ Observed(t) = IF cloud[Source[t]].at = "source" THEN "NOT_APPLIED" ELSE "UNKNOWN"
    BY <1>1, <1>2, <1>3
  <2> QED
    BY <2>1
<1>4. CASE c = 1
  <2>1. Observed(t) = "APPLIED"
    BY <1>2, <1>4
  <2> QED
    BY <2>1
<1>5. CASE c > 1
  <2>1. Observed(t) = "CONFLICT"
    BY <1>1, <1>2, <1>5
  <2>2. Matches(t) # {} /\ ~\E x \in Matches(t) : Matches(t) = {x}
    BY <1>1, <1>5
  <2> QED
    BY <2>1, <2>2
<1> QED
  BY <1>1, <1>3, <1>4, <1>5

\* What an observation of a rename tells about the name it has found.
LEMMA RenameObserved ==
    ASSUME NEW t \in Tasks, step[t] = "rename"
    PROVE  /\ Observed(t) = "UNKNOWN" => Renamed(t) = {}
           /\ Observed(t) = "CONFLICT" => \E x \in Renamed(t) : x.name \notin {item[t].name, Target[t]}
           /\ (\E x \in Renamed(t) : x.name = Target[t]) => Observed(t) = "APPLIED"
<1>1. Observed(t) = ObservedRename(t)
  BY DEF Observed
<1>2. CASE Renamed(t) = {}
  BY <1>1, <1>2 DEF ObservedRename
<1>3. CASE Renamed(t) # {} /\ \E x \in Renamed(t) : x.name = Target[t]
  BY <1>1, <1>3 DEF ObservedRename
<1>4. CASE Renamed(t) # {} /\ ~\E x \in Renamed(t) : x.name = Target[t]
  BY <1>1, <1>4 DEF ObservedRename
<1> QED
  BY <1>2, <1>3, <1>4

\* Whoever finds a file of another task has a twin, and so has the other.
LEMMA ForeignMatch ==
    ASSUME General, NEW t \in Tasks, item[t] = None, NEW x \in Matches(t), ~Owner(t, x.id)
    PROVE  HasTwin(t) /\ \A o \in Tasks : Owner(o, x.id) => HasTwin(o)
<1> DEFINE i == x.id
<1>1. /\ TypeOK /\ Shown(t) /\ x \in seen[t] /\ i \in Ids
      /\ ContentOf(i) = Content[Source[t]]
      /\ Mode[t] = "move" => i = Source[t]
      /\ Mode[t] = "copy" => x.name = Name[Source[t]]
  BY MatchesAre DEF General, EachTask
<1>2. Mode[t] = "copy" /\ x.name = Name[Source[t]]
  BY <1>1, TaskTypes DEF Owner
<1>3. PICK o \in Tasks : Owner(o, i)
  BY <1>1 DEF Shown
<1>4. o # t /\ ContentOf(i) = Content[Source[o]] /\ OwnName(i) = Name[Source[o]]
  BY <1>1, <1>3, OwnerBrings
<1>5. x.name = OwnName(i) \/ \E u \in Tasks : Claims(u, i) /\ x.name = Target[u]
  BY <1>1 DEF Shown, Bears
<1>6. HasTwin(t) /\ HasTwin(o)
  <2>1. CASE x.name = OwnName(i)
    <3>1. Twins(t, o)
      BY <1>1, <1>2, <1>4, <2>1 DEF Twins
    <3> QED
      BY <3>1 DEF HasTwin
  <2>2. CASE \E u \in Tasks : Claims(u, i) /\ x.name = Target[u]
    <3>1. PICK u \in Tasks : Claims(u, i) /\ x.name = Target[u]
      BY <2>2
    <3>2. ContentOf(i) = Content[Source[u]] /\ u # t
      BY <3>1 DEF General, EachTask, Claimed, Claims
    <3>3. Twins(t, u)
      BY <1>1, <1>2, <3>1, <3>2 DEF Twins
    <3>4. HasTwin(t) /\ HasTwin(u)
      BY <3>3 DEF HasTwin
    <3>5. CASE u = o
      BY <3>4, <3>5
    <3>6. CASE u # o
      <4>1. ~Owner(u, i)
        BY <1>1, <1>3, <3>6, OneOwner
      <4> QED
        BY <1>1, <1>3, <3>1, <3>4, <4>1 DEF General, Strangers
    <3> QED
      BY <3>5, <3>6
  <2> QED
    BY <1>5, <2>1, <2>2
<1> QED
  BY <1>1, <1>3, <1>6, OneOwner

\* Two finds mean that the copy was repeated, or that one of them is a stranger's.
LEMMA TwoMatches ==
    ASSUME General, NEW t \in Tasks, item[t] = None,
           NEW x \in Matches(t), NEW y \in Matches(t), x # y
    PROVE  t \in late \/ removed # {} \/ HasTwin(t)
<1>1. /\ TypeOK /\ Shown(t) /\ Copying(t) /\ Folder /\ Strangers
      /\ x \in seen[t] /\ x.id \in Ids /\ y \in seen[t] /\ y.id \in Ids
      /\ Mode[t] = "move" => x.id = Source[t] /\ y.id = Source[t]
  BY MatchesAre DEF General, EachTask
<1>2. x.id # y.id /\ Mode[t] = "copy"
  BY <1>1, TaskTypes DEF Shown
<1> SUFFICES ASSUME ~HasTwin(t), removed = {}, t \notin late PROVE FALSE
  OBVIOUS
<1>3. Owner(t, x.id) /\ Owner(t, y.id)
  BY ForeignMatch
<1>4. x.id \in Copies /\ x.id[1] = t /\ y.id \in Copies /\ y.id[1] = t
  BY <1>1, <1>2, <1>3, IdsAre DEF Owner
<1>5. /\ x.id[2] \in 1 .. MaxCopies /\ y.id[2] \in 1 .. MaxCopies /\ x.id[2] # y.id[2]
      /\ x.id[2] <= made[t] /\ y.id[2] <= made[t]
  <2>1. cloud[x.id].at = "target" /\ cloud[y.id].at = "target"
    BY <1>1 DEF Shown
  <2> QED
    BY <1>1, <1>2, <1>4, <2>1, CopyTypes DEF Folder
<1>6. Excused(t)
  <2>1. made[t] \in Nat
    BY <1>1, BoundAssumption DEF TypeOK
  <2>2. ~(made[t] <= 1)
    BY <1>5, <2>1, BoundAssumption
  <2> QED
    BY <1>1, <2>2 DEF Copying
<1>7. PICK n \in 1 .. MaxCopies : \E u \in Tasks \ {t} : Claims(u, <<t, n>>)
  BY <1>6 DEF Excused
<1>8. PICK u \in Tasks \ {t} : Claims(u, <<t, n>>)
  BY <1>7
<1>9. <<t, n>> \in Ids /\ Owner(t, <<t, n>>) /\ ~Owner(u, <<t, n>>)
  BY <1>8, CopyIs DEF Owner
<1> QED
  BY <1>1, <1>8, <1>9 DEF Strangers

\* Who is sent to review was not let down by the transfer itself.
LEMMA ReviewHasReason ==
    ASSUME General, NEW t \in Tasks, pc[t] = "observing", Observed(t) \in {"CONFLICT", "UNKNOWN"}
    PROVE  t \in late \/ removed # {} \/ HasTwin(t)
<1>1. TypeOK /\ Folder /\ Strangers /\ Placed(t) /\ Shown(t) /\ Claimed(t) /\ Moving(t)
  BY DEF General, EachTask
<1>2. CASE step[t] = "materialize"
  <2>0. item[t] = None
    BY <1>1, <1>2 DEF Placed
  <2>1. CASE Observed(t) = "CONFLICT"
    <3>1. PICK x, y \in Matches(t) : x # y
      BY <1>1, <1>2, <2>1, MaterializeObserved
    <3> QED
      BY <2>0, <3>1, TwoMatches
  <2>2. CASE Observed(t) = "UNKNOWN"
    <3>1. Matches(t) = {} /\ cloud[Source[t]].at # "source"
      BY <1>1, <1>2, <2>2, MaterializeObserved
    <3>2. Source[t] \in Ids /\ Source[t] \in Files
      BY TaskTypes
    <3>3. CASE cloud[Source[t]].at = "nowhere"
      BY <1>1, <3>2, <3>3 DEF Folder
    <3>4. CASE cloud[Source[t]].at = "target" /\ Mode[t] = "move"
      <4>1. t \in late \/ \E x \in seen[t] : x.id = Source[t]
        BY <1>1, <1>2, <3>4 DEF Moving, Observing
      <4> QED
        BY <3>1, <3>4, <4>1 DEF Matches
    <3>5. CASE cloud[Source[t]].at = "target" /\ Mode[t] = "copy"
      <4>1. PICK o \in Tasks : Owner(o, Source[t])
        BY <1>1, <3>2, <3>5 DEF Folder
      <4> QED
        BY <3>2, <3>5, <4>1, SourceAssumption DEF Owner
    <3> QED
      BY <1>1, <3>1, <3>2, <3>3, <3>4, <3>5, TaskTypes DEF TypeOK
  <2> QED
    BY <2>1, <2>2
<1>3. CASE step[t] = "rename"
  <2> DEFINE i == item[t].id
  <2>0. item[t] # None /\ i \in Ids /\ Claims(t, i)
    BY <1>1, <1>3 DEF Placed, TypeOK, Items, Claims
  <2>1. CASE Observed(t) = "UNKNOWN"
    BY <1>1, <1>3, <2>0, <2>1, RenameObserved DEF Claimed
  <2>2. CASE Observed(t) = "CONFLICT"
    <3>1. \E x \in Renamed(t) : x.name \notin {item[t].name, Target[t]}
      BY <1>3, <2>2, RenameObserved
    <3>2. ~Sole(t)
      BY <1>1, <2>0, <3>1 DEF Claimed
    <3>3. PICK u \in Tasks \ {t} : Claims(u, i)
      BY <3>2 DEF Sole
    <3>4. CASE Owner(t, i)
      <4>1. ~Owner(u, i)
        BY <2>0, <3>3, <3>4, OneOwner
      <4> QED
        BY <1>1, <2>0, <3>3, <3>4, <4>1 DEF Strangers
    <3>5. CASE ~Owner(t, i)
      BY <1>1, <2>0, <3>5 DEF Strangers
    <3> QED
      BY <3>4, <3>5
  <2> QED
    BY <2>1, <2>2
<1> QED
  BY <1>1, <1>2, <1>3 DEF Placed

\* A step that was seen not to have been applied is tried again.
LEMMA RetryKeeps ==
    ASSUME General, NEW t \in Tasks, OnRecord(t), pc[t] = "observing", Observed(t) = "NOT_APPLIED",
           begun' = [begun EXCEPT ![t] = FALSE], Leave(t), UNCHANGED <<step, baseline, item>>
    PROVE  General'
<1> USE DEF OnRecord, Leave, coordinator, stop
<1>1. TypeOK'
  BY DEF General, TypeOK, PCs
<1>2. Batched' /\ Stopping'
  BY DEF General, Batched, Stopping, Operation, TypeOK
<1>3. Locked'
  BY LocksKept DEF General, TypeOK
<1>4. Still
  BY DEF Still
<1>5. Folder' /\ Strangers' /\ Floats'
  BY <1>4, WorldKept DEF General
<1>6. ASSUME NEW u \in Tasks PROVE EachTask(u)'
  <2>1. CASE u # t
    BY <1>4, <2>1, BystanderKept DEF General, TypeOK
  <2>2. CASE u = t
    <3>1. Placed(t)' /\ seen'[t] = {} /\ pc'[t] = "out" /\ step'[t] = step[t] /\ baseline' = baseline
      BY DEF General, EachTask, Placed, TypeOK, Ended
    <3>2. step[t] \in {"materialize", "rename"}
      BY DEF General, EachTask, Placed
    <3>3. ~Settled(t)'
      BY <3>1, <3>2 DEF Settled, Renamed
    <3>4. TypeOK /\ Folder /\ EachTask(t) /\ blind \subseteq blind'
      BY DEF General
    <3>5. \A n \in 1 .. MaxCopies : <<t, n>> \notin baseline'[t]
      BY <3>1, <3>4 DEF EachTask, Copying
    <3>6. step[t] = "materialize" => made[t] = 0 \/ Excused(t)
      <4> SUFFICES ASSUME step[t] = "materialize", made[t] # 0, ~Excused(t) PROVE FALSE
        OBVIOUS
      <4> DEFINE x == [id |-> <<t, 1>>, name |-> Name[Source[t]]]
      <4>1. Matches(t) = {}
        BY <3>4, MaterializeObserved DEF EachTask
      <4>2. made[t] = 1 /\ Mode[t] = "copy"
        BY <3>4, TaskTypes, BoundAssumption DEF EachTask, Copying, TypeOK
      <4>3. x \in seen[t]
        BY <3>4, <4>2 DEF EachTask, Copying, Observing
      <4>4. x.id = <<t, 1>> /\ x.name = Name[Source[t]]
        OBVIOUS
      <4>5. <<t, 1>> \notin baseline[t] /\ ContentOf(<<t, 1>>) = Content[Source[t]]
        BY <3>4, BoundAssumption, CopyIs DEF EachTask, Copying, ContentOf
      <4> HIDE DEF x
      <4> QED
        BY <4>1, <4>2, <4>3, <4>4, <4>5 DEF Matches
    <3>7. Untried(t)' => Untried(t) \/ made[t] = 0 \/ Excused(t)
      BY <3>1, <3>2, <3>6 DEF Untried
    <3> HIDE DEF Leave
    <3> QED
      BY <1>4, <2>2, <3>1, <3>2, <3>3, <3>4, <3>5, <3>7, StepKept
  <2> QED
    BY <2>1, <2>2
<1> QED
  BY <1>1, <1>2, <1>3, <1>5, <1>6 DEF General

\* The renaming is done.
LEMMA RenamedKeeps ==
    ASSUME General, NEW t \in Tasks, OnRecord(t), step[t] = "rename", Applied(t), Settled(t)
    PROVE  General'
<1> USE DEF OnRecord, Applied, Leave, coordinator, stop
<1>1. TypeOK'
  BY DEF General, TypeOK, PCs, Steps
<1>2. Batched' /\ Stopping'
  BY DEF General, Batched, Stopping, Operation, TypeOK
<1>3. Locked'
  BY LocksKept DEF General, TypeOK
<1>4. Still
  BY DEF Still
<1>5. Folder' /\ Strangers' /\ Floats'
  BY <1>4, WorldKept DEF General, TypeOK
<1>6. ASSUME NEW u \in Tasks PROVE EachTask(u)'
  <2>1. CASE u # t
    BY <1>4, <2>1, BystanderKept DEF General, TypeOK
  <2>2. CASE u = t
    <3>1. Placed(t)' /\ seen'[t] = {} /\ pc'[t] = "out" /\ step'[t] = "done" /\ baseline' = baseline
      BY DEF General, EachTask, Placed, TypeOK, Ended
    <3>2. ~Untried(t)'
      BY <3>1 DEF Untried
    <3>3. TypeOK /\ Folder /\ EachTask(t) /\ blind \subseteq blind'
      BY DEF General
    <3>4. \A n \in 1 .. MaxCopies : <<t, n>> \notin baseline'[t]
      BY <3>1, <3>3 DEF EachTask, Copying
    <3> HIDE DEF Applied
    <3> QED
      BY <1>4, <2>2, <3>1, <3>2, <3>3, <3>4, StepKept
  <2> QED
    BY <2>1, <2>2
<1> QED
  BY <1>1, <1>2, <1>3, <1>5, <1>6 DEF General

\* The file is found: a new claim.
LEMMA FoundKeeps ==
    ASSUME General, NEW t \in Tasks, OnRecord(t), step[t] = "materialize", Applied(t)
    PROVE  General'
<1> USE DEF OnRecord, GoOn, coordinator, stop
<1>0. /\ begun' = [begun EXCEPT ![t] = FALSE] /\ baseline' = baseline
      /\ step' = [step EXCEPT ![t] = "rename"] /\ GoOn(t, "running")
      /\ \E x \in Matches(t) : item' = [item EXCEPT ![t] = x]
  BY DEF Applied
<1>a. PICK x \in Matches(t) : item' = [item EXCEPT ![t] = x]
  BY <1>0
<1>b. /\ TypeOK /\ Batched /\ Locked /\ Stopping /\ Floats /\ Folder /\ Strangers /\ EachTask(t)
      /\ item[t] = None /\ Shown(t)
  BY DEF General, EachTask, Placed
<1>c. /\ x \in seen[t] /\ x \in Items /\ x.id \in Ids
      /\ ContentOf(x.id) = Content[Source[t]]
      /\ Mode[t] = "move" => x.id = Source[t]
  BY <1>b, MatchesAre
<1>d. x # None /\ item'[t] = x /\ \A u \in Tasks \ {t} : item'[u] = item[u]
  BY <1>a, <1>b, <1>c, NameAssumption DEF TypeOK
<1> DEFINE i == x.id
<1>e. /\ \A u \in Tasks, j \in Ids : Claims(u, j) => Claims(u, j)'
      /\ \A u \in Tasks \ {t}, j \in Ids : Claims(u, j)' => Claims(u, j)
      /\ \A j \in Ids : Claims(t, j)' => j = i
  BY <1>b, <1>d DEF Claims
<1>1. TypeOK'
  BY <1>0, <1>a, <1>b, <1>c DEF TypeOK, PCs, Steps
<1>2. Batched' /\ Stopping'
  BY <1>0, <1>b DEF Batched, Stopping, Operation, TypeOK
<1>3. Locked'
  BY <1>0, <1>b, LocksKept DEF TypeOK
<1>4. \A j \in Ids, n \in Names : Bears(j, n) => Bears(j, n)'
  BY <1>e DEF Bears, OwnName
<1>5. Folder'
  <2>1. \A j \in Ids : Bears(j, cloud[j].name)'
    BY <1>4, <1>b DEF Folder, TypeOK
  <2>2. \A j \in Files : cloud[j].at = "target" => \E o \in Tasks : Owner(o, j)'
    BY <1>b DEF Folder, Owner
  <2>3. /\ cloud' = cloud /\ removed' = removed /\ made' = made
    OBVIOUS
  <2> QED
    BY <1>b, <2>1, <2>2, <2>3 DEF Folder
<1>6. Strangers'
  <2> SUFFICES ASSUME NEW u \in Tasks, NEW j \in Ids, Claims(u, j)', ~Owner(u, j)
               PROVE  HasTwin(u) /\ \A o \in Tasks : Owner(o, j) => HasTwin(o)
    BY DEF Strangers, HasTwin, Twins, Owner
  <2>1. CASE u # t
    BY <1>b, <1>e, <2>1 DEF Strangers
  <2>2. CASE u = t
    <3>1. j = i
      BY <1>e, <2>2
    <3> QED
      BY <1>b, <2>2, <3>1, ForeignMatch
  <2> QED
    BY <2>1, <2>2
<1>7. Floats'
  BY <1>0, <1>b, <1>d DEF Floats, TypeOK
<1>8. ASSUME NEW u \in Tasks PROVE EachTask(u)'
  <2>0. EachTask(u)
    BY DEF General
  <2>1. CASE u # t
    <3>1. /\ step'[u] = step[u] /\ begun'[u] = begun[u] /\ pc'[u] = pc[u] /\ seen'[u] = seen[u]
          /\ answer'[u] = answer[u] /\ item'[u] = item[u] /\ baseline'[u] = baseline[u]
          /\ called' = called /\ made' = made /\ late' = late /\ removed' = removed
          /\ cloud' = cloud
      BY <1>0, <1>b, <1>d, <2>1 DEF TypeOK
    <3>2. Placed(u)'
      BY <2>0, <3>1 DEF EachTask, Placed, Ended
    <3>3. Shown(u)'
      <4>1. \A y \in seen[u] : y.id \in Ids /\ y.name \in Names
        BY <1>b DEF TypeOK, Items
      <4>2. \A y \in seen[u] : (\E o \in Tasks : Owner(o, y.id)')
        BY <2>0 DEF EachTask, Shown, Owner
      <4>3. \A y \in seen[u] : Bears(y.id, y.name)'
        BY <1>4, <2>0, <4>1 DEF EachTask, Shown
      <4>4. \A y \in seen[u] : cloud[y.id].name = y.name \/ \E w \in Tasks : Claims(w, y.id)'
        BY <1>e, <2>0, <4>1 DEF EachTask, Shown
      <4> QED
        BY <2>0, <3>1, <4>2, <4>3, <4>4 DEF EachTask, Shown
    <3>4. Claimed(u)'
      <4>1. CASE item[u] = None
        BY <3>1, <4>1 DEF Claimed
      <4>2. CASE item[u] # None
        <5>1. item[u].id \in Ids
          BY <1>b, <4>2 DEF TypeOK, Items
        <5>2. Sole(u)' => Sole(u)
          BY <1>e, <3>1, <5>1 DEF Sole
        <5>3. Renamed(u)' = Renamed(u)
          BY <3>1 DEF Renamed
        <5>4. Settled(u)' <=> Settled(u)
          BY <3>1, <5>3 DEF Settled
        <5> QED
          BY <2>0, <3>1, <4>2, <5>2, <5>3, <5>4 DEF EachTask, Claimed
      <4> QED
        BY <4>1, <4>2
    <3>5. Excused(u) => Excused(u)'
      BY <1>e, CopyIs DEF Excused
    <3>6. Copying(u)'
      BY <2>0, <3>1, <3>5 DEF EachTask, Copying, Untried, Observing
    <3>7. Moving(u)' /\ Reviewed(u)'
      BY <2>0, <3>1 DEF EachTask, Moving, Reviewed, Observing, HasTwin, Twins
    <3> QED
      BY <3>2, <3>3, <3>4, <3>6, <3>7 DEF EachTask
  <2>2. CASE u = t
    <3>1. /\ step'[t] = "rename" /\ begun'[t] = FALSE /\ pc'[t] = "running" /\ seen'[t] = {}
          /\ answer'[t] = "none" /\ baseline'[t] = baseline[t]
          /\ made' = made /\ late' = late /\ removed' = removed /\ cloud' = cloud
      BY <1>0, <1>b DEF TypeOK
    <3>2. Placed(t)'
      BY <1>d, <3>1 DEF Placed, Ended
    <3>3. Shown(t)'
      BY <3>1, FS_EmptySet DEF Shown
    <3>4. Claimed(t)'
      <4>1. i \in removed \/ cloud[i].at = "target"
        BY <1>b, <1>c DEF Shown
      <4>2. ASSUME Sole(t)' PROVE cloud[i].name = x.name
        <5>1. \A w \in Tasks : ~Claims(w, i)
          BY <1>b, <1>c, <1>d, <1>e, <4>2 DEF Sole, Claims
        <5> QED
          BY <1>b, <1>c, <5>1 DEF Shown
      <4>3. Renamed(t)' = {}
        BY <3>1 DEF Renamed
      <4>4. ~Settled(t)'
        BY <3>1, <4>3 DEF Settled
      <4> QED
        BY <1>c, <1>d, <3>1, <4>1, <4>2, <4>3, <4>4 DEF Claimed
    <3>5. Excused(t) => Excused(t)'
      BY <1>e, CopyIs DEF Excused
    <3>6. Copying(t)'
      BY <2>0, <2>2, <3>1, <3>5 DEF EachTask, Copying, Untried, Observing
    <3>7. Moving(t)' /\ Reviewed(t)'
      BY <3>1 DEF Moving, Reviewed, Observing
    <3> QED
      BY <2>2, <3>2, <3>3, <3>4, <3>6, <3>7 DEF EachTask
  <2> QED
    BY <2>1, <2>2
<1> QED
  BY <1>1, <1>2, <1>3, <1>5, <1>6, <1>7, <1>8 DEF General

\* What was seen or answered as applied is recorded, whichever step it was.
LEMMA AppliedKeeps ==
    ASSUME General, NEW t \in Tasks, OnRecord(t), Applied(t),
           step[t] = "rename" => Settled(t)
    PROVE  General'
<1>1. CASE step[t] = "materialize"
  BY <1>1, FoundKeeps
<1>2. CASE step[t] = "rename"
  BY <1>2, RenamedKeeps
<1> QED
  BY <1>1, <1>2 DEF Applied

LEMMA ConcludeKeeps ==
    ASSUME General, NEW t \in Tasks, Conclude(t)
    PROVE  General'
<1>1. OnRecord(t) /\ pc[t] = "observing"
  BY DEF Conclude, OnRecord, coordinator, stop, history
<1>2. CASE Observed(t) = "APPLIED" /\ Applied(t)
  <2>1. step[t] = "rename" => Settled(t)
    BY <1>2, RenameSeen DEF Settled
  <2> QED
    BY <1>1, <1>2, <2>1, AppliedKeeps
<1>3. CASE /\ Observed(t) = "NOT_APPLIED"
           /\ begun' = [begun EXCEPT ![t] = FALSE]
           /\ Leave(t) /\ UNCHANGED <<step, baseline, item>>
  BY <1>1, <1>3, RetryKeeps
<1>4. CASE Observed(t) \in {"CONFLICT", "UNKNOWN"} /\ Review(t)
  <2>1. t \in late \/ removed # {} \/ HasTwin(t)
    BY <1>1, <1>4, ReviewHasReason
  <2> QED
    BY <1>1, <1>4, <2>1, ReviewKeeps
<1> QED
  BY <1>2, <1>3, <1>4 DEF Conclude

LEMMA RecordKeeps ==
    ASSUME General, NEW t \in Tasks, Record(t)
    PROVE  General'
<1>1. pc[t] = "answered"
  BY DEF Record
<1>2. CASE answer[t] = "ok" /\ (Captured(t) \/ Applied(t)) /\ UNCHANGED blind
  <2>1. OnRecord(t)
    BY <1>1, <1>2 DEF Record, OnRecord
  <2>2. step[t] = "rename" => Settled(t)
    BY <1>1, <1>2 DEF Settled
  <2> QED
    BY <1>2, <2>1, <2>2, CapturedKeeps, AppliedKeeps
<1>3. CASE answer[t] = "error" /\ GoOn(t, "running") /\ UNCHANGED <<ledger, blind>>
  <2>1. OnRecord(t)
    BY <1>1, <1>3 DEF Record, OnRecord
  <2> QED
    BY <1>3, <2>1, ErrorKeeps
<1>4. CASE answer[t] = "error" /\ Review(t) /\ blind' = blind \union {t}
  <2>1. OnRecord(t)
    BY <1>1, <1>4 DEF Record, OnRecord
  <2> QED
    BY <1>4, <2>1, ReviewKeeps
<1> QED
  BY <1>2, <1>3, <1>4 DEF Record

LEMMA ObservationFailsKeeps ==
    ASSUME General, NEW t \in Tasks, ObservationFails(t)
    PROVE  General'
<1>1. OnRecord(t) /\ Review(t) /\ t \in blind'
  BY DEF ObservationFails, OnRecord
<1> QED
  BY <1>1, ReviewKeeps
------------------------------------------------------------------------------
(* The cloud.                                                              *)

\* What a request changes: a file comes into the folder, a copy is made, a claimed file
\* gets the name of a task that claims it.
LEMMA CarryMoves ==
    ASSUME TypeOK, NEW A \in SUBSET Tasks, Carry(A, "move")
    PROVE  /\ made' = made /\ cloud' \in [Ids -> [at : {"source", "target", "nowhere"}, name : Names]]
           /\ \A i \in Ids :
                /\ cloud'[i].name = cloud[i].name
                /\ IF cloud[i].at = "source" /\ \E t \in A : Source[t] = i
                   THEN cloud'[i].at = "target" ELSE cloud'[i].at = cloud[i].at
BY DEF Carry, TypeOK

\* The cloud carries out a request: each of the three kinds changes only what it is about.
LEMMA CarryCopies ==
    ASSUME TypeOK, NEW A \in SUBSET Tasks, Carry(A, "copy")
    PROVE  /\ made' \in [Tasks -> 0 .. MaxCopies]
           /\ cloud' \in [Ids -> [at : {"source", "target", "nowhere"}, name : Names]]
           /\ \A t \in Tasks : made'[t] = IF t \in Copied(A) THEN made[t] + 1 ELSE made[t]
           /\ \A i \in Ids :
                /\ cloud'[i].name = cloud[i].name
                /\ IF \E t \in Copied(A) : i = NextCopy(t)
                   THEN cloud'[i].at = "target" ELSE cloud'[i].at = cloud[i].at
<1>1. \A t \in Copied(A) : t \in Tasks /\ made[t] + 1 \in 0 .. MaxCopies
  BY BoundAssumption DEF Copied, TypeOK
<1>2. /\ cloud' = [i \in Ids |->
             IF \E t \in Copied(A) : i = NextCopy(t)
             THEN [cloud[i] EXCEPT !.at = "target"] ELSE cloud[i]]
      /\ made' = [t \in Tasks |-> IF t \in Copied(A) THEN made[t] + 1 ELSE made[t]]
  BY DEF Carry
<1> QED
  BY <1>1, <1>2 DEF TypeOK

LEMMA CarryRenames ==
    ASSUME TypeOK, NEW A \in SUBSET Tasks, Carry(A, "rename"), \A t \in A : item[t] # None
    PROVE  /\ made' = made /\ cloud' \in [Ids -> [at : {"source", "target", "nowhere"}, name : Names]]
           /\ \A i \in Ids :
                /\ cloud'[i].at = cloud[i].at
                /\ cloud'[i].name = cloud[i].name
                   \/ \E t \in A : Claims(t, i) /\ cloud'[i].name = Target[t]
           /\ \A t \in A : \E u \in A : item[u].id = item[t].id /\ cloud'[item[t].id].name = Target[u]
<1> DEFINE by(i) == CHOOSE t \in A : item[t].id = i
<1>1. made' = made
      /\ cloud' = [i \in Ids |->
             IF \E t \in A : item[t].id = i THEN [cloud[i] EXCEPT !.name = Target[by(i)]]
             ELSE cloud[i]]
  BY DEF Carry
<1>2. \A i \in Ids : (\E t \in A : item[t].id = i) => by(i) \in A /\ item[by(i)].id = i
  OBVIOUS
<1> HIDE DEF by
<1>3. \A t \in Tasks : Target[t] \in Names
  BY TaskTypes
<1>4. \A t \in A : item[t].id \in Ids
  BY DEF TypeOK, Items
<1>5. \A i \in Ids : cloud[i] \in [at : {"source", "target", "nowhere"}, name : Names]
  BY DEF TypeOK
<1> QED
  BY <1>1, <1>2, <1>3, <1>4, <1>5 DEF Claims

\* What the cloud may do to the files of a task behind its back.
CloudMoves(t) ==
    /\ made'[t] = made[t]
       \/ /\ made'[t] = made[t] + 1 /\ Mode[t] = "copy" /\ step[t] # "capture"
          /\ t \in late' \/ (Untried(t) /\ ~Untried(t)' /\ pc[t] # "observing")
    /\ pc[t] = "observing" /\ Mode[t] = "move" /\ cloud'[Source[t]].at = "target" =>
          cloud[Source[t]].at = "target" \/ t \in late'
    /\ Untried(t)' => Untried(t)

CloudNames ==
    \A i \in Ids :
       /\ cloud'[i].name = cloud[i].name \/ \E u \in Tasks : Claims(u, i) /\ cloud'[i].name = Target[u]
       /\ cloud[i].at = "target" => cloud'[i].at = "target" \/ i \in removed'

\* A task's own facts outlast whatever the cloud does to its folder.
LEMMA CloudKeepsTask ==
    ASSUME General, NEW t \in Tasks, CloudMoves(t), CloudNames,
           step' = step, begun' = begun, baseline' = baseline, item' = item, pc' = pc,
           seen' = seen, answer' = answer,
           removed \subseteq removed', late \subseteq late', blind \subseteq blind'
    PROVE  EachTask(t)'
<1>1. TypeOK /\ EachTask(t) /\ \A x \in seen[t] : x.id \in Ids
  BY DEF General, TypeOK, Items
<1>2. Placed(t)' /\ Reviewed(t)'
  BY <1>1 DEF EachTask, Placed, Reviewed, Ended, HasTwin, Twins
<1>3. Shown(t)'
  <2>1. ASSUME NEW x \in seen[t]
        PROVE  /\ x.id \in removed' \/ cloud'[x.id].at = "target"
               /\ cloud'[x.id].name = x.name \/ \E u \in Tasks : Claims(u, x.id)
    BY <1>1, <2>1 DEF EachTask, Shown, CloudNames
  <2> QED
    BY <1>1, <2>1 DEF EachTask, Shown, Bears, Claims, Owner, OwnName
<1>4. Claimed(t)'
  <2> SUFFICES ASSUME item[t] # None PROVE Claimed(t)'
    BY DEF Claimed
  <2> DEFINE i == item[t].id
  <2>1. i \in Ids
    BY <1>1 DEF TypeOK, Items
  <2>2. (Sole(t)' <=> Sole(t)) /\ Renamed(t)' = Renamed(t) /\ (Settled(t)' <=> Settled(t))
    BY DEF Sole, Claims, Renamed, Settled
  <2>3. Sole(t) => cloud'[i].name = cloud[i].name \/ cloud'[i].name = Target[t]
    BY <2>1 DEF CloudNames, Sole
  <2>4. i \in removed' \/ cloud'[i].at = "target"
    BY <1>1, <2>1 DEF EachTask, Claimed, CloudNames
  <2> QED
    BY <1>1, <2>2, <2>3, <2>4 DEF EachTask, Claimed
<1>5. Excused(t) => Excused(t)'
  BY DEF Excused, Claims
<1>6. Copying(t)'
  <2>1. CASE made'[t] = made[t]
    BY <1>1, <1>5, <2>1 DEF EachTask, Copying, Observing, CloudMoves
  <2>2. CASE made'[t] = made[t] + 1 /\ t \in late' /\ Mode[t] = "copy" /\ step[t] # "capture"
    BY <1>1, <2>2 DEF EachTask, Copying, Excused
  <2>3. CASE /\ made'[t] = made[t] + 1 /\ Mode[t] = "copy" /\ step[t] # "capture"
             /\ Untried(t) /\ ~Untried(t)' /\ pc[t] # "observing"
    BY <1>1, <1>5, <2>3 DEF EachTask, Copying, Observing
  <2> QED
    BY <2>1, <2>2, <2>3 DEF CloudMoves
<1>7. Moving(t)'
  BY <1>1 DEF EachTask, Moving, Observing, CloudMoves
<1> QED
  BY <1>2, <1>3, <1>4, <1>6, <1>7 DEF EachTask

\* A request brings into the folder only what its tasks bring.
LEMMA CarryKeepsFolder ==
    ASSUME General, NEW A \in SUBSET Tasks, NEW op \in Ops, Carry(A, op),
           op = "move" => \A t \in A : Mode[t] = "move",
           op = "rename" => \A t \in A : item[t] # None,
           removed' = removed, item' = item
    PROVE  Folder' /\ CloudNames
<1>0. TypeOK /\ Folder /\ Ids = Files \union Copies
  BY DEF General, Ids
<1>1. CASE op = "move"
  <2>1. /\ made' = made
        /\ \A i \in Ids :
             /\ cloud'[i].name = cloud[i].name
             /\ IF cloud[i].at = "source" /\ \E t \in A : Source[t] = i
                THEN cloud'[i].at = "target" ELSE cloud'[i].at = cloud[i].at
    BY <1>0, <1>1, CarryMoves
  <2>2. \A i \in Ids : Bears(i, cloud'[i].name)
    BY <1>0, <2>1 DEF Folder, Bears, Claims, OwnName
  <2>3. \A i \in Files : cloud'[i].at = "target" => \E t \in Tasks : Owner(t, i)'
    BY <1>0, <1>1, <2>1 DEF Folder, Owner
  <2>4. Folder'
    BY <1>0, <2>1, <2>2, <2>3 DEF Folder, Bears, Claims, OwnName
  <2> QED
    BY <2>1, <2>4 DEF CloudNames
<1>2. CASE op = "copy"
  <2>1. /\ \A t \in Tasks : made'[t] = IF t \in Copied(A) THEN made[t] + 1 ELSE made[t]
        /\ \A i \in Ids :
             /\ cloud'[i].name = cloud[i].name
             /\ IF \E t \in Copied(A) : i = NextCopy(t)
                THEN cloud'[i].at = "target" ELSE cloud'[i].at = cloud[i].at
    BY <1>0, <1>2, CarryCopies
  <2>2. \A i \in Ids : Bears(i, cloud'[i].name)
    BY <1>0, <2>1 DEF Folder, Bears, Claims, OwnName
  <2>3. \A t \in Copied(A) : t \in Tasks /\ NextCopy(t) \notin Files /\ made[t] \in Nat
    BY <1>0, NameAssumption, BoundAssumption DEF Copied, NextCopy, Copies, TypeOK
  <2>4. ASSUME NEW i \in Files
        PROVE  cloud'[i].at = cloud[i].at
    BY <1>0, <2>1, <2>3
  <2>5. ASSUME NEW i \in Copies
        PROVE  /\ cloud'[i].at # "source"
               /\ cloud'[i].at = "target" => i[2] <= made'[i[1]]
               /\ i[2] <= made'[i[1]] => cloud'[i].at = "target" \/ i \in removed
               /\ i \in removed => i[2] <= made'[i[1]] /\ cloud'[i].at = "nowhere"
    <3>1. /\ i \in Ids /\ i[1] \in Tasks /\ i[2] \in Nat /\ i = <<i[1], i[2]>> /\ made[i[1]] \in Nat
      BY <1>0, CopyTypes, BoundAssumption DEF TypeOK
    <3>2. (\E t \in Copied(A) : i = NextCopy(t)) <=> i[1] \in Copied(A) /\ i[2] = made[i[1]] + 1
      BY <3>1 DEF NextCopy
    <3> QED
      BY <1>0, <2>1, <3>1, <3>2 DEF Folder
  <2>6. Folder'
    BY <1>0, <2>2, <2>4, <2>5 DEF Folder, Owner, Bears, Claims, OwnName
  <2> QED
    BY <2>1, <2>6 DEF CloudNames
<1>3. CASE op = "rename"
  <2>1. /\ made' = made
        /\ \A i \in Ids :
             /\ cloud'[i].at = cloud[i].at
             /\ cloud'[i].name = cloud[i].name
                \/ \E t \in A : Claims(t, i) /\ cloud'[i].name = Target[t]
    BY <1>0, <1>3, CarryRenames
  <2>2. \A i \in Ids : Bears(i, cloud'[i].name)
    BY <1>0, <2>1 DEF Folder, Bears, Claims, OwnName
  <2>3. Folder'
    BY <1>0, <2>1, <2>2 DEF Folder, Owner, Bears, Claims, OwnName
  <2> QED
    BY <2>1, <2>3 DEF CloudNames
<1> QED
  BY <1>1, <1>2, <1>3 DEF Ops

\* The kind of a request is the step of everybody in it.
LEMMA BatchOperation ==
    ASSUME General, NEW t \in batch
    PROVE  LET op == Operation(CHOOSE u \in batch : TRUE) IN
           /\ t \in Tasks /\ pc[t] = "batched" /\ begun[t] /\ op = Operation(t)
           /\ op \in Ops \union {"capture"}
           /\ op = "capture" <=> step[t] = "capture"
           /\ op \in {"move", "copy"} <=> step[t] = "materialize"
           /\ op \in {"move", "copy"} => op = Mode[t]
           /\ op = "rename" <=> step[t] = "rename"
           /\ op = "rename" => item[t] # None
<1> DEFINE v == CHOOSE u \in batch : TRUE
<1>1. v \in batch
  OBVIOUS
<1>2. /\ t \in Tasks /\ pc[t] = "batched" /\ Operation(v) = Operation(t) /\ Placed(t)
  BY <1>1 DEF General, Batched, TypeOK, EachTask
<1>3. step[t] \in {"capture", "materialize", "rename"} /\ Mode[t] \in {"move", "copy"} /\ begun[t]
  BY <1>2, TaskTypes DEF Placed, Ended, General, TypeOK, Steps
<1> HIDE DEF v
<1>4. Operation(t) = IF step[t] = "materialize" THEN Mode[t] ELSE step[t]
  BY DEF Operation
<1>5. step[t] = "rename" => item[t] # None
  BY <1>2 DEF Placed
<1> QED
  BY <1>2, <1>3, <1>4, <1>5 DEF Ops, v

\* The request of a batch, carried out in whole, in part, later or wrongly answered.
LEMMA CallKeeps ==
    ASSUME General, Call
    PROVE  General'
<1> DEFINE op == Operation(CHOOSE t \in batch : TRUE)
<1>1. PICK F \in SUBSET batch, U \in SUBSET batch :
          /\ F \intersect U = {} /\ (op = "capture" => F = {} /\ U = {})
          /\ Spend(Cardinality(F \union U))
          /\ late' = late \union F
          /\ floating' = floating \union {[task |-> t, op |-> op] : t \in F}
          /\ \/ op = "capture" /\ UNCHANGED <<cloud, made>>
             \/ Carry(batch \ (F \union U), op)
  BY Zenon DEF Call
<1>2. \A t \in batch :
           /\ t \in Tasks /\ pc[t] = "batched" /\ begun[t] /\ op = Operation(t)
           /\ op \in Ops \union {"capture"}
           /\ op = "capture" <=> step[t] = "capture"
           /\ op \in {"move", "copy"} <=> step[t] = "materialize"
           /\ op \in {"move", "copy"} => op = Mode[t]
           /\ op = "rename" <=> step[t] = "rename"
           /\ op = "rename" => item[t] # None
  BY BatchOperation
<1>3. /\ batch # {} /\ called = "no" /\ called' = "called"
      /\ step' = step /\ begun' = begun /\ baseline' = baseline /\ item' = item
      /\ pc' = pc /\ owned' = owned /\ doubt' = doubt /\ seen' = seen /\ answer' = answer
      /\ batch' = batch /\ UNCHANGED stop /\ removed' = removed /\ blind' = blind
  BY DEF Call, ledger, handler
<1> HIDE DEF op
<1> DEFINE A == batch \ (F \union U)
<1>4. TypeOK /\ Folder /\ Batched /\ Floats /\ A \in SUBSET Tasks /\ op \in Ops \union {"capture"}
  BY <1>2, <1>3 DEF General
<1>5. CASE op = "capture"
  <2>1. cloud' = cloud /\ made' = made /\ late' = late /\ floating' = floating /\ failures' = failures
    <3>1. F = {} /\ U = {} /\ Cardinality(F \union U) = 0
      BY <1>1, <1>5, FS_EmptySet
    <3>2. ~Carry(A, op)
      BY <1>5 DEF Carry
    <3> QED
      BY <1>1, <1>4, <3>1, <3>2, BoundAssumption DEF Spend, TypeOK
  <2>2. Still
    BY <1>3, <2>1 DEF Still
  <2>3. TypeOK'
    BY <1>3, <1>4, <2>1 DEF TypeOK, stop
  <2>4. Batched' /\ Stopping'
    BY <1>3, <2>1 DEF General, Batched, Stopping, Operation, stop
  <2>5. Locked'
    BY <1>3, LocksKept DEF General
  <2>6. Folder' /\ Strangers' /\ Floats'
    BY <1>3, <2>2, WorldKept DEF General
  <2>7. ASSUME NEW u \in Tasks PROVE EachTask(u)'
    BY <1>3, <2>2, BystanderKept DEF General
  <2> QED
    BY <2>3, <2>4, <2>5, <2>6, <2>7 DEF General
<1>6. CASE op \in Ops
  <2>0. Carry(A, op) /\ F \subseteq Tasks /\ U \subseteq Tasks
    BY <1>1, <1>2, <1>6 DEF Ops
  <2>1. Folder' /\ CloudNames
    BY <1>2, <1>3, <1>4, <1>6, <2>0, CarryKeepsFolder
  <2>2. /\ cloud' \in [Ids -> [at : {"source", "target", "nowhere"}, name : Names]]
        /\ made' \in [Tasks -> 0 .. MaxCopies]
    BY <1>2, <1>4, <1>6, <2>0, CarryMoves, CarryCopies, CarryRenames DEF Ops, TypeOK
  <2>3. failures' \in 0 .. MaxFailures
    <3>1. Cardinality(F \union U) \in Nat
      BY <2>0, TaskAssumption, FS_Subset, FS_Union, FS_CardinalityType
    <3> QED
      BY <1>1, <1>4, <3>1, BoundAssumption DEF Spend, TypeOK
  <2>4. TypeOK'
    BY <1>1, <1>3, <1>4, <1>6, <2>0, <2>2, <2>3 DEF TypeOK, stop
  <2>5. Batched' /\ Stopping' /\ Strangers'
    BY <1>3 DEF General, Batched, Stopping, Operation, stop, Strangers, Claims, Owner, HasTwin, Twins
  <2>6. Locked'
    BY <1>3, LocksKept DEF General
  <2>7. Floats'
    <3>1. ASSUME NEW f \in floating'
          PROVE  /\ f.task \in late' /\ step[f.task] # "capture"
                 /\ f.op \in {"move", "copy"} => f.op = Mode[f.task]
                 /\ f.op = "rename" => item[f.task] # None
      <4>1. CASE f \in floating
        BY <1>1, <1>4, <4>1 DEF Floats
      <4>2. CASE f \notin floating
        <5>1. PICK t \in F : f = [task |-> t, op |-> op]
          BY <1>1, <4>2
        <5>2. f.task = t /\ f.op = op
          BY <5>1
        <5> QED
          BY <1>1, <1>2, <1>6, <5>1, <5>2 DEF Ops
      <4> QED
        BY <4>1, <4>2
    <3> QED
      BY <1>3, <3>1 DEF Floats
  <2>8. ASSUME NEW t \in Tasks PROVE CloudMoves(t)
    <3>1. pc[t] = "batched" <=> t \in batch
      BY <1>4 DEF Batched
    <3>2. Untried(t)' => Untried(t)
      BY <1>3 DEF Untried
    <3>3. made'[t] = made[t]
          \/ /\ made'[t] = made[t] + 1 /\ Mode[t] = "copy" /\ step[t] # "capture"
             /\ Untried(t) /\ ~Untried(t)' /\ pc[t] # "observing"
      <4>1. CASE op = "copy" /\ t \in A
        <5>1. made'[t] \in {made[t], made[t] + 1}
          BY <1>4, <2>0, <4>1, CarryCopies
        <5>2. Mode[t] = "copy" /\ step[t] = "materialize" /\ pc[t] = "batched" /\ begun[t]
          BY <1>2, <4>1
        <5> QED
          BY <1>3, <5>1, <5>2 DEF Untried
      <4>2. CASE op = "copy" /\ t \notin A
        BY <1>4, <2>0, <4>2, CarryCopies DEF Copied
      <4>3. CASE op # "copy"
        BY <1>2, <1>4, <1>6, <2>0, <4>3, CarryMoves, CarryRenames DEF Ops
      <4> QED
        BY <4>1, <4>2, <4>3
    <3>4. ASSUME pc[t] = "observing", Mode[t] = "move", cloud'[Source[t]].at = "target"
          PROVE  cloud[Source[t]].at = "target"
      <4>1. Source[t] \in Files /\ Source[t] \in Ids
        BY TaskTypes
      <4>2. t \notin A
        BY <3>1, <3>4
      <4>3. CASE op = "move"
        <5>1. \A u \in A : Source[u] # Source[t]
          BY <1>4, <3>4, <4>2, SourceAssumption
        <5> QED
          BY <1>4, <2>0, <3>4, <4>1, <4>3, <5>1, CarryMoves
      <4>4. CASE op = "copy"
        <5>1. \A u \in Copied(A) : NextCopy(u) \notin Files
          <6>1. \A u \in Copied(A) : u \in Tasks /\ made[u] + 1 \in 1 .. MaxCopies
            BY <1>4, BoundAssumption DEF Copied, TypeOK
          <6> QED
            BY <6>1, CopyIs DEF NextCopy
        <5>2. ~\E u \in Copied(A) : Source[t] = NextCopy(u)
          BY <4>1, <5>1
        <5>3. cloud'[Source[t]].at = cloud[Source[t]].at
          BY <1>4, <2>0, <4>1, <4>4, <5>2, CarryCopies
        <5> QED
          BY <3>4, <5>3
      <4>5. CASE op = "rename"
        BY <1>2, <1>4, <2>0, <3>4, <4>1, <4>5, CarryRenames
      <4> QED
        BY <1>6, <4>3, <4>4, <4>5 DEF Ops
    <3> QED
      BY <3>2, <3>3, <3>4 DEF CloudMoves
  <2>9. ASSUME NEW t \in Tasks PROVE EachTask(t)'
    BY <1>1, <1>3, <2>1, <2>8, CloudKeepsTask
  <2> QED
    BY <2>1, <2>4, <2>5, <2>6, <2>7, <2>9 DEF General
<1> QED
  BY <1>4, <1>5, <1>6

\* What the cloud had put off is carried out.
LEMMA LandKeeps ==
    ASSUME General, NEW f \in floating, Land(f)
    PROVE  General'
<1> DEFINE op == f.op
           A == {f.task}
<1>1. /\ step' = step /\ begun' = begun /\ baseline' = baseline /\ item' = item
      /\ pc' = pc /\ owned' = owned /\ doubt' = doubt /\ seen' = seen /\ answer' = answer
      /\ batch' = batch /\ called' = called /\ UNCHANGED stop /\ removed' = removed /\ late' = late
      /\ blind' = blind /\ failures' = failures /\ floating' = floating \ {f} /\ Carry(A, op)
  BY DEF Land, ledger, handler, coordinator
<1>2. /\ TypeOK /\ Folder /\ Floats /\ f.task \in Tasks /\ A \in SUBSET Tasks /\ op \in Ops
      /\ f.task \in late /\ step[f.task] # "capture"
      /\ op \in {"move", "copy"} => op = Mode[f.task]
      /\ op = "rename" => item[f.task] # None
  BY DEF General, Floats, TypeOK
<1> HIDE DEF op, A
<1>3. \A t \in A : t = f.task
  BY DEF A
<1>4. Folder' /\ CloudNames
  BY <1>1, <1>2, <1>3, CarryKeepsFolder
<1>5. /\ cloud' \in [Ids -> [at : {"source", "target", "nowhere"}, name : Names]]
      /\ made' \in [Tasks -> 0 .. MaxCopies]
  BY <1>1, <1>2, <1>3, CarryMoves, CarryCopies, CarryRenames DEF Ops, TypeOK
<1>6. TypeOK'
  BY <1>1, <1>2, <1>5 DEF TypeOK, stop
<1>7. Batched' /\ Stopping' /\ Strangers'
  BY <1>1 DEF General, Batched, Stopping, Operation, stop, Strangers, Claims, Owner, HasTwin, Twins
<1>8. Locked' /\ Floats'
  BY <1>1, <1>2, LocksKept DEF General, Floats
<1>9. ASSUME NEW t \in Tasks PROVE CloudMoves(t)
  <2>1. Untried(t)' => Untried(t)
    BY <1>1 DEF Untried
  <2>2. made'[t] = made[t]
        \/ (made'[t] = made[t] + 1 /\ Mode[t] = "copy" /\ step[t] # "capture" /\ t \in late)
    <3>1. CASE op = "copy"
      <4>1. made'[t] = IF t \in Copied(A) THEN made[t] + 1 ELSE made[t]
        BY <1>1, <1>2, <3>1, CarryCopies
      <4>2. t \in Copied(A) => t = f.task
        BY <1>3 DEF Copied
      <4> QED
        BY <1>2, <3>1, <4>1, <4>2
    <3>2. CASE op # "copy"
      BY <1>1, <1>2, <1>3, <3>2, CarryMoves, CarryRenames DEF Ops
    <3> QED
      BY <3>1, <3>2
  <2>3. ASSUME Mode[t] = "move", cloud'[Source[t]].at = "target", t \notin late
        PROVE  cloud[Source[t]].at = "target"
    <3>1. Source[t] \in Files /\ Source[t] \in Ids
      BY TaskTypes
    <3>2. t \notin A
      BY <1>2, <1>3, <2>3
    <3>3. CASE op = "move"
      <4>1. \A u \in A : Source[u] # Source[t]
        BY <1>2, <2>3, <3>2, SourceAssumption
      <4> QED
        BY <1>1, <1>2, <2>3, <3>1, <3>3, <4>1, CarryMoves
    <3>4. CASE op = "copy"
      <4>1. \A u \in Copied(A) : NextCopy(u) \notin Files
        <5>1. \A u \in Copied(A) : u \in Tasks /\ made[u] + 1 \in 1 .. MaxCopies
          BY <1>2, BoundAssumption DEF Copied, TypeOK
        <5> QED
          BY <5>1, CopyIs DEF NextCopy
      <4>2. ~\E u \in Copied(A) : Source[t] = NextCopy(u)
        BY <3>1, <4>1
      <4>3. cloud'[Source[t]].at = cloud[Source[t]].at
        BY <1>1, <1>2, <3>1, <3>4, <4>2, CarryCopies
      <4> QED
        BY <2>3, <4>3
    <3>5. CASE op = "rename"
      BY <1>1, <1>2, <1>3, <2>3, <3>1, <3>5, CarryRenames
    <3> QED
      BY <1>2, <3>3, <3>4, <3>5 DEF Ops
  <2> QED
    BY <1>1, <2>1, <2>2, <2>3 DEF CloudMoves
<1>10. ASSUME NEW t \in Tasks PROVE EachTask(t)'
  BY <1>1, <1>4, <1>9, CloudKeepsTask
<1> QED
  BY <1>4, <1>6, <1>7, <1>8, <1>10 DEF General

\* Somebody removes a file.
LEMMA RemoveKeeps ==
    ASSUME General, NEW i \in Ids, Remove(i)
    PROVE  General'
<1>1. /\ step' = step /\ begun' = begun /\ baseline' = baseline /\ item' = item
      /\ pc' = pc /\ owned' = owned /\ doubt' = doubt /\ seen' = seen /\ answer' = answer
      /\ batch' = batch /\ called' = called /\ UNCHANGED stop /\ late' = late /\ made' = made
      /\ blind' = blind /\ floating' = floating /\ removed' = removed \union {i}
      /\ cloud[i].at # "nowhere" /\ Spend(1)
      /\ cloud' = [cloud EXCEPT ![i].at = "nowhere"]
  BY DEF Remove, ledger, handler, coordinator
<1>2. TypeOK /\ Folder /\ Ids = Files \union Copies
  BY DEF General, Ids
<1>3. /\ cloud' \in [Ids -> [at : {"source", "target", "nowhere"}, name : Names]]
      /\ \A j \in Ids : /\ cloud'[j].name = cloud[j].name
                        /\ cloud'[j].at = IF j = i THEN "nowhere" ELSE cloud[j].at
  BY <1>1, <1>2 DEF TypeOK
<1>4. TypeOK'
  BY <1>1, <1>2, <1>3, BoundAssumption DEF TypeOK, stop, Spend
<1>5. Folder' /\ CloudNames
  <2>1. CloudNames
    BY <1>1, <1>3 DEF CloudNames
  <2>2. \A j \in Copies : i = j => cloud[i].at = "target"
    BY <1>1, <1>2 DEF Folder, TypeOK
  <2>3. \A j \in Ids : Bears(j, cloud'[j].name)
    BY <1>2, <1>3 DEF Folder
  <2> QED
    BY <1>1, <1>2, <1>3, <2>1, <2>2, <2>3 DEF Folder, Bears, Claims, OwnName, Owner
<1>6. Batched' /\ Stopping' /\ Strangers'
  BY <1>1 DEF General, Batched, Stopping, Operation, stop, Strangers, Claims, Owner, HasTwin, Twins
<1>7. Locked' /\ Floats'
  BY <1>1, LocksKept DEF General, Floats
<1>8. ASSUME NEW t \in Tasks PROVE EachTask(t)'
  <2>1. CloudMoves(t)
    BY <1>1, <1>3, TaskTypes DEF CloudMoves, Untried
  <2> QED
    BY <1>1, <1>5, <2>1, CloudKeepsTask
<1> QED
  BY <1>4, <1>5, <1>6, <1>7, <1>8 DEF General
------------------------------------------------------------------------------
(* The invariant, without Smooth.                                          *)

\* The general part of the invariant, which holds whatever goes wrong.
LEMMA InitGeneral == Init => General
<1> SUFFICES ASSUME Init PROVE General
  OBVIOUS
<1> USE DEF Init
<1>0. /\ \A i \in Files : cloud[i].at = "source" /\ cloud[i].name = Name[i]
      /\ \A i \in Copies : cloud[i].at = "nowhere" /\ cloud[i].name = Name[Source[i[1]]]
  BY CopyTypes DEF Ids
<1>1. TypeOK
  <2>1. \A i \in Copies : Name[Source[i[1]]] \in Names
    BY CopyTypes, TaskTypes
  <2>2. cloud \in [Ids -> [at : {"source", "target", "nowhere"}, name : Names]]
    BY <2>1, IdsAre, TaskAssumption
  <2>3. /\ made \in [Tasks -> 0 .. MaxCopies] /\ failures \in 0 .. MaxFailures
        /\ seen \in [Tasks -> SUBSET Items] /\ baseline \in [Tasks -> SUBSET Ids]
    BY BoundAssumption
  <2> QED
    BY <2>2, <2>3 DEF TypeOK, Steps, PCs
<1>2. Batched /\ Locked /\ Stopping /\ Floats
  BY DEF Batched, Locked, Stopping, Floats, Holding
<1>3. Folder
  <2>1. \A i \in Copies : i[2] \in 1 .. MaxCopies /\ made[i[1]] = 0
    BY CopyTypes
  <2>2. \A i \in Copies : ~(i[2] <= made[i[1]])
    BY <2>1, BoundAssumption
  <2>3. removed = {} /\ \A i \in Ids : cloud[i].name = OwnName(i)
    BY <1>0, IdsAre, CopyTypes DEF OwnName
  <2>4. \A i \in Ids : Bears(i, cloud[i].name)
    BY <2>3 DEF Bears
  <2> HIDE DEF Init
  <2> QED
    BY <2>2, <2>3, <2>4, <1>0 DEF Folder
<1>4. Strangers
  BY DEF Strangers, Claims
<1>5. ASSUME NEW t \in Tasks PROVE EachTask(t)
  <2>1. Placed(t) /\ Claimed(t) /\ Moving(t) /\ Reviewed(t)
    BY DEF Placed, Claimed, Moving, Reviewed, Observing, Ended
  <2>2. Shown(t)
    BY FS_EmptySet DEF Shown
  <2>3. Copying(t)
    BY DEF Copying, Observing
  <2> QED
    BY <2>1, <2>2, <2>3 DEF EachTask
<1> QED
  BY <1>1, <1>2, <1>3, <1>4, <1>5 DEF General

LEMMA NextGeneral == General /\ [Next]_vars => General'
<1> SUFFICES ASSUME General, [Next]_vars PROVE General'
  OBVIOUS
<1>1. CASE UNCHANGED vars
  <2>1. Still /\ UNCHANGED <<ledger, handler, coordinator, stop, blind, failures>>
    BY <1>1 DEF vars, Still, ledger, handler, coordinator, stop
  <2>2. TypeOK' /\ Batched' /\ Stopping'
    BY <2>1 DEF General, TypeOK, Batched, Stopping, Operation, Still, ledger, handler, coordinator, stop
  <2>3. Locked' /\ Folder' /\ Strangers' /\ Floats'
    BY <2>1, LocksKept, WorldKept DEF General, ledger, handler
  <2>4. ASSUME NEW t \in Tasks PROVE EachTask(t)'
    BY <2>1, BystanderKept DEF General, ledger, handler, coordinator
  <2> QED
    BY <2>2, <2>3, <2>4 DEF General
<1>2. ASSUME NEW t \in Tasks, Begin(t) \/ Handle(t) \/ LeaseLost(t) \/ ObservationFails(t)
      PROVE  General'
  BY <1>2, BeginKeeps, LockKeeps, StartKeeps, KeepNameKeeps, RecoverKeeps, ConcludeKeeps, RecordKeeps,
     DisownKeeps, LeaseLostKeeps, ObservationFailsKeeps DEF Handle
<1>3. CASE Batch
  BY <1>3, CallKeeps, ListKeeps, ExecuteKeeps, AnswerKeeps DEF Batch
<1>4. CASE BatchFails
  BY <1>4, BatchFailsKeeps
<1>5. CASE Crash \/ Reload
  <2>1. Fresh /\ failures' \in 0 .. MaxFailures
    BY <1>5, BoundAssumption DEF Crash, Reload, Spend, General, TypeOK
  <2> QED
    BY <2>1, FreshKeeps
<1>6. ASSUME NEW f \in floating, Land(f) PROVE General'
  BY <1>6, LandKeeps
<1>7. ASSUME NEW i \in Ids, Remove(i) PROVE General'
  BY <1>7, RemoveKeeps
<1>8. CASE Shutdown \/ CloseCoordinator \/ ReportStopped \/ GiveUp
  BY <1>8, StopKeeps
<1> QED
  BY <1>1, <1>2, <1>3, <1>4, <1>5, <1>6, <1>7, <1>8 DEF Next
------------------------------------------------------------------------------
(* As long as nothing has gone wrong: the handlers.                        *)

\* The entry a task is to bring is its own.
LEMMA OwnIs ==
    ASSUME NEW t \in Tasks
    PROVE  /\ Own(t) \in Ids /\ Owner(t, Own(t)) /\ \A u \in Tasks : Own(u) = Own(t) => u = t
           /\ Mode[t] = "copy" => Own(t) = <<t, 1>> /\ Own(t) \in Copies /\ 1 \in 1 .. MaxCopies
           /\ Mode[t] = "move" => Own(t) = Source[t] /\ Own(t) \in Files
           /\ ContentOf(Own(t)) = Content[Source[t]] /\ OwnName(Own(t)) = Name[Source[t]]
<1>1. \A u \in Tasks : /\ Own(u) \in Ids /\ Owner(u, Own(u))
                       /\ Mode[u] = "copy" => Own(u) = <<u, 1>> /\ Own(u) \in Copies /\ 1 \in 1 .. MaxCopies
                       /\ Mode[u] = "move" => Own(u) = Source[u] /\ Own(u) \in Files
  BY TaskTypes, CopyIs, BoundAssumption DEF Own, Owner
<1>2. \A u \in Tasks : Own(u) = Own(t) => u = t
  BY <1>1, OneOwner
<1> QED
  BY <1>1, <1>2, OwnerBrings

Quiet == late = {} /\ removed = {} /\ floating = {} /\ blind = {}

\* The second part of the invariant holds as long as nothing has gone wrong.
LEMMA SmoothIs ==
    ASSUME Smooth, failures = 0
    PROVE  Quiet /\ \A t \in Tasks : SmoothTask(t)
BY DEF Smooth, Quiet

\* A step of another task leaves a task undisturbed.
LEMMA SmoothBystander ==
    ASSUME NEW t \in Tasks, SmoothTask(t), cloud' = cloud, made' = made,
           step'[t] = step[t], begun'[t] = begun[t], baseline'[t] = baseline[t], item'[t] = item[t],
           pc'[t] = pc[t], owned'[t] = owned[t], doubt'[t] = doubt[t], seen'[t] = seen[t],
           answer'[t] = answer[t], called' = called \/ pc[t] # "batched"
    PROVE  SmoothTask(t)'
BY DEF SmoothTask, Brought, Own, Untried, Listed, OnlyOwn, Matches, Renamed, ContentOf

\* Steps that change nothing but where the handler is.
LEMMA SmoothMove ==
    ASSUME NEW t \in Tasks, SmoothTask(t), cloud' = cloud, made' = made,
           step'[t] = step[t], baseline'[t] = baseline[t], item'[t] = item[t],
           ~doubt'[t], answer'[t] # "error",
           pc'[t] \in {"out", "entered", "running", "waiting", "answered", "batched"},
           pc'[t] # "out" => owned'[t],
           begun'[t] => pc'[t] \in {"waiting", "batched", "answered"},
           pc'[t] \in {"out", "entered"} => step[t] \in {"capture", "done"},
           Untried(t)' <=> Untried(t),
           Listed(t)' => step[t] = "rename",
           pc'[t] = "batched" => called' = "no"
    PROVE  SmoothTask(t)'
<1>1. OnlyOwn(t)' <=> OnlyOwn(t)
  BY DEF OnlyOwn, Own
<1>2. Brought(t)' <=> Brought(t)
  BY DEF Brought, Own
<1> QED
  BY <1>1, <1>2 DEF SmoothTask, Own

LEMMA SmoothBegin ==
    ASSUME General, Smooth, failures = 0, NEW t \in Tasks, Begin(t) \/ Lock(t) \/ Start(t) \/ KeepName(t)
    PROVE  Smooth'
<1> USE DEF ledger, handler, coordinator, history, stop
<1>1. Quiet /\ TypeOK /\ \A u \in Tasks : SmoothTask(u)
  BY SmoothIs DEF General
<1>2. /\ UNCHANGED <<cloud, step, baseline, item, coordinator, floating, history, failures>>
      /\ \A u \in Tasks : u # t => /\ begun'[u] = begun[u] /\ pc'[u] = pc[u] /\ owned'[u] = owned[u]
                                   /\ doubt'[u] = doubt[u] /\ seen'[u] = seen[u]
                                   /\ answer'[u] = answer[u]
  BY <1>1 DEF Begin, Lock, Start, KeepName, GoOn, TypeOK
<1>3. SmoothTask(t)'
  <2>1. CASE Begin(t)
    BY <1>1, <1>2, <2>1, SmoothMove DEF Begin, SmoothTask, TypeOK, Untried, Listed, Ended, Steps
  <2>2. CASE Lock(t)
    BY <1>1, <1>2, <2>2, SmoothMove DEF Lock, SmoothTask, TypeOK, Untried, Listed
  <2>3. CASE Start(t)
    BY <1>1, <1>2, <2>3, SmoothMove DEF Start, GoOn, SmoothTask, TypeOK, Untried, Listed
  <2>4. CASE KeepName(t)
    BY <1>1, <1>2, <2>4, SmoothMove DEF KeepName, NameFits, SmoothTask, TypeOK, Untried, Listed
  <2> QED
    BY <2>1, <2>2, <2>3, <2>4
<1>4. ASSUME NEW u \in Tasks, u # t PROVE SmoothTask(u)'
  BY <1>1, <1>2, <1>4, SmoothBystander
<1> QED
  BY <1>1, <1>2, <1>3, <1>4 DEF Smooth, Quiet

\* Nothing is in doubt, nobody observes, nobody has lost a lease.
LEMMA SmoothExcludes ==
    ASSUME General, Smooth, failures = 0, NEW t \in Tasks
    PROVE  /\ ~Recover(t) /\ ~Conclude(t) /\ ~ObservationFails(t) /\ ~Disown(t)
           /\ Record(t) => answer[t] = "ok" /\ pc[t] = "answered" /\ owned[t] /\ begun[t]
                           /\ (Captured(t) \/ Applied(t))
<1>1. SmoothTask(t) /\ Placed(t)
  BY SmoothIs DEF General, EachTask
<1> QED
  BY <1>1 DEF SmoothTask, Recover, Conclude, ObservationFails, Disown, Record, Placed

LEMMA SmoothCaptured ==
    ASSUME General, Smooth, failures = 0, NEW t \in Tasks, Record(t), Captured(t)
    PROVE  SmoothTask(t)'
<1>1. TypeOK /\ Placed(t) /\ SmoothTask(t) /\ pc[t] = "answered" /\ owned[t] /\ begun[t]
  BY SmoothIs, SmoothExcludes DEF General, EachTask
<1>2. /\ cloud' = cloud /\ made' = made /\ called' = called /\ step[t] = "capture"
      /\ step'[t] = "materialize" /\ begun'[t] = FALSE /\ baseline'[t] = {x.id : x \in seen[t]}
      /\ item'[t] = item[t] /\ pc'[t] = "running" /\ owned'[t] /\ doubt'[t] = FALSE
      /\ seen'[t] = {} /\ answer'[t] = "none"
  BY <1>1 DEF Record, Captured, GoOn, TypeOK, coordinator
<1>3. Untried(t) /\ Untried(t)'
  BY <1>2 DEF Untried
<1>4. Mode[t] = "copy" => OnlyOwn(t)'
  <2> SUFFICES ASSUME Mode[t] = "copy", NEW i \in Ids, cloud[i].at = "target",
                      cloud[i].name = Name[Source[t]], i \notin baseline'[t]
               PROVE  FALSE
    BY <1>2 DEF OnlyOwn
  <2>1. \E x \in seen[t] : x.id = i
    BY <1>1, <1>2 DEF SmoothTask, Listed
  <2> QED
    BY <1>2, <2>1
<1>5. Brought(t)' <=> Brought(t)
  BY <1>2 DEF Brought, Own
<1> QED
  BY <1>1, <1>2, <1>3, <1>4, <1>5 DEF SmoothTask, Listed, Own

LEMMA SmoothApplied ==
    ASSUME General, Smooth, failures = 0, NEW t \in Tasks, Record(t), Applied(t)
    PROVE  SmoothTask(t)'
<1>1. TypeOK /\ Placed(t) /\ SmoothTask(t) /\ pc[t] = "answered" /\ owned[t] /\ begun[t]
  BY SmoothIs, SmoothExcludes DEF General, EachTask
<1>2. /\ cloud' = cloud /\ made' = made /\ begun'[t] = FALSE /\ doubt'[t] = FALSE
      /\ seen'[t] = {} /\ answer'[t] = "none"
  BY <1>1 DEF Record, Applied, GoOn, Leave, TypeOK
<1>3. Brought(t)' <=> Brought(t)
  BY <1>2 DEF Brought, Own
<1>4. CASE step[t] = "materialize"
  <2>1. step'[t] = "rename" /\ pc'[t] = "running" /\ owned'[t]
    BY <1>1, <1>4 DEF Applied, GoOn, TypeOK
  <2>2. PICK y \in seen[t] : y.id = Own(t) /\ Matches(t) = {y}
    BY <1>1, <1>4 DEF SmoothTask, Listed
  <2>3. item'[t].id = Own(t)
    BY <1>1, <1>4, <2>2 DEF Applied, TypeOK
  <2>4. ~Untried(t) /\ ~Untried(t)'
    BY <1>1, <1>4, <2>1 DEF Untried
  <2> QED
    BY <1>1, <1>2, <1>3, <2>1, <2>3, <2>4 DEF SmoothTask, Listed, Own
<1>5. CASE step[t] = "rename"
  <2>1. step'[t] = "done" /\ pc'[t] = "out" /\ item'[t] = item[t]
    BY <1>1, <1>5 DEF Applied, Leave, TypeOK
  <2>2. ~Untried(t) /\ ~Untried(t)'
    BY <1>5, <2>1 DEF Untried
  <2> QED
    BY <1>1, <1>2, <1>3, <2>1, <2>2 DEF SmoothTask, Listed, Own
<1> QED
  BY <1>4, <1>5 DEF Applied

LEMMA SmoothRecord ==
    ASSUME General, Smooth, failures = 0, NEW t \in Tasks, Record(t)
    PROVE  Smooth'
<1>1. Quiet /\ TypeOK /\ \A u \in Tasks : SmoothTask(u)
  BY SmoothIs DEF General
<1>2. answer[t] = "ok" /\ (Captured(t) \/ Applied(t))
  BY SmoothExcludes
<1>3. SmoothTask(t)'
  BY <1>2, SmoothCaptured, SmoothApplied
<1>4. /\ UNCHANGED <<cloud, coordinator, floating, late, removed, made>> /\ blind' = blind
      /\ \A u \in Tasks : u # t =>
            /\ step'[u] = step[u] /\ begun'[u] = begun[u] /\ baseline'[u] = baseline[u]
            /\ item'[u] = item[u] /\ pc'[u] = pc[u] /\ owned'[u] = owned[u]
            /\ doubt'[u] = doubt[u] /\ seen'[u] = seen[u] /\ answer'[u] = answer[u]
  <2>1. UNCHANGED <<cloud, coordinator, floating, late, removed, made>> /\ blind' = blind
    BY <1>2 DEF Record
  <2>2. CASE Captured(t)
    BY <1>1, <2>1, <2>2 DEF Captured, GoOn, TypeOK
  <2>3. CASE Applied(t)
    BY <1>1, <2>1, <2>3 DEF Applied, GoOn, Leave, TypeOK
  <2> QED
    BY <1>2, <2>2, <2>3
<1>5. ASSUME NEW u \in Tasks, u # t PROVE SmoothTask(u)'
  BY <1>1, <1>4, <1>5, SmoothBystander DEF coordinator
<1> QED
  BY <1>1, <1>3, <1>4, <1>5 DEF Smooth, Quiet

LEMMA SmoothStop ==
    ASSUME General, Smooth, failures = 0,
           Reload \/ Shutdown \/ CloseCoordinator \/ ReportStopped \/ UNCHANGED vars
    PROVE  Smooth'
<1>1. Quiet /\ TypeOK /\ Batched /\ Stopping /\ \A u \in Tasks : SmoothTask(u)
  BY SmoothIs DEF General
<1>2. CASE Reload
  <2>1. \A t \in Tasks : pc[t] = "out"
    BY <1>1, <1>2 DEF Reload, Stopping
  <2>2. batch = {} /\ called = "no"
    BY <1>1, <1>2 DEF Reload, Stopping, Batched
  <2>3. UNCHANGED <<cloud, ledger, floating, history>> /\ Fresh
    BY <1>2 DEF Reload, Fresh
  <2>4. ASSUME NEW t \in Tasks PROVE SmoothTask(t)'
    <3>1. Untried(t)' <=> Untried(t)
      BY <2>1, <2>3 DEF Fresh, Untried, ledger
    <3>2. ~Listed(t)'
      BY <2>3 DEF Fresh, Listed
    <3>3. SmoothTask(t)
      BY <1>1
    <3> QED
      BY <2>1, <2>3, <3>1, <3>2, <3>3, SmoothMove DEF Fresh, ledger, history, SmoothTask
  <2> QED
    BY <1>1, <2>3, <2>4 DEF Smooth, Quiet, history
<1>3. CASE Shutdown \/ CloseCoordinator \/ ReportStopped \/ UNCHANGED vars
  <2>1. UNCHANGED <<cloud, ledger, handler, coordinator, floating, history>>
    BY <1>3 DEF Shutdown, CloseCoordinator, ReportStopped, vars, ledger, handler, coordinator, history
  <2>2. ASSUME NEW t \in Tasks PROVE SmoothTask(t)'
    BY <1>1, <2>1, SmoothBystander DEF ledger, handler, coordinator, history
  <2> QED
    BY <1>1, <2>1, <2>2 DEF Smooth, Quiet, history
<1> QED
  BY <1>2, <1>3
------------------------------------------------------------------------------
(* As long as nothing has gone wrong: the requests.                        *)

LEMMA SmoothExecute ==
    ASSUME General, Smooth, failures = 0, NEW T \in SUBSET Tasks, Execute(T)
    PROVE  Smooth'
<1> USE DEF ledger, coordinator, history, stop
<1>1. Quiet /\ TypeOK /\ Batched /\ \A u \in Tasks : SmoothTask(u)
  BY SmoothIs DEF General
<1>2. /\ UNCHANGED <<cloud, ledger, owned, doubt, seen, called, floating, history>>
      /\ called = "no" /\ \A t \in T : pc[t] = "waiting"
  BY <1>1 DEF Execute, Batched
<1>3. ASSUME NEW t \in T PROVE SmoothTask(t)'
  <2>1. t \in Tasks /\ owned[t] /\ pc[t] = "waiting"
    BY <1>1, <1>2 DEF SmoothTask
  <2>2. pc'[t] = "batched" /\ answer'[t] = answer[t]
    BY <2>1 DEF Execute
  <2>3. Untried(t)' <=> Untried(t)
    BY <1>2, <2>1, <2>2 DEF Untried
  <2>4. ~Listed(t)' /\ called' = "no"
    BY <1>2, <2>2 DEF Listed
  <2>5. SmoothTask(t)
    BY <1>1, <2>1
  <2> QED
    BY <1>2, <2>1, <2>2, <2>3, <2>4, <2>5, SmoothMove DEF SmoothTask
<1>4. ASSUME NEW t \in Tasks, t \notin T PROVE SmoothTask(t)'
  <2>1. pc'[t] = pc[t] /\ answer'[t] = answer[t]
    BY <1>4 DEF Execute
  <2> QED
    BY <1>1, <1>2, <2>1, SmoothBystander
<1> QED
  BY <1>1, <1>2, <1>3, <1>4 DEF Smooth, Quiet

\* When nothing has gone wrong, a listing after the request shows exactly the entry of the task.
LEMMA SmoothListed ==
    ASSUME General, Smooth, failures = 0, List, NEW t \in batch
    PROVE  SmoothTask(t)'
<1>1. /\ TypeOK /\ Folder /\ SmoothTask(t) /\ Copying(t)
      /\ t \in Tasks /\ pc[t] = "batched" /\ begun[t]
  BY SmoothIs DEF General, Batched, EachTask, Placed, TypeOK
<1>2. /\ called = "called" /\ called' = "listed" /\ seen'[t] = Listing
      /\ UNCHANGED <<cloud, made, step, begun, baseline, item, pc, owned, doubt, answer>>
  BY <1>1 DEF List, ledger, history
<1>3. (Untried(t)' <=> Untried(t)) /\ (Brought(t)' <=> Brought(t)) /\ (OnlyOwn(t)' <=> OnlyOwn(t))
  BY <1>1, <1>2 DEF Untried, Brought, OnlyOwn, Own
<1>4. step[t] = "capture" \/ Brought(t)
  BY <1>1, <1>2 DEF SmoothTask, Untried
<1>5. \A i \in Ids : cloud[i].at = "target" => \E x \in Listing : x.id = i
  BY <1>1, ListingIs
<1> DEFINE x == [id |-> Own(t), name |-> cloud[Own(t)].name]
<1>6. Brought(t) => x \in Listing /\ x.id = Own(t) /\ x.name = cloud[Own(t)].name
  BY <1>1, OwnIs, ListingIs DEF Brought
<1>7. ASSUME step[t] = "materialize"
      PROVE  x \in Listing /\ x.id = Own(t) /\ Matches(t)' = {x}
  <2>1. x \in Listing /\ x.id = Own(t) /\ x.name = Name[Source[t]]
    BY <1>1, <1>2, <1>4, <1>6, <1>7 DEF SmoothTask, Untried
  <2>2. \A y \in Listing : y.id = Own(t) => y = x
    BY <1>1, <2>1, ListingIs
  <2> HIDE DEF x
  <2>3. CASE Mode[t] = "move"
    <3>1. Matches(t)' = {y \in Listing : y.id = Own(t)}
      BY <1>2, <2>3, OwnIs, <1>1 DEF Matches
    <3> QED
      BY <2>1, <2>2, <3>1
  <2>4. CASE Mode[t] = "copy"
    <3>1. Matches(t)' = {y \in Listing : /\ y.name = Name[Source[t]] /\ y.id \notin baseline[t]
                                         /\ ContentOf(y.id) = Content[Source[t]]}
      BY <1>2, <2>4 DEF Matches, ContentOf
    <3>2. Own(t) \notin baseline[t] /\ ContentOf(Own(t)) = Content[Source[t]]
      BY <1>1, <2>4, OwnIs DEF Copying
    <3>3. \A y \in Listing : y.id \in Ids /\ cloud[y.id].at = "target" /\ y.name = cloud[y.id].name
      BY <1>1, ListingIs
    <3>4. \A y \in Matches(t)' : y.id = Own(t)
      BY <1>1, <1>7, <2>4, <3>1, <3>3 DEF SmoothTask, OnlyOwn
    <3> QED
      BY <2>1, <2>2, <3>1, <3>2, <3>4
  <2> QED
    BY <1>1, <2>1, <2>3, <2>4, TaskTypes
<1>8. ASSUME step[t] = "rename"
      PROVE  \E y \in Renamed(t)' : y.name = Target[t]
  <2>1. x \in Listing /\ x.id = Own(t) /\ x.name = Target[t]
    BY <1>1, <1>2, <1>4, <1>6, <1>8 DEF SmoothTask
  <2>2. item[t].id = Own(t)
    BY <1>1, <1>8 DEF SmoothTask, General, EachTask, Placed
  <2> HIDE DEF x
  <2>3. Renamed(t)' = {y \in Listing : y.id = Own(t)}
    BY <1>2, <2>2 DEF Renamed
  <2> QED
    BY <2>1, <2>3
<1>9. step[t] = "materialize" => \E y \in seen'[t] : y.id = Own(t) /\ Matches(t)' = {y}
  BY <1>2, <1>7
<1> HIDE DEF x
<1>10. Own(t)' = Own(t) /\ Listed(t)'
  BY <1>1, <1>2 DEF Own, Listed
<1> QED
  BY <1>1, <1>2, <1>3, <1>5, <1>8, <1>9, <1>10 DEF SmoothTask

LEMMA SmoothList ==
    ASSUME General, Smooth, failures = 0, List
    PROVE  Smooth'
<1>1. Quiet /\ TypeOK /\ Batched /\ \A u \in Tasks : SmoothTask(u)
  BY SmoothIs DEF General
<1>2. UNCHANGED <<cloud, ledger, pc, owned, doubt, answer, batch, floating, stop, history, failures>>
  BY DEF List
<1>3. ASSUME NEW t \in Tasks, t \notin batch PROVE SmoothTask(t)'
  <2>1. seen'[t] = seen[t] /\ pc[t] # "batched"
    BY <1>1, <1>3 DEF List, Batched
  <2> QED
    BY <1>1, <1>2, <2>1, SmoothBystander DEF ledger, history
<1>4. ASSUME NEW t \in Tasks PROVE SmoothTask(t)'
  BY <1>3, SmoothListed
<1> QED
  BY <1>1, <1>2, <1>4 DEF Smooth, Quiet, history

\* So the answer of the listing is that the step was applied.
LEMMA SmoothConfirmed ==
    ASSUME General, Smooth, failures = 0, NEW t \in Tasks, Answer(t)
    PROVE  Confirmed(t)
<1>1. /\ Quiet /\ TypeOK /\ Folder /\ SmoothTask(t) /\ Shown(t) /\ Placed(t)
      /\ pc[t] = "batched" /\ called = "listed"
  BY SmoothIs DEF General, Batched, EachTask, Answer
<1>2. CASE step[t] = "capture"
  <2>1. ~Brought(t) /\ Source[t] \in Files /\ Source[t] \in Ids
    BY <1>1, <1>2, TaskTypes DEF SmoothTask, Untried
  <2>2. cloud[Source[t]].at # "nowhere" /\ cloud[Source[t]].at \in {"source", "target", "nowhere"}
    BY <1>1, <2>1 DEF Folder, Quiet, TypeOK
  <2>3. cloud[Source[t]].at = "source"
    BY <1>1, <2>1, <2>2, TaskTypes DEF SmoothTask, Brought, Own
  <2> QED
    BY <1>2, <2>3 DEF Confirmed
<1>3. CASE step[t] = "materialize"
  <2>1. \E x \in Matches(t) : Matches(t) = {x}
    BY <1>1, <1>3 DEF SmoothTask, Listed
  <2> QED
    BY <1>1, <1>3, <2>1, MaterializeObserved DEF Confirmed
<1>4. CASE step[t] = "rename"
  <2>1. \E x \in Renamed(t) : x.name = Target[t]
    BY <1>1, <1>4 DEF SmoothTask
  <2> QED
    BY <1>4, <2>1, RenameObserved DEF Confirmed
<1> QED
  BY <1>1, <1>2, <1>3, <1>4 DEF Placed, Ended, TypeOK, Steps

LEMMA SmoothAnswer ==
    ASSUME General, Smooth, failures = 0, NEW t \in Tasks, Answer(t)
    PROVE  Smooth'
<1>1. Quiet /\ TypeOK /\ Batched /\ \A u \in Tasks : SmoothTask(u)
  BY SmoothIs DEF General
<1>2. /\ UNCHANGED <<cloud, ledger, owned, doubt, seen, floating, stop, history, failures>>
      /\ called = "listed" /\ t \in batch /\ pc[t] = "batched" /\ begun[t]
      /\ pc'[t] = "answered" /\ answer'[t] = "ok"
      /\ called' = IF batch = {t} THEN "no" ELSE called
      /\ \A u \in Tasks : u # t => pc'[u] = pc[u] /\ answer'[u] = answer[u]
  BY <1>1, SmoothConfirmed DEF Answer, Batched, General, EachTask, Placed, TypeOK
<1>3. SmoothTask(t)'
  <2>1. Untried(t)' <=> Untried(t)
    BY <1>2 DEF Untried, ledger
  <2>2. /\ OnlyOwn(t)' <=> OnlyOwn(t)
        /\ Brought(t)' <=> Brought(t)
        /\ Matches(t)' = Matches(t)
    BY <1>2 DEF ledger, OnlyOwn, Brought, Own, Matches, ContentOf
  <2>3. Listed(t) /\ SmoothTask(t)
    BY <1>1, <1>2 DEF Listed
  <2> QED
    BY <1>2, <2>1, <2>2, <2>3 DEF SmoothTask, ledger, history, Own
<1>4. ASSUME NEW u \in Tasks, u # t PROVE SmoothTask(u)'
  <2>1. called' = called \/ pc[u] # "batched"
    BY <1>1, <1>2, <1>4 DEF Batched
  <2> QED
    BY <1>1, <1>2, <1>4, <2>1, SmoothBystander DEF ledger, history
<1> QED
  BY <1>1, <1>2, <1>3, <1>4 DEF Smooth, Quiet, history

\* Without failures a request is carried out for everybody in it: what changes is the
\* file of somebody in the request, and it has one of its two names.
CarriedOut ==
    \A i \in Ids :
       \/ cloud'[i].at = cloud[i].at /\ cloud'[i].name = cloud[i].name
       \/ \E u \in batch : /\ i = Own(u) /\ cloud'[i].at = "target"
                           /\ cloud'[i].name \in {Name[Source[u]], Target[u]}

\* Nobody who is worked on sees what others do in the folder under a name of its own.
LEMMA NotMyName ==
    ASSUME General, NEW t \in Tasks, NEW u \in batch, u # t, pc[t] \notin {"out", "entered"}
    PROVE  Name[Source[t]] \notin {Name[Source[u]], Target[u]}
<1>1. t \in Holding /\ u \in Holding
  BY DEF Holding, General, Batched, TypeOK
<1>2. Keys(t) \intersect Keys(u) = {}
  BY <1>1 DEF General, Locked
<1>3. /\ <<"target", Name[Source[t]]>> \in Keys(t)
      /\ <<"target", Name[Source[u]]>> \in Keys(u) /\ <<"target", Target[u]>> \in Keys(u)
  BY DEF Keys
<1> QED
  BY <1>2, <1>3

\* Locks keep the requests of two tasks with a common path apart.
LEMMA SmoothApart ==
    ASSUME General, NEW t \in Tasks, t \notin batch, SmoothTask(t), CarriedOut,
           made'[t] = made[t], UNCHANGED <<ledger, handler>>
    PROVE  SmoothTask(t)'
<1>1. /\ step' = step /\ begun' = begun /\ baseline' = baseline /\ item' = item /\ pc' = pc
      /\ owned' = owned /\ doubt' = doubt /\ seen' = seen /\ answer' = answer
  BY DEF ledger, handler
<1>2. TypeOK /\ pc[t] # "batched" /\ batch \subseteq Tasks
  BY DEF General, Batched, TypeOK
<1>3. cloud'[Own(t)].at = cloud[Own(t)].at /\ cloud'[Own(t)].name = cloud[Own(t)].name
  BY <1>2, OwnIs DEF CarriedOut
<1>4. (Brought(t)' <=> Brought(t)) /\ (Untried(t)' <=> Untried(t)) /\ (Listed(t)' <=> Listed(t))
      /\ Matches(t)' = Matches(t) /\ Own(t)' = Own(t)
  BY <1>1, <1>2, <1>3 DEF Brought, Own, Untried, Listed, Matches, ContentOf
<1>5. Mode[t] = "copy" => cloud'[Source[t]].at = "source"
  <2> SUFFICES ASSUME Mode[t] = "copy", NEW u \in batch, Source[t] = Own(u) PROVE FALSE
    BY <1>2, TaskTypes DEF SmoothTask, CarriedOut
  <2>1. u \in Tasks /\ Mode[u] = "move" /\ Source[u] = Source[t]
    BY <1>2, TaskTypes, CopyTypes, OwnIs
  <2> QED
    BY <2>1, SourceAssumption
<1>6. ASSUME pc[t] \notin {"out", "entered"}, NEW i \in Ids,
             cloud'[i].at = "target", cloud'[i].name = Name[Source[t]]
      PROVE  cloud[i].at = "target" /\ cloud[i].name = Name[Source[t]]
  <2> SUFFICES ASSUME NEW u \in batch, cloud'[i].name \in {Name[Source[u]], Target[u]}
               PROVE  FALSE
    BY <1>6 DEF CarriedOut
  <2> QED
    BY <1>6, NotMyName
<1>7. step[t] = "materialize" /\ Mode[t] = "copy" => OnlyOwn(t)'
  BY <1>1, <1>4, <1>6 DEF SmoothTask, OnlyOwn
<1>8. ASSUME step[t] = "capture", Mode[t] = "copy", Listed(t)', NEW i \in Ids,
             cloud'[i].at = "target", cloud'[i].name = Name[Source[t]]
      PROVE  \E x \in seen[t] : x.id = i
  <2>1. cloud[i].at = "target" /\ cloud[i].name = Name[Source[t]]
    BY <1>4, <1>6, <1>8 DEF Listed
  <2> QED
    BY <1>4, <1>8, <2>1 DEF SmoothTask
<1> QED
  BY <1>1, <1>2, <1>3, <1>4, <1>5, <1>7, <1>8 DEF SmoothTask

BatchOp == Operation(CHOOSE t \in batch : TRUE)

\* A request that does not fail is carried out as it is.
LEMMA SmoothCallIs ==
    ASSUME General, Smooth, failures = 0, Call, failures' = 0
    PROVE  /\ late' = late /\ floating' = floating
           /\ (BatchOp = "capture" /\ cloud' = cloud /\ made' = made) \/ Carry(batch, BatchOp)
<1>1. PICK F \in SUBSET batch, U \in SUBSET batch :
          /\ Spend(Cardinality(F \union U))
          /\ late' = late \union F
          /\ floating' = floating \union {[task |-> t, op |-> BatchOp] : t \in F}
          /\ \/ BatchOp = "capture" /\ UNCHANGED <<cloud, made>>
             \/ Carry(batch \ (F \union U), BatchOp)
  BY Zenon DEF Call, BatchOp
<1>2. IsFiniteSet(F \union U)
  BY TaskAssumption, FS_Subset DEF General, TypeOK
<1>3. F \union U = {}
  <2>1. Cardinality(F \union U) = 0
    BY <1>1, <1>2, FS_CardinalityType DEF Spend
  <2> QED
    BY <1>2, <2>1, FS_EmptySet
<1> QED
  BY <1>1, <1>3

\* A request that is carried out in whole does for each of its tasks what it asked for.
LEMMA SmoothMoved ==
    ASSUME General, Smooth, failures = 0, batch # {}, called = "no", called' = "called",
           UNCHANGED <<ledger, handler>>, Carry(batch, BatchOp), NEW op, op = BatchOp
    PROVE  /\ CarriedOut
           /\ \A t \in batch :
                /\ made'[t] <= 1
                /\ cloud'[Own(t)].at = "target"
                /\ step[t] = "materialize" => cloud'[Own(t)].name = Name[Source[t]]
                /\ step[t] = "rename" => cloud'[Own(t)].name = Target[t]
           /\ \A t \in Tasks \ batch : made'[t] = made[t]
<1>1. /\ Quiet /\ TypeOK /\ Folder /\ \A t \in Tasks : SmoothTask(t)
      /\ batch \in SUBSET Tasks
  BY SmoothIs DEF General, TypeOK
<1>2. \A t \in batch :
         /\ t \in Tasks /\ pc[t] = "batched" /\ begun[t] /\ op = Operation(t)
         /\ op \in Ops \union {"capture"}
         /\ op = "capture" <=> step[t] = "capture"
         /\ op \in {"move", "copy"} <=> step[t] = "materialize"
         /\ op \in {"move", "copy"} => op = Mode[t]
         /\ op = "rename" <=> step[t] = "rename"
         /\ op = "rename" => item[t] # None
  BY BatchOperation DEF BatchOp
<1>3. Carry(batch, op) /\ op \in Ops
  BY DEF Carry, Ops
\* Nobody claims a file but its owner.
<1>4. \A t \in Tasks, u \in Tasks : Claims(u, Own(t)) => u = t
  BY <1>1, OwnIs DEF Claims, SmoothTask
<1>5. ASSUME NEW t \in Tasks, step[t] = "materialize"
      PROVE  cloud[Own(t)].name = Name[Source[t]]
  <2>1. item[t] = None
    BY <1>5 DEF General, EachTask, Placed
  <2>2. \A u \in Tasks : ~Claims(u, Own(t))
    BY <1>4, <2>1 DEF Claims
  <2> QED
    BY <1>1, <2>2, OwnIs DEF Folder, Bears
<1>6. ASSUME NEW t \in Tasks PROVE made[t] \in Nat /\ made[t] <= 1
  BY <1>1, BoundAssumption DEF SmoothTask, TypeOK
<1>7. CASE op = "move"
  <2>1. /\ made' = made
        /\ \A i \in Ids :
             /\ cloud'[i].name = cloud[i].name
             /\ IF cloud[i].at = "source" /\ \E t \in batch : Source[t] = i
                THEN cloud'[i].at = "target" ELSE cloud'[i].at = cloud[i].at
    BY <1>1, <1>3, <1>7, CarryMoves
  <2>2. \A t \in batch : /\ t \in Tasks /\ Mode[t] = "move" /\ step[t] = "materialize"
                         /\ Own(t) = Source[t] /\ Own(t) \in Files /\ Own(t) \in Ids
    BY <1>2, <1>7, OwnIs
  <2>3. ASSUME NEW t \in batch PROVE cloud'[Own(t)].at = "target"
    <3>1. ~Brought(t)
      BY <1>1, <1>2, <2>2 DEF SmoothTask, Untried
    <3>2. cloud[Own(t)].at = "source"
      BY <1>1, <2>2, <3>1 DEF Brought, Folder, Quiet, TypeOK
    <3> QED
      BY <2>1, <2>2, <3>2
  <2>4. CarriedOut
    BY <1>5, <2>1, <2>2 DEF CarriedOut
  <2> QED
    BY <1>5, <1>6, <2>1, <2>2, <2>3, <2>4
<1>8. CASE op = "copy"
  <2>1. /\ \A t \in Tasks : made'[t] = IF t \in Copied(batch) THEN made[t] + 1 ELSE made[t]
        /\ \A i \in Ids :
             /\ cloud'[i].name = cloud[i].name
             /\ IF \E t \in Copied(batch) : i = NextCopy(t)
                THEN cloud'[i].at = "target" ELSE cloud'[i].at = cloud[i].at
    BY <1>1, <1>3, <1>8, CarryCopies
  <2>2. ASSUME NEW t \in batch
        PROVE  /\ t \in Tasks /\ step[t] = "materialize" /\ Own(t) = NextCopy(t) /\ Own(t) \in Ids
               /\ t \in Copied(batch) /\ made[t] = 0
    <3>1. /\ t \in Tasks /\ Mode[t] = "copy" /\ step[t] = "materialize"
          /\ Own(t) = <<t, 1>> /\ Own(t) \in Copies /\ Own(t) \in Ids
      BY <1>2, <1>8, OwnIs
    <3>2. ~Brought(t)
      BY <1>1, <1>2, <3>1 DEF SmoothTask, Untried
    <3>3. ~(1 <= made[t])
      BY <1>1, <3>1, <3>2 DEF Folder, Quiet, Brought
    <3>4. made[t] = 0
      BY <1>6, <3>1, <3>3
    <3>5. cloud[Source[t]].at = "source"
      BY <1>1, <3>1 DEF SmoothTask
    <3> QED
      BY <3>1, <3>4, <3>5, BoundAssumption DEF Copied, NextCopy
  <2>3. \A t \in Copied(batch) : t \in batch
    BY DEF Copied
  <2>4. CarriedOut
    BY <1>5, <2>1, <2>2, <2>3 DEF CarriedOut
  <2> QED
    BY <1>2, <1>5, <1>8, <2>1, <2>2, <2>3, <2>4
<1>9. CASE op = "rename"
  <2>1. /\ made' = made
        /\ \A i \in Ids :
             /\ cloud'[i].at = cloud[i].at
             /\ cloud'[i].name = cloud[i].name
                \/ \E t \in batch : Claims(t, i) /\ cloud'[i].name = Target[t]
        /\ \A t \in batch : \E u \in batch : item[u].id = item[t].id /\ cloud'[item[t].id].name = Target[u]
    BY <1>1, <1>2, <1>3, <1>9, CarryRenames
  <2>2. \A t \in batch : t \in Tasks /\ step[t] = "rename" /\ item[t].id = Own(t) /\ Own(t) \in Ids
    BY <1>1, <1>2, <1>9, OwnIs DEF SmoothTask
  <2>3. ASSUME NEW t \in batch PROVE cloud'[Own(t)].at = "target" /\ cloud'[Own(t)].name = Target[t]
    <3>1. Brought(t)
      BY <1>1, <2>2 DEF SmoothTask, Untried
    <3>2. PICK u \in batch : item[u].id = item[t].id /\ cloud'[item[t].id].name = Target[u]
      BY <2>1
    <3>3. u = t
      BY <2>2, <3>2, OwnIs
    <3> QED
      BY <2>1, <2>2, <3>1, <3>2, <3>3 DEF Brought
  <2>4. CarriedOut
    <3>1. ASSUME NEW i \in Ids, cloud'[i].name # cloud[i].name
          PROVE  \E u \in batch : /\ i = Own(u) /\ cloud'[i].at = "target"
                                  /\ cloud'[i].name \in {Name[Source[u]], Target[u]}
      <4>1. PICK u \in batch : Claims(u, i) /\ cloud'[i].name = Target[u]
        BY <2>1, <3>1
      <4> QED
        BY <2>2, <2>3, <4>1 DEF Claims
    <3> QED
      BY <2>1, <3>1 DEF CarriedOut
  <2> QED
    BY <1>6, <2>1, <2>2, <2>3, <2>4
<1> QED
  BY <1>3, <1>7, <1>8, <1>9 DEF Ops

LEMMA SmoothCall ==
    ASSUME General, Smooth, failures = 0, Call, failures' = 0
    PROVE  Smooth'
<1>1. /\ Quiet /\ TypeOK /\ Batched /\ \A t \in Tasks : SmoothTask(t) /\ Copying(t) /\ Placed(t)
  BY SmoothIs DEF General, EachTask
<1>2. /\ batch # {} /\ called = "no" /\ called' = "called"
      /\ UNCHANGED <<ledger, handler, batch, stop, removed, blind>>
  BY DEF Call
<1>3. /\ late' = late /\ floating' = floating
      /\ (BatchOp = "capture" /\ cloud' = cloud /\ made' = made) \/ Carry(batch, BatchOp)
  BY SmoothCallIs
<1>4. CASE BatchOp = "capture" /\ cloud' = cloud /\ made' = made
  <2>1. ASSUME NEW t \in Tasks PROVE SmoothTask(t)'
    <3>1. CASE t \notin batch
      BY <1>1, <1>2, <1>4, <3>1, SmoothBystander DEF Batched, ledger, handler
    <3>2. CASE t \in batch
      <4>1. step[t] = "capture"
        BY <1>4, <3>2, BatchOperation DEF BatchOp
      <4>2. (Untried(t)' <=> Untried(t)) /\ (Brought(t)' <=> Brought(t)) /\ ~Listed(t)'
        BY <1>1, <1>2, <1>4, <3>2, <4>1 DEF Untried, Brought, Own, Listed, Batched, ledger, handler
      <4> QED
        BY <1>1, <1>2, <1>4, <4>1, <4>2 DEF SmoothTask, ledger, handler, Own
    <3> QED
      BY <3>1, <3>2
  <2> QED
    BY <1>1, <1>2, <1>3, <2>1 DEF Smooth, Quiet
<1>5. CASE Carry(batch, BatchOp)
  <2>1. /\ CarriedOut
        /\ \A t \in batch :
             /\ made'[t] <= 1
             /\ cloud'[Own(t)].at = "target"
             /\ step[t] = "materialize" => cloud'[Own(t)].name = Name[Source[t]]
             /\ step[t] = "rename" => cloud'[Own(t)].name = Target[t]
        /\ \A t \in Tasks \ batch : made'[t] = made[t]
    BY <1>2, <1>5, SmoothMoved
  <2>2. ASSUME NEW t \in Tasks PROVE SmoothTask(t)'
    <3>1. CASE t \notin batch
      BY <1>1, <1>2, <2>1, <3>1, SmoothApart
    <3>2. CASE t \in batch
      <4>0. pc[t] = "batched" /\ begun[t] /\ batch \subseteq Tasks /\ SmoothTask(t)
        BY <1>1, <3>2 DEF Batched, Placed, TypeOK
      <4>1. step[t] \in {"materialize", "rename"}
        <5>1. BatchOp # "capture"
          BY <1>5 DEF Carry
        <5> QED
          BY <1>1, <3>2, <4>0, <5>1, BatchOperation DEF BatchOp, Ops
      <4>2. ~Untried(t)' /\ Brought(t)' /\ ~Listed(t)' /\ Own(t)' = Own(t)
        BY <1>2, <2>1, <3>2, <4>0, <4>1 DEF Untried, Brought, Own, Listed, ledger, handler
      <4>3. Mode[t] = "copy" => cloud'[Source[t]].at = "source"
        <5> SUFFICES ASSUME Mode[t] = "copy", NEW u \in batch, Source[t] = Own(u) PROVE FALSE
          BY <2>1, <4>0, TaskTypes DEF SmoothTask, CarriedOut
        <5>1. u \in Tasks /\ Mode[u] = "move" /\ Source[u] = Source[t]
          BY <4>0, TaskTypes, CopyTypes, OwnIs
        <5> QED
          BY <5>1, SourceAssumption
      <4>4. ASSUME step[t] = "materialize", Mode[t] = "copy" PROVE OnlyOwn(t)'
        <5> SUFFICES ASSUME NEW i \in Ids, cloud'[i].at = "target",
                            cloud'[i].name = Name[Source[t]], i \notin baseline[t]
                     PROVE  i = Own(t)
          BY <1>2, <4>2 DEF OnlyOwn, ledger
        <5>1. CASE cloud'[i].at = cloud[i].at /\ cloud'[i].name = cloud[i].name
          BY <4>0, <4>4, <5>1 DEF SmoothTask, OnlyOwn
        <5>2. CASE \E u \in batch : /\ i = Own(u) /\ cloud'[i].at = "target"
                                    /\ cloud'[i].name \in {Name[Source[u]], Target[u]}
          BY <4>0, <5>2, NotMyName
        <5> QED
          BY <2>1, <5>1, <5>2 DEF CarriedOut
      <4> QED
        BY <1>2, <2>1, <3>2, <4>0, <4>1, <4>2, <4>3, <4>4 DEF SmoothTask, ledger, handler
    <3> QED
      BY <3>1, <3>2
  <2> QED
    BY <1>1, <1>2, <1>3, <2>2 DEF Smooth, Quiet
<1> QED
  BY <1>3, <1>4, <1>5
------------------------------------------------------------------------------
(* The invariant, and what follows from it.                                *)

\* Both parts together.
LEMMA InitInv == Init => IInv
<1> SUFFICES ASSUME Init PROVE IInv
  OBVIOUS
<1>1. General
  BY InitGeneral
<1>2. late = {} /\ removed = {} /\ floating = {} /\ blind = {}
  BY DEF Init
<1>3. ASSUME NEW t \in Tasks PROVE SmoothTask(t)
  <2>1. /\ step[t] = "capture" /\ ~begun[t] /\ item[t] = None /\ pc[t] = "out" /\ ~owned[t]
        /\ ~doubt[t] /\ answer[t] = "none" /\ made[t] = 0
    BY DEF Init
  <2>2. \A i \in Ids : cloud[i].at = IF i \in Files THEN "source" ELSE "nowhere"
    BY DEF Init
  <2>3. Untried(t) /\ ~Brought(t) /\ cloud[Source[t]].at = "source"
    BY <2>1, <2>2, OwnIs, TaskTypes DEF Untried, Brought
  <2> QED
    BY <2>1, <2>3 DEF SmoothTask, Listed
<1> QED
  BY <1>1, <1>2, <1>3 DEF IInv, Smooth

LEMMA NextSmooth ==
    ASSUME General, Smooth, [Next]_vars
    PROVE  Smooth'
<1> SUFFICES ASSUME failures' = 0 PROVE Smooth'
  BY DEF Smooth
<1>1. failures \in Nat
  BY BoundAssumption DEF General, TypeOK
<1>2. CASE UNCHANGED vars
  BY <1>2, SmoothStop DEF vars
<1>3. ASSUME NEW t \in Tasks, Begin(t) \/ Handle(t) \/ LeaseLost(t) \/ ObservationFails(t)
      PROVE  Smooth'
  <2>1. failures = 0 /\ ~LeaseLost(t)
    BY <1>1, <1>3 DEF Begin, Handle, LeaseLost, ObservationFails, Lock, Start, KeepName, Recover,
                      Conclude, Record, Disown, Spend
  <2> QED
    BY <1>3, <2>1, SmoothBegin, SmoothExcludes, SmoothRecord DEF Handle
<1>4. CASE Batch
  <2>1. CASE Call
    <3>1. failures = 0
      <4>1. PICK F \in SUBSET batch, U \in SUBSET batch : Spend(Cardinality(F \union U))
        BY <2>1, Zenon DEF Call
      <4>2. Cardinality(F \union U) \in Nat
        BY TaskAssumption, FS_Subset, FS_CardinalityType DEF General, TypeOK
      <4> QED
        BY <1>1, <4>1, <4>2 DEF Spend
    <3> QED
      BY <2>1, <3>1, SmoothCall
  <2>2. CASE List
    BY <2>2, SmoothList DEF List
  <2>3. ASSUME NEW T \in SUBSET Tasks, Execute(T) PROVE Smooth'
    BY <2>3, SmoothExecute DEF Execute
  <2>4. ASSUME NEW t \in Tasks, Answer(t) PROVE Smooth'
    BY <2>4, SmoothAnswer DEF Answer
  <2> QED
    BY <1>4, <2>1, <2>2, <2>3, <2>4 DEF Batch
<1>5. CASE BatchFails \/ Crash \/ GiveUp \/ \E i \in Ids : Remove(i)
  BY <1>1, <1>5 DEF BatchFails, Crash, GiveUp, Remove, Spend
<1>6. ASSUME NEW f \in floating, Land(f) PROVE Smooth'
  BY <1>6, SmoothIs DEF Land, Quiet
<1>7. CASE Reload \/ Shutdown \/ CloseCoordinator \/ ReportStopped
  BY <1>7, SmoothStop DEF Reload, Shutdown, CloseCoordinator, ReportStopped
<1> QED
  BY <1>2, <1>3, <1>4, <1>5, <1>6, <1>7 DEF Next

LEMMA NextInv == IInv /\ [Next]_vars => IInv'
BY NextGeneral, NextSmooth DEF IInv

\* In every reachable state, however many tasks and whatever goes wrong, the ledger
\* claims nothing the folder does not bear out, and locks, batches and listings agree with it.
THEOREM Invariance == Spec => []IInv
BY InitInv, NextInv, PTL DEF Spec

\* Nobody is asked to decide without a reason, nobody outlives the coordinator, and
\* whoever has reported its end asks nothing more of the cloud.
THEOREM IsOrderly == Spec => []Orderly
<1>1. IInv => Orderly
  <2> SUFFICES ASSUME IInv PROVE Orderly
    OBVIOUS
  <2>1. General /\ Smooth /\ TypeOK /\ Stopping
    BY DEF IInv, General
  <2>2. ShutdownIsBarrier
    BY <2>1 DEF Stopping, ShutdownIsBarrier
  <2>3. ASSUME NEW t \in Tasks, step[t] = "review"
        PROVE  failures > 0 /\ (t \in blind \union late \/ removed # {} \/ HasTwin(t))
    <3>1. t \in blind \union late \/ removed # {} \/ HasTwin(t)
      BY <2>1, <2>3 DEF General, EachTask, Reviewed
    <3>2. failures # 0
      BY <2>1, <2>3 DEF Smooth, SmoothTask
    <3> QED
      BY <2>1, <3>1, <3>2, BoundAssumption DEF TypeOK
  <2>4. ReviewIsJustified
    BY <2>3 DEF ReviewIsJustified
  <2> QED
    BY <2>1, <2>2, <2>4 DEF Orderly
<1> QED
  BY <1>1, Invariance, PTL

\* What a task that is done has found or made is the content of its source under its
\* target name, unless it was removed or another task claims it.
THEOREM DoneMeansInPlace == Spec => []DoneIsInPlace
<1>1. IInv => DoneIsInPlace
  <2> SUFFICES ASSUME IInv, NEW t \in Tasks, step[t] = "done"
               PROVE  LET i == item[t].id IN
                      /\ ContentOf(i) = Content[Source[t]]
                      /\ \/ cloud[i] = [at |-> "target", name |-> Target[t]]
                         \/ i \in removed
                         \/ \E u \in Tasks \ {t} : Claims(u, i)
    BY DEF DoneIsInPlace
  <2> DEFINE i == item[t].id
  <2>1. TypeOK /\ Claimed(t) /\ item[t] # None
    BY DEF IInv, General, EachTask, Placed
  <2>2. i \in Ids /\ cloud[i] \in [at : {"source", "target", "nowhere"}, name : Names]
    BY <2>1 DEF TypeOK, Items
  <2>3. ContentOf(i) = Content[Source[t]] /\ (i \in removed \/ cloud[i].at = "target")
    BY <2>1 DEF Claimed
  <2>4. Sole(t) => cloud[i].name = Target[t]
    BY <2>1 DEF Claimed, Settled
  <2> QED
    BY <2>2, <2>3, <2>4 DEF Sole
<1> QED
  BY <1>1, Invariance, PTL

\* A copy that was made is not made again, unless it came late, was removed, or was
\* claimed by another task.
THEOREM CopiesOnce == Spec => []OneCopy
<1>1. IInv => OneCopy
  <2> SUFFICES ASSUME IInv, NEW t \in Tasks, made[t] > 1 PROVE Excused(t)
    BY DEF OneCopy, Excused
  <2>1. Copying(t) /\ made[t] \in Nat
    BY BoundAssumption DEF IInv, General, EachTask, TypeOK
  <2> QED
    BY <2>1 DEF Copying
<1> QED
  BY <1>1, Invariance, PTL
=============================================================================
