------------------------------ MODULE RecordsProofs ------------------------------
(* What the files, the memory and the tools of one user promise, whatever      *)
(* overlaps or dies, for any issues, processes, memories, curators and callers: *)
(* the files of the home directory agree, what a recall applied is what its    *)
(* records say, what the user said about the memory holds and a tool call      *)
(* leaves behind what it says.                                                *)
EXTENDS Finality, MemoryHints, ToolRuntime, PackagesProofs, FoldLemmas, NaturalsInduction

-----------------------------------------------------------------------------
(* The files, the recall and the tools.                                       *)

\* A set of naturals has a least element.
LEMMA LeastOfNats ==
  ASSUME NEW S \in SUBSET Nat, S # {}
  PROVE  LET least == CHOOSE i \in S : \A j \in S : i <= j IN
         least \in S /\ \A j \in S : least <= j
<1> DEFINE R == OpToRel(<, Nat)
<1>1. IsWellFoundedOn(R, Nat)
  BY NatLessThanWellFounded
<1>2. \A x, y \in Nat : y < x => <<y, x>> \in R
  BY DEF OpToRel
<1> HIDE DEF R
<1>3. PICK x \in S : \A y \in S : ~(<<y, x>> \in R)
  BY <1>1, WFMin
<1>4. ASSUME NEW y \in S PROVE x <= y
  <2>1. x \in Nat /\ y \in Nat
    OBVIOUS
  <2>2. ~(y < x)
    BY <1>2, <1>3, <2>1
  <2> QED
    BY <2>1, <2>2
<1> QED
  BY <1>4
-----------------------------------------------------------------------------
(* The commands.                                                             *)

ItemStatuses == {"absent", "failed", "ready", "archived", "done"}
ItemMaps == [RankedIssues -> ItemStatuses]
FileTexts == [is : {"none", "empty", "torn", "whole"}, items : ItemMaps]
Saving == {"load", "truncate", "fill", "rename"}
Telling == {"event", "newline"}
Stages == {"workspace", "files", "snapshot"}
HandStates ==
  [at : {"idle", "pick", "prepare"} \cup Saving \cup Telling \cup Stages,
   cmd : {"none", "prepare", "daily", "archive", "finish", "feedback"},
   issue : {0} \cup RankedIssues, run : Nat, todo : SUBSET RankedIssues, left : Nat,
   next : {"none", "shown", "prepared", "ready", "failed", "archived", "done", "dismissed", "restored"},
   again : BOOLEAN, mine : ItemMaps, fd : {"none", "index", "tmp", "gone"}]
\* What a command that is somewhere has to say.
CommandOk(r) ==
  /\ r.at \notin {"idle", "pick"} => r.issue # 0
  /\ r.cmd = "none" <=> r.at = "idle"
  /\ r.at = "pick" => r.cmd = "daily"
  /\ r.at \in {"workspace", "files"} => r.run # 0
  /\ r.cmd = "archive" =>
       \/ r.at \in Saving /\ r.next = "archived"
       \/ r.at \in Telling /\ r.next = "dismissed"
  /\ r.cmd = "finish" => r.at \in Saving \cup Telling /\ r.next = "done"
  /\ r.cmd = "feedback" => r.at \in Telling /\ r.next \in {"dismissed", "restored"}
  /\ r.cmd \in {"prepare", "daily"} =>
       /\ r.next \in {"none", "shown", "prepared", "ready", "failed"}
       /\ r.at \in Saving => r.next \in {"failed", "ready"}
       /\ r.at \in Telling => r.next \in {"shown", "prepared"}
Handoffs == [times : Nat, files : Nat, events : Nat, snapshot : [files : Nat, events : Nat]]
HomeTyped ==
  /\ index \in FileTexts /\ tmp \in FileTexts /\ log \in {"whole", "open", "glued"}
  /\ cached = NoCache \/ cached \in SUBSET RankedIssues
  /\ handoff \in [RankedIssues -> Handoffs]
  /\ feedback \in [RankedIssues -> {"none", "done", "dismissed", "restored"}]
  /\ begun \in Nat /\ commands \in Nat
  /\ overlappedHome \in BOOLEAN /\ crashed \in BOOLEAN /\ stale \in BOOLEAN
  /\ hand \in [Hands -> HandStates]
  /\ \A h \in Hands : CommandOk(hand[h])

LEMMA NothingIsTyped ==
  /\ NoItems \in ItemMaps /\ NoCommand \in HandStates /\ CommandOk(NoCommand)
  /\ \A is \in {"none", "empty", "torn"} : File(is) \in FileTexts
  /\ \A items \in ItemMaps : Whole(items) \in FileTexts
<1>1. NoItems \in ItemMaps
  BY DEF NoItems, ItemMaps, ItemStatuses
<1>2. NoCommand \in HandStates
  BY <1>1 DEF NoCommand, HandStates
<1>3. CommandOk(NoCommand)
  BY DEF NoCommand, CommandOk, Saving, Telling
<1> QED
  BY <1>1, <1>2, <1>3 DEF File, Whole, FileTexts

LEMMA HomeTypeInit == HomeInit => HomeTyped
<1> SUFFICES ASSUME HomeInit PROVE HomeTyped
  OBVIOUS
<1> USE DEF HomeInit
<1>1. index \in FileTexts /\ tmp \in FileTexts
  BY NothingIsTyped
<1>2. NoHandoff \in Handoffs
  BY DEF NoHandoff, Handoffs
<1>3. handoff \in [RankedIssues -> Handoffs]
  BY <1>2
<1>4. hand \in [Hands -> HandStates] /\ \A h \in Hands : CommandOk(hand[h])
  BY NothingIsTyped
<1> QED
  BY <1>1, <1>3, <1>4 DEF HomeTyped

\* A command that ends says nothing more; a daily run goes on with its list.
LEMMA AfterIsOk ==
  ASSUME HomeTyped, NEW h \in Hands
  PROVE  /\ After(h) \in HandStates /\ CommandOk(After(h))
         /\ After(h).at \in {"idle", "pick"} /\ After(h).next = "none" /\ After(h).mine = NoItems
         /\ After(h).issue = 0 /\ After(h).cmd \in {"none", "daily"}
         /\ After(h).cmd = "daily" => hand[h].cmd = "daily" /\ After(h).todo = hand[h].todo
<1>1. hand[h] \in HandStates
  BY DEF HomeTyped
<1>2. CASE hand[h].cmd = "daily"
  <2> DEFINE y == [NoCommand EXCEPT !.at = "pick", !.cmd = "daily", !.todo = hand[h].todo, !.left = hand[h].left]
  <2>1. After(h) = y
    BY <1>2 DEF After
  <2>2. /\ y.at = "pick" /\ y.next = "none" /\ y.mine = NoItems /\ y.issue = 0 /\ y.cmd = "daily"
        /\ y.todo = hand[h].todo
    BY DEF NoCommand
  <2>3. y \in HandStates
    BY <1>1, NothingIsTyped DEF HandStates, NoCommand
  <2>4. CommandOk(y)
    BY <2>2 DEF CommandOk, Saving, Telling
  <2> QED
    BY <1>2, <2>1, <2>2, <2>3, <2>4
<1>3. CASE hand[h].cmd # "daily"
  <2>1. After(h) = NoCommand
    BY <1>3 DEF After
  <2> QED
    BY <2>1, NothingIsTyped DEF NoCommand
<1> QED
  BY <1>2, <1>3

\* The state a preparation that fails goes on to.
Failing(h) == [hand[h] EXCEPT !.at = "load", !.next = "failed", !.again = TRUE]
LEMMA FailedIsOk ==
  ASSUME HomeTyped, NEW h \in Hands, hand[h].at \notin {"idle", "pick"}
  PROVE  /\ Failed(h) = After(h) \/ (Failed(h) = Failing(h) /\ hand[h].cmd = "daily")
         /\ Failed(h) \in HandStates /\ CommandOk(Failed(h))
<1>1. hand[h] \in HandStates /\ CommandOk(hand[h])
  BY DEF HomeTyped
<1>2. CASE Failed(h) = After(h)
  BY <1>2, AfterIsOk
<1>3. CASE Failed(h) = Failing(h) /\ hand[h].cmd = "daily"
  <2> DEFINE y == Failing(h)
  <2>1. /\ y \in HandStates /\ y.at = "load" /\ y.next = "failed" /\ y.cmd = "daily"
        /\ y.issue = hand[h].issue
    BY <1>1, <1>3 DEF HandStates, Failing, Saving
  <2> HIDE DEF y
  <2>2. hand[h].issue # 0
    BY <1>1 DEF CommandOk
  <2>3. CommandOk(y)
    BY <2>1, <2>2 DEF CommandOk, Saving, Telling, NoCommand
  <2> QED
    BY <1>3, <2>1, <2>3 DEF y
<1> QED
  BY <1>2, <1>3 DEF Failed, Failing

\* One command moves on; what is stored keeps its type.
LEMMA HandMoves ==
  ASSUME HomeTyped, NEW h \in Hands, NEW y \in HandStates, CommandOk(y), hand' = [hand EXCEPT ![h] = y]
  PROVE  hand' \in [Hands -> HandStates] /\ \A g \in Hands : CommandOk(hand'[g])
  BY DEF HomeTyped
LEMMA StoredStays ==
  ASSUME HomeTyped, UNCHANGED homeFiles, UNCHANGED <<commands, overlappedHome, crashed, stale>>,
         hand' \in [Hands -> HandStates] /\ \A g \in Hands : CommandOk(hand'[g])
  PROVE  HomeTyped'
  BY DEF HomeTyped, homeFiles

LEMMA LoadIsTyped == ASSUME HomeTyped, NEW h \in Hands, Load(h) PROVE HomeTyped'
<1>1. hand[h] \in HandStates /\ CommandOk(hand[h]) /\ hand[h].at = "load"
  BY DEF HomeTyped, Load
<1>2. CASE hand' = [hand EXCEPT ![h] = Failed(h)]
  BY <1>1, <1>2, FailedIsOk, HandMoves, StoredStays DEF Load, History
<1> DEFINE items == [index.items EXCEPT ![hand[h].issue] = hand[h].next]
           y == [hand[h] EXCEPT !.at = "truncate", !.mine = items]
<1>3. CASE hand' = [hand EXCEPT ![h] = y]
  <2>1. hand[h].next \in ItemStatuses
    BY <1>1 DEF CommandOk, HandStates, Saving, Telling, ItemStatuses
  <2>2. items \in ItemMaps
    BY <2>1 DEF HomeTyped, FileTexts, ItemMaps
  <2> HIDE DEF items
  <2>3. /\ y \in HandStates /\ y.at = "truncate" /\ y.cmd = hand[h].cmd /\ y.issue = hand[h].issue
        /\ y.next = hand[h].next
    BY <1>1, <2>2 DEF HandStates, Saving
  <2> HIDE DEF y
  <2>4. CommandOk(y)
    BY <1>1, <2>3 DEF CommandOk, Saving, Telling, NoCommand
  <2> QED
    BY <1>3, <2>3, <2>4, HandMoves, StoredStays DEF Load, History
<1> QED
  BY <1>2, <1>3 DEF Load, Step

LEMMA TruncateIsTyped == ASSUME HomeTyped, NEW h \in Hands, Truncate(h) PROVE HomeTyped'
<1>1. hand[h] \in HandStates /\ CommandOk(hand[h]) /\ hand[h].at = "truncate"
  BY DEF HomeTyped, Truncate
<1> DEFINE y == [hand[h] EXCEPT !.at = "fill", !.fd = "tmp"]
<1>2. hand' = [hand EXCEPT ![h] = y]
  BY DEF Truncate, Step
<1>3. y \in HandStates /\ y.at = "fill" /\ y.cmd = hand[h].cmd /\ y.issue = hand[h].issue /\ y.next = hand[h].next
  BY <1>1 DEF HandStates, Saving
<1> HIDE DEF y
<1>4. CommandOk(y)
  BY <1>1, <1>3 DEF CommandOk, Saving, Telling, NoCommand
<1>5. tmp' \in FileTexts
  BY NothingIsTyped DEF Truncate
<1> QED
  BY <1>2, <1>3, <1>4, <1>5, HandMoves DEF HomeTyped, Truncate, History

LEMMA FillIsTyped == ASSUME HomeTyped, NEW h \in Hands, Fill(h) PROVE HomeTyped'
<1>1. hand[h] \in HandStates /\ CommandOk(hand[h]) /\ hand[h].at = "fill"
  BY DEF HomeTyped, Fill
<1> DEFINE y == [hand[h] EXCEPT !.at = "rename"]
<1>2. hand' = [hand EXCEPT ![h] = y]
  BY DEF Fill, Step
<1>3. y \in HandStates /\ y.at = "rename" /\ y.cmd = hand[h].cmd /\ y.issue = hand[h].issue /\ y.next = hand[h].next
  BY <1>1 DEF HandStates, Saving
<1> HIDE DEF y
<1>4. CommandOk(y)
  BY <1>1, <1>3 DEF CommandOk, Saving, Telling, NoCommand
<1>5. hand[h].mine \in ItemMaps
  BY <1>1 DEF HandStates
<1>6. \A old \in FileTexts : Written(h, old) \subseteq FileTexts
  BY <1>5, NothingIsTyped DEF Written
<1>7. tmp' \in FileTexts /\ index' \in FileTexts
  BY <1>6 DEF Fill, HomeTyped
<1> QED
  BY <1>2, <1>3, <1>4, <1>7, HandMoves DEF HomeTyped, Fill, History

\* What a command goes on with that saved the index.
LEMMA SavedIsOk ==
  ASSUME HomeTyped, NEW h \in Hands, hand[h].at = "rename"
  PROVE  /\ Saved(h) \in HandStates /\ CommandOk(Saved(h)) /\ Saved(h).mine = NoItems
         /\ \/ Saved(h) = After(h)
            \/ /\ hand[h].cmd \in {"archive", "finish"} /\ Saved(h).cmd = hand[h].cmd
               /\ Saved(h).at = "event" /\ Saved(h).issue = hand[h].issue /\ hand[h].issue # 0
               /\ Saved(h).next = IF hand[h].cmd = "archive" THEN "dismissed" ELSE "done"
<1>1. hand[h] \in HandStates /\ CommandOk(hand[h]) /\ hand[h].issue # 0
  BY DEF HomeTyped, CommandOk
<1>2. CASE hand[h].cmd \notin {"archive", "finish"}
  BY <1>2, AfterIsOk DEF Saved
<1> DEFINE next == IF hand[h].cmd = "archive" THEN "dismissed" ELSE "done"
<1>3. CASE hand[h].cmd \in {"archive", "finish"}
  <2> DEFINE y == [hand[h] EXCEPT !.at = "event", !.next = next, !.mine = NoItems, !.fd = "none"]
  <2>1. Saved(h) = y
    BY <1>3 DEF Saved
  <2>2. next \in {"dismissed", "done"}
    OBVIOUS
  <2> HIDE DEF next
  <2>3. /\ y \in HandStates /\ y.at = "event" /\ y.cmd = hand[h].cmd /\ y.issue = hand[h].issue
        /\ y.next = next /\ y.mine = NoItems
    BY <1>1, <2>2, NothingIsTyped DEF HandStates, Telling
  <2> HIDE DEF y
  <2>4. CommandOk(y)
    BY <1>1, <1>3, <2>3, SMTT(60) DEF CommandOk, Saving, Telling, NoCommand, next
  <2> QED
    BY <1>1, <1>3, <2>1, <2>3, <2>4 DEF next
<1> QED
  BY <1>2, <1>3

\* Another command whose descriptor moves with the file.
LEMMA ShiftIsOk ==
  ASSUME HomeTyped, NEW g \in Hands
  PROVE  LET y == [hand[g] EXCEPT !.fd = Shift(@)] IN
         /\ y \in HandStates /\ CommandOk(y)
         /\ y.at = hand[g].at /\ y.cmd = hand[g].cmd /\ y.issue = hand[g].issue /\ y.run = hand[g].run
         /\ y.next = hand[g].next /\ y.mine = hand[g].mine /\ y.todo = hand[g].todo
<1> DEFINE y == [hand[g] EXCEPT !.fd = Shift(@)]
<1>1. hand[g] \in HandStates /\ CommandOk(hand[g])
  BY DEF HomeTyped
<1>2. Shift(hand[g].fd) \in {"none", "index", "tmp", "gone"}
  BY <1>1 DEF HandStates, Shift
<1>3. y = [hand[g] EXCEPT !.fd = Shift(hand[g].fd)]
  OBVIOUS
<1>4. /\ y \in HandStates
      /\ y.at = hand[g].at /\ y.cmd = hand[g].cmd /\ y.issue = hand[g].issue /\ y.run = hand[g].run
      /\ y.next = hand[g].next /\ y.mine = hand[g].mine /\ y.todo = hand[g].todo
  BY <1>1, <1>2, <1>3 DEF HandStates
<1>6. CommandOk(y)
  BY <1>1, <1>4 DEF CommandOk
<1> QED
  BY <1>4, <1>6

LEMMA RenameIsTyped == ASSUME HomeTyped, NEW h \in Hands, Rename(h) PROVE HomeTyped'
<1>1. hand[h] \in HandStates /\ CommandOk(hand[h]) /\ hand[h].at = "rename"
  BY DEF HomeTyped, Rename
<1>2. CASE tmp.is = "none"
  <2>1. hand' = [hand EXCEPT ![h] = Failed(h)] /\ UNCHANGED homeFiles /\ History
    BY <1>2 DEF Rename, Step, homeFiles
  <2> QED
    BY <1>1, <2>1, FailedIsOk, HandMoves, StoredStays DEF History
<1>3. CASE tmp.is # "none"
  <2>1. index' = tmp /\ tmp' = File("none")
        /\ hand' = [g \in Hands |-> IF g = h THEN Saved(h) ELSE [hand[g] EXCEPT !.fd = Shift(@)]]
    BY <1>3 DEF Rename
  <2>2. hand' \in [Hands -> HandStates] /\ \A g \in Hands : CommandOk(hand'[g])
    BY <1>1, <2>1, SavedIsOk, ShiftIsOk
  <2> QED
    BY <2>1, <2>2, NothingIsTyped DEF HomeTyped, Rename, History
<1> QED
  BY <1>2, <1>3

LEMMA TellingIsTyped ==
  ASSUME HomeTyped, NEW h \in Hands, WriteLine(h) \/ EndLine(h)
  PROVE  HomeTyped'
<1>1. hand[h] \in HandStates /\ CommandOk(hand[h]) /\ hand[h].at \in Telling
  BY DEF HomeTyped, WriteLine, EndLine, Telling
<1>2. CASE WriteLine(h)
  <2> DEFINE y == [hand[h] EXCEPT !.at = "newline"]
  <2>1. hand' = [hand EXCEPT ![h] = y]
    BY <1>2 DEF WriteLine, Step
  <2>2. y \in HandStates /\ y.at = "newline" /\ y.cmd = hand[h].cmd /\ y.issue = hand[h].issue
        /\ y.next = hand[h].next
    BY <1>1 DEF HandStates, Telling
  <2> HIDE DEF y
  <2>3. CommandOk(y)
    BY <1>1, <2>2 DEF CommandOk, Saving, Telling, NoCommand
  <2>4. feedback' \in [RankedIssues -> {"none", "done", "dismissed", "restored"}] /\ log' \in {"open", "glued"}
    BY <1>2 DEF WriteLine, HomeTyped
  <2> QED
    BY <1>2, <2>1, <2>2, <2>3, <2>4, HandMoves DEF HomeTyped, WriteLine, History
<1>3. CASE EndLine(h)
  <2>1. log' \in {"whole", "open", "glued"}
    BY <1>3 DEF EndLine, HomeTyped
  <2>2. hand' \in [Hands -> HandStates] /\ \A g \in Hands : CommandOk(hand'[g])
    <3>1. CASE hand[h].next = "shown"
      <4> DEFINE y == [hand[h] EXCEPT !.at = "prepare"]
      <4>1. hand' = [hand EXCEPT ![h] = y]
        BY <1>3, <3>1 DEF EndLine, Step
      <4>2. y \in HandStates /\ y.at = "prepare" /\ y.cmd = hand[h].cmd /\ y.issue = hand[h].issue
            /\ y.next = hand[h].next
        BY <1>1 DEF HandStates
      <4> HIDE DEF y
      <4>3. CommandOk(y)
        BY <1>1, <3>1, <4>2 DEF CommandOk, Saving, Telling, NoCommand
      <4> QED
        BY <4>1, <4>2, <4>3, HandMoves
    <3>2. CASE hand[h].next = "prepared"
      <4> DEFINE y == [hand[h] EXCEPT !.at = "load", !.next = "ready"]
      <4>1. hand' = [hand EXCEPT ![h] = y]
        BY <1>3, <3>2 DEF EndLine, Step
      <4>2. y \in HandStates /\ y.at = "load" /\ y.cmd = hand[h].cmd /\ y.issue = hand[h].issue
            /\ y.next = "ready"
        BY <1>1 DEF HandStates, Saving
      <4> HIDE DEF y
      <4>3. CommandOk(y)
        BY <1>1, <3>2, <4>2 DEF CommandOk, Saving, Telling, NoCommand
      <4> QED
        BY <4>1, <4>2, <4>3, HandMoves
    <3>3. CASE hand[h].next \notin {"shown", "prepared"}
      <4>1. hand' = [hand EXCEPT ![h] = After(h)]
        BY <1>3, <3>3 DEF EndLine, Step
      <4> QED
        BY <4>1, AfterIsOk, HandMoves
    <3> QED
      BY <3>1, <3>2, <3>3
  <2> QED
    BY <1>3, <2>1, <2>2 DEF HomeTyped, EndLine, History
<1> QED
  BY <1>2, <1>3

LEMMA PreparingIsTyped ==
  ASSUME HomeTyped, NEW h \in Hands,
         BeginPrepare(h) \/ PrepareWorkspace(h) \/ WriteHandoffFiles(h) \/ WriteSnapshotFile(h)
  PROVE  HomeTyped'
<1> DEFINE i == hand[h].issue
<1>1. hand[h] \in HandStates /\ CommandOk(hand[h]) /\ hand[h].at \in {"prepare"} \cup Stages
  BY DEF HomeTyped, BeginPrepare, PrepareWorkspace, WriteHandoffFiles, WriteSnapshotFile, Stages
<1>2. hand[h].cmd \in {"prepare", "daily"} /\ i \in RankedIssues /\ i # 0 /\ begun \in Nat
  BY <1>1 DEF CommandOk, HandStates, Saving, Telling, Stages, HomeTyped
<1>3. handoff[i] \in Handoffs
  BY <1>2 DEF HomeTyped
<1>4. CASE BeginPrepare(h)
  <2> DEFINE run == begun + 1
             times == handoff[i].times + 1
             y == [hand[h] EXCEPT !.at = "workspace", !.run = run]
             d == [handoff[i] EXCEPT !.times = times, !.events = run]
  <2>1. hand' = [hand EXCEPT ![h] = y] /\ begun' = run
    BY <1>4 DEF BeginPrepare, Step
  <2>a. run \in Nat /\ run # 0 /\ times \in Nat
    BY <1>2, <1>3 DEF Handoffs
  <2>2. y \in HandStates /\ y.at = "workspace" /\ y.cmd = hand[h].cmd /\ y.issue = i
        /\ y.next = hand[h].next /\ y.run = run
    <3> HIDE DEF run
    <3> QED
      BY <1>1, <1>2, <2>a DEF HandStates, Stages
  <2>3. handoff' = [handoff EXCEPT ![i] = d]
    BY <1>2, <1>3, <1>4 DEF BeginPrepare, Handoffs, HomeTyped
  <2> HIDE DEF run, times
  <2>4. d \in Handoffs
    BY <1>3, <2>a DEF Handoffs
  <2> HIDE DEF y, d
  <2>5. CommandOk(y)
    BY <1>1, <1>2, <2>2, <2>a DEF CommandOk, Saving, Telling, NoCommand
  <2>6. handoff' \in [RankedIssues -> Handoffs] /\ begun' \in Nat
    BY <1>2, <2>1, <2>3, <2>4, <2>a DEF HomeTyped
  <2> QED
    BY <1>4, <2>1, <2>2, <2>5, <2>6, HandMoves DEF HomeTyped, BeginPrepare, History
<1>5. CASE PrepareWorkspace(h)
  <2>1. \/ hand' = [hand EXCEPT ![h] = [hand[h] EXCEPT !.at = "load", !.next = "failed"]]
        \/ hand' = [hand EXCEPT ![h] = After(h)]
        \/ hand' = [hand EXCEPT ![h] = [hand[h] EXCEPT !.at = "files"]]
    BY <1>5 DEF PrepareWorkspace, WorkspaceOutcomes, Step
  <2>2. hand[h].at = "workspace"
    BY <1>5 DEF PrepareWorkspace
  <2> DEFINE y == [hand[h] EXCEPT !.at = "load", !.next = "failed"]
             z == [hand[h] EXCEPT !.at = "files"]
  <2>3. y \in HandStates /\ y.at = "load" /\ y.cmd = hand[h].cmd /\ y.issue = i /\ y.next = "failed"
    BY <1>1, <1>2 DEF HandStates, Saving
  <2>4. /\ z \in HandStates /\ z.at = "files" /\ z.cmd = hand[h].cmd /\ z.issue = i /\ z.next = hand[h].next
        /\ z.run = hand[h].run
    BY <1>1, <1>2 DEF HandStates, Stages
  <2> HIDE DEF y, z
  <2>5. CommandOk(y)
    BY <1>1, <1>2, <2>3 DEF CommandOk, Saving, Telling, NoCommand
  <2>6. CommandOk(z)
    BY <1>1, <1>2, <2>2, <2>4 DEF CommandOk, Saving, Telling, NoCommand
  <2>7. hand' \in [Hands -> HandStates] /\ \A g \in Hands : CommandOk(hand'[g])
    <3>1. CASE hand' = [hand EXCEPT ![h] = After(h)]
      BY <3>1, AfterIsOk, HandMoves
    <3>2. CASE hand' = [hand EXCEPT ![h] = y]
      BY <3>2, <2>3, <2>5, HandMoves
    <3>3. CASE hand' = [hand EXCEPT ![h] = z]
      BY <3>3, <2>4, <2>6, HandMoves
    <3> QED
      BY <2>1, <3>1, <3>2, <3>3 DEF y, z
  <2> QED
    BY <1>5, <2>7, StoredStays DEF PrepareWorkspace, History
<1>6. CASE WriteHandoffFiles(h)
  <2> DEFINE y == [hand[h] EXCEPT !.at = "snapshot"]
             d == [handoff[i] EXCEPT !.files = hand[h].run]
  <2>1. y \in HandStates /\ y.at = "snapshot" /\ y.cmd = hand[h].cmd /\ y.issue = i /\ y.next = hand[h].next
    BY <1>1, <1>2 DEF HandStates, Stages
  <2>2. d \in Handoffs
    BY <1>1, <1>3 DEF Handoffs, HandStates
  <2>3. CASE Step(h, Failed(h)) /\ UNCHANGED handoff
    <3>1. hand' = [hand EXCEPT ![h] = Failed(h)]
      BY <2>3 DEF Step
    <3>2. hand' \in [Hands -> HandStates] /\ \A g \in Hands : CommandOk(hand'[g])
      BY <1>1, <3>1, FailedIsOk, HandMoves DEF Stages
    <3> QED
      BY <1>6, <2>3, <3>2 DEF HomeTyped, WriteHandoffFiles, History
  <2>4. CASE Step(h, y) /\ handoff' = [handoff EXCEPT ![i] = d]
    <3>1. hand' = [hand EXCEPT ![h] = y]
      BY <2>4 DEF Step
    <3> HIDE DEF y, d
    <3>2. CommandOk(y)
      BY <1>1, <1>2, <2>1 DEF CommandOk, Saving, Telling, NoCommand
    <3>3. handoff' \in [RankedIssues -> Handoffs]
      BY <1>2, <2>2, <2>4 DEF HomeTyped
    <3> QED
      BY <1>6, <2>1, <3>1, <3>2, <3>3, HandMoves DEF HomeTyped, WriteHandoffFiles, History
  <2>5. handoff' = [handoff EXCEPT ![i].files = hand[h].run] => handoff' = [handoff EXCEPT ![i] = d]
    OBVIOUS
  <2> QED
    BY <1>6, <2>3, <2>4, <2>5 DEF WriteHandoffFiles
<1>7. CASE WriteSnapshotFile(h)
  <2> DEFINE y == [hand[h] EXCEPT !.at = "event", !.next = "prepared"]
             s == [files |-> handoff[i].files, events |-> handoff[i].events]
             d == [handoff[i] EXCEPT !.snapshot = s]
  <2>1. y \in HandStates /\ y.at = "event" /\ y.cmd = hand[h].cmd /\ y.issue = i /\ y.next = "prepared"
    BY <1>1, <1>2 DEF HandStates, Telling
  <2>2. s \in [files : Nat, events : Nat]
    BY <1>3 DEF Handoffs
  <2>3. hand' = [hand EXCEPT ![h] = y] /\ handoff' = [handoff EXCEPT ![i] = d]
    BY <1>7 DEF WriteSnapshotFile, Step
  <2> HIDE DEF y, s
  <2>4. d \in Handoffs
    BY <1>3, <2>2 DEF Handoffs
  <2> HIDE DEF d
  <2>5. CommandOk(y)
    BY <1>1, <1>2, <2>1 DEF CommandOk, Saving, Telling, NoCommand
  <2>6. handoff' \in [RankedIssues -> Handoffs]
    BY <1>2, <2>3, <2>4 DEF HomeTyped
  <2> QED
    BY <1>7, <2>1, <2>3, <2>5, <2>6, HandMoves DEF HomeTyped, WriteSnapshotFile, History
<1> QED
  BY <1>4, <1>5, <1>6, <1>7

\* A process that takes a command was idle, and so was every other, unless they overlap.
LEMMA TookFacts ==
  ASSUME HomeTyped, NEW h \in Hands, NEW cmd, NEW rec, Took(h, cmd, rec)
  PROVE  /\ hand' = [hand EXCEPT ![h] = [rec EXCEPT !.cmd = cmd]]
         /\ hand[h] = NoCommand /\ hand[h].at = "idle"
         /\ overlappedHome' \in BOOLEAN /\ (overlappedHome => overlappedHome')
         /\ ~overlappedHome' => \A g \in Hands : hand[g] = NoCommand /\ hand[g].at = "idle"
         /\ commands' \in Nat
<1>1. NoCommand.at = "idle"
  BY DEF NoCommand
<1>2. overlappedHome' = (overlappedHome \/ \E g \in Hands : hand[g] # NoCommand) /\ overlappedHome \in BOOLEAN
  BY DEF Took, HomeTyped
<1>3. CASE overlappedHome \/ \E g \in Hands : hand[g] # NoCommand
  <2>1. overlappedHome' = TRUE
    BY <1>2, <1>3
  <2> QED
    BY <1>1, <2>1 DEF Took, Step, HomeTyped
<1>4. CASE ~overlappedHome /\ \A g \in Hands : hand[g] = NoCommand
  <2>1. overlappedHome' = FALSE
    BY <1>2, <1>4
  <2> QED
    BY <1>1, <1>4, <2>1 DEF Took, Step, HomeTyped
<1> QED
  BY <1>3, <1>4

LEMMA TakingIsTyped ==
  ASSUME HomeTyped, NEW h \in Hands,
         \/ \E i \in RankedIssues :
              \/ Prepare(h, i)
              \/ \E cmd \in {"archive", "finish"} : SetInboxStatus(h, i, cmd)
              \/ \E kind \in {"dismissed", "restored"} : RecordFeedback(h, i, kind)
         \/ \E refresh \in BOOLEAN : Daily(h, refresh)
  PROVE  HomeTyped'
<1> USE HomeAssumption
<1>1. ASSUME NEW i \in RankedIssues, Prepare(h, i) PROVE HomeTyped'
  <2> DEFINE y == [[NoCommand EXCEPT !.at = "prepare", !.issue = i] EXCEPT !.cmd = "prepare"]
  <2>1. y \in HandStates /\ y.at = "prepare" /\ y.cmd = "prepare" /\ y.issue = i /\ y.next = "none"
    BY NothingIsTyped DEF HandStates, NoCommand
  <2> HIDE DEF y
  <2>2. CommandOk(y)
    BY <2>1 DEF CommandOk, Saving, Telling
  <2>3. hand' = [hand EXCEPT ![h] = y] /\ commands' \in Nat /\ overlappedHome' \in BOOLEAN
    BY <1>1, TookFacts DEF Prepare, y
  <2> QED
    BY <1>1, <2>1, <2>2, <2>3, HandMoves DEF Prepare, HomeTyped, homeFiles
<1>2. ASSUME NEW i \in RankedIssues, NEW cmd \in {"archive", "finish"}, SetInboxStatus(h, i, cmd) PROVE HomeTyped'
  <2> DEFINE next == IF cmd = "archive" THEN "archived" ELSE "done"
             y == [[NoCommand EXCEPT !.at = "load", !.issue = i, !.next = next] EXCEPT !.cmd = cmd]
  <2>1. y \in HandStates /\ y.at = "load" /\ y.cmd = cmd /\ y.issue = i /\ y.next = next
    BY NothingIsTyped DEF HandStates, NoCommand, Saving
  <2> HIDE DEF y
  <2>2. CommandOk(y)
    BY <2>1 DEF CommandOk, Saving, Telling
  <2>3. hand' = [hand EXCEPT ![h] = y] /\ commands' \in Nat /\ overlappedHome' \in BOOLEAN
    <3> DEFINE rec == [NoCommand EXCEPT !.at = "load", !.issue = i, !.next = next]
    <3>1. Took(h, cmd, rec)
      BY <1>2 DEF SetInboxStatus
    <3>2. y = [rec EXCEPT !.cmd = cmd]
      BY DEF y
    <3> HIDE DEF rec
    <3> QED
      BY <3>1, <3>2, TookFacts
  <2> QED
    BY <1>2, <2>1, <2>2, <2>3, HandMoves DEF SetInboxStatus, HomeTyped, homeFiles
<1>3. ASSUME NEW i \in RankedIssues, NEW kind \in {"dismissed", "restored"}, RecordFeedback(h, i, kind) PROVE HomeTyped'
  <2> DEFINE y == [[NoCommand EXCEPT !.at = "event", !.issue = i, !.next = kind] EXCEPT !.cmd = "feedback"]
  <2>1. y \in HandStates /\ y.at = "event" /\ y.cmd = "feedback" /\ y.issue = i /\ y.next = kind
    BY NothingIsTyped DEF HandStates, NoCommand, Telling
  <2> HIDE DEF y
  <2>2. CommandOk(y)
    BY <2>1 DEF CommandOk, Saving, Telling
  <2>3. hand' = [hand EXCEPT ![h] = y] /\ commands' \in Nat /\ overlappedHome' \in BOOLEAN
    BY <1>3, TookFacts DEF RecordFeedback, y
  <2> QED
    BY <1>3, <2>1, <2>2, <2>3, HandMoves DEF RecordFeedback, HomeTyped, homeFiles
<1>4. ASSUME NEW refresh \in BOOLEAN, Daily(h, refresh) PROVE HomeTyped'
  <2> DEFINE list == IF refresh \/ cached = NoCache THEN Displayable ELSE cached
             y == [[NoCommand EXCEPT !.at = "pick", !.todo = list, !.left = TopN] EXCEPT !.cmd = "daily"]
  <2>1. list \in SUBSET RankedIssues
    BY DEF HomeTyped, Displayable
  <2>2. hand' = [hand EXCEPT ![h] = y] /\ commands' \in Nat /\ overlappedHome' \in BOOLEAN
    BY <1>4, TookFacts DEF Daily
  <2>3. cached' = list /\ stale' = (stale \/ list # Displayable)
        /\ UNCHANGED <<index, tmp, handoff, feedback, log, begun, crashed>>
    BY <1>4 DEF Daily
  <2> HIDE DEF list
  <2>4. y \in HandStates /\ y.at = "pick" /\ y.cmd = "daily" /\ y.next = "none"
    BY <2>1, NothingIsTyped DEF HandStates, NoCommand
  <2> HIDE DEF y
  <2>5. CommandOk(y)
    BY <2>4 DEF CommandOk, Saving, Telling
  <2> QED
    BY <2>1, <2>2, <2>3, <2>4, <2>5, HandMoves DEF HomeTyped
<1> QED
  BY <1>1, <1>2, <1>3, <1>4

\* The issue a daily run picks.
LEMMA PickFacts ==
  ASSUME HomeTyped, NEW h \in Hands, Pick(h), hand' # [hand EXCEPT ![h] = NoCommand]
  PROVE  \E i \in hand[h].todo, y \in HandStates :
           /\ hand' = [hand EXCEPT ![h] = y] /\ y.at = "event" /\ y.next = "shown" /\ y.issue = i
           /\ y.todo \subseteq hand[h].todo /\ y.cmd = hand[h].cmd /\ y.mine = hand[h].mine
           /\ y.run = hand[h].run
<1> DEFINE todo == {i \in hand[h].todo \cap Worthy : ~Contained(i)}
           first == CHOOSE i \in todo : \A j \in todo : i <= j
           later == {i \in hand[h].todo : i > first}
           left == hand[h].left - 1
           y == [hand[h] EXCEPT !.at = "event", !.next = "shown", !.issue = first, !.todo = later, !.left = left]
<1>1. ~(hand[h].left = 0 \/ todo = {} \/ index.is # "whole")
  BY DEF Pick, Step
<1>2. hand' = [hand EXCEPT ![h] = y]
  BY <1>1 DEF Pick, Step
<1>3. hand[h] \in HandStates
  BY DEF HomeTyped
<1>4. todo \subseteq Nat /\ todo # {} /\ todo \subseteq hand[h].todo /\ hand[h].todo \subseteq RankedIssues
  BY <1>1, <1>3, HomeAssumption DEF HandStates
<1>5. first \in todo
  BY <1>4, LeastOfNats
<1>6. left \in Nat /\ later \in SUBSET RankedIssues /\ later \subseteq hand[h].todo
  BY <1>1, <1>3 DEF HandStates
<1> HIDE DEF first, later, left, todo
<1>7. y \in HandStates /\ y.at = "event" /\ y.next = "shown" /\ y.issue = first /\ y.todo = later
      /\ y.cmd = hand[h].cmd /\ y.mine = hand[h].mine /\ y.run = hand[h].run
  BY <1>3, <1>4, <1>5, <1>6 DEF HandStates, Telling
<1> HIDE DEF y
<1> QED
  BY <1>2, <1>4, <1>5, <1>6, <1>7

LEMMA PickIsTyped == ASSUME HomeTyped, NEW h \in Hands, Pick(h) PROVE HomeTyped'
<1>1. hand[h] \in HandStates /\ CommandOk(hand[h]) /\ hand[h].at = "pick"
  BY DEF HomeTyped, Pick
<1>2. hand[h].cmd = "daily" /\ hand[h].todo \subseteq RankedIssues
  BY <1>1 DEF CommandOk, HandStates, Saving, Telling
<1>3. CASE hand' = [hand EXCEPT ![h] = NoCommand]
  BY <1>3, NothingIsTyped, HandMoves, StoredStays DEF Pick, History
<1>4. CASE hand' # [hand EXCEPT ![h] = NoCommand]
  <2>1. PICK i \in hand[h].todo, y \in HandStates :
           /\ hand' = [hand EXCEPT ![h] = y] /\ y.at = "event" /\ y.next = "shown" /\ y.issue = i
           /\ y.todo \subseteq hand[h].todo /\ y.cmd = hand[h].cmd /\ y.mine = hand[h].mine
           /\ y.run = hand[h].run
    BY <1>4, PickFacts
  <2>2. i # 0
    BY <1>2, HomeAssumption
  <2>3. CommandOk(y)
    BY <1>2, <2>1, <2>2 DEF CommandOk, Saving, Telling
  <2> QED
    BY <2>1, <2>3, HandMoves, StoredStays DEF Pick, History
<1> QED
  BY <1>3, <1>4

LEMMA HomeTypeNext == HomeTyped /\ [HomeNext]_homeVars => HomeTyped'
<1> SUFFICES ASSUME HomeTyped, [HomeNext]_homeVars PROVE HomeTyped'
  OBVIOUS
<1>1. ASSUME NEW h \in Hands, HandDies(h) PROVE HomeTyped'
  <2>1. hand' = [hand EXCEPT ![h] = NoCommand]
    BY <1>1 DEF HandDies, Step
  <2> QED
    BY <1>1, <2>1, NothingIsTyped, HandMoves DEF HandDies, HomeTyped, homeFiles
<1>2. CASE UNCHANGED homeVars
  BY <1>2 DEF homeVars, homeFiles, HomeTyped
<1> QED
  BY <1>1, <1>2, LoadIsTyped, TruncateIsTyped, FillIsTyped, RenameIsTyped, TellingIsTyped, PreparingIsTyped,
     TakingIsTyped, PickIsTyped
  DEF HomeNext
-----------------------------------------------------------------------------
(* What the index calls ready.                                               *)

\* A command that has begun to prepare an issue and has not written its snapshot.
Stage(h, i) == hand[h].issue = i /\ hand[h].at \in Stages
\* What will be, or is, called ready.
Says(h, i) ==
  hand[h].mine[i] = "ready" \/ (hand[h].issue = i /\ hand[h].next \in {"prepared", "ready"})
Marked(i) == index.items[i] = "ready" \/ tmp.items[i] = "ready" \/ \E h \in Hands : Says(h, i)
Verified(i) ==
  /\ handoff[i].files # 0
  /\ handoff[i].snapshot = [files |-> handoff[i].files, events |-> handoff[i].events]
\* An issue is marked only when its one preparation is complete, or after two.
HandoffOne(i) ==
  /\ \A h \in Hands : Stage(h, i) => handoff[i].times >= 1
  /\ \A g, h \in Hands : g # h /\ Stage(g, i) /\ Stage(h, i) => handoff[i].times >= 2
  /\ \A h \in Hands : Stage(h, i) /\ hand[h].at = "snapshot" => handoff[i].files # 0
  /\ Marked(i) => /\ handoff[i].times >= 1
                  /\ handoff[i].times = 1 => Verified(i)
                  /\ \A h \in Hands : Stage(h, i) => handoff[i].times >= 2
HandoffInv == \A i \in RankedIssues : HandoffOne(i)
-----------------------------------------------------------------------------
(* What holds as long as no two commands overlap.                            *)

OneBusy == \A g, h \in Hands : hand[g].at # "idle" /\ hand[h].at # "idle" => g = h
\* The command that saves the index has the temporary file to itself.
SavingOk(h) ==
  /\ hand[h].at = "fill" => hand[h].fd = "tmp" /\ tmp = File("empty")
  /\ hand[h].at = "rename" => tmp = Whole(hand[h].mine)
  /\ hand[h].at \in {"truncate", "fill", "rename"} =>
       hand[h].mine = [index.items EXCEPT ![hand[h].issue] = hand[h].next]
AloneInv == ~overlappedHome => OneBusy /\ index.is = "whole" /\ \A h \in Hands : SavingOk(h)
\* And when none died: who archived an issue has said so, or is about to.
Archiving(h, i) == hand[h].cmd = "archive" /\ hand[h].issue = i /\ hand[h].at = "event"
ToldOk ==
  /\ log = "whole" \/ (log = "open" /\ \E h \in Hands : hand[h].at = "newline")
  /\ \A h \in Hands : hand[h].cmd = "finish" /\ hand[h].at = "event" => index.items[hand[h].issue] = "done"
  /\ \A i \in RankedIssues : index.items[i] = "archived" =>
       feedback[i] \in {"dismissed", "restored"} \/ \E h \in Hands : Archiving(h, i)
ListOk(h) ==
  hand[h].cmd = "daily" =>
    \A i \in RankedIssues : i \in hand[h].todo \/ i = hand[h].issue => feedback[i] \notin {"done", "dismissed"}
ToldInv == ~overlappedHome /\ ~crashed => ToldOk /\ (~stale => \A h \in Hands : ListOk(h))

HomeInv == HomeTyped /\ HandoffInv /\ AloneInv /\ ToldInv

LEMMA HomeStarts == HomeInit => HomeInv
<1> SUFFICES ASSUME HomeInit PROVE HomeInv
  OBVIOUS
<1>1. HomeTyped
  BY HomeTypeInit
<1>2. /\ NoCommand.at = "idle" /\ NoCommand.mine = NoItems /\ NoCommand.next = "none" /\ NoCommand.cmd = "none"
      /\ \A i \in RankedIssues : NoItems[i] = "absent"
  BY DEF NoCommand, NoItems
<1>3. index = Whole(NoItems) /\ tmp = File("none") /\ \A h \in Hands : hand[h] = NoCommand
  BY DEF HomeInit
<1>4. index.is = "whole" /\ index.items = NoItems /\ tmp.items = NoItems
  BY <1>3 DEF Whole, File
<1>5. HandoffInv
  BY <1>2, <1>3, <1>4 DEF HandoffInv, HandoffOne, Marked, Says, Stage, Stages
<1>6. AloneInv
  BY <1>2, <1>3, <1>4 DEF AloneInv, OneBusy, SavingOk
<1>7. ToldInv
  BY <1>2, <1>3, <1>4 DEF ToldInv, ToldOk, ListOk, HomeInit
<1> QED
  BY <1>1, <1>5, <1>6, <1>7 DEF HomeInv

\* A step that marks no other issue and begins no stage keeps what is verified.
LEMMA HandoffQuiet ==
  ASSUME HandoffInv, UNCHANGED handoff,
         \A i \in RankedIssues : Marked(i)' => Marked(i),
         \A g \in Hands, i \in RankedIssues :
           Stage(g, i)' => Stage(g, i) /\ (hand'[g].at = "snapshot" => hand[g].at = "snapshot")
  PROVE  HandoffInv'
<1> SUFFICES ASSUME NEW i \in RankedIssues PROVE HandoffOne(i)'
  BY DEF HandoffInv
<1>1. HandoffOne(i)
  BY DEF HandoffInv
<1>2. Verified(i)' = Verified(i)
  BY DEF Verified
<1> QED
  BY <1>1, <1>2 DEF HandoffOne

LEMMA OneHandQuiet ==
  ASSUME HomeTyped, HandoffInv, UNCHANGED handoff, NEW h \in Hands, NEW y \in HandStates,
         hand' = [hand EXCEPT ![h] = y],
         \A i \in RankedIssues : index'.items[i] = "ready" \/ tmp'.items[i] = "ready" => Marked(i),
         \A i \in RankedIssues : y.mine[i] = "ready" => Marked(i),
         \A i \in RankedIssues : y.issue = i /\ y.next \in {"prepared", "ready"} => Marked(i),
         y.at \in Stages => /\ hand[h].at \in Stages /\ y.issue = hand[h].issue
                            /\ y.at = "snapshot" => hand[h].at = "snapshot"
  PROVE  HandoffInv'
<1>1. hand'[h] = y /\ \A g \in Hands : g # h => hand'[g] = hand[g]
  BY DEF HomeTyped
<1>2. ASSUME NEW g \in Hands, NEW i \in RankedIssues, Says(g, i)' PROVE Marked(i)
  <2>1. CASE g = h
    BY <1>1, <1>2, <2>1 DEF Says
  <2>2. CASE g # h
    BY <1>1, <1>2, <2>2 DEF Says, Marked
  <2> QED
    BY <2>1, <2>2
<1>3. \A i \in RankedIssues : Marked(i)' => Marked(i)
  BY <1>2 DEF Marked
<1>4. ASSUME NEW g \in Hands, NEW i \in RankedIssues, Stage(g, i)'
      PROVE  Stage(g, i) /\ (hand'[g].at = "snapshot" => hand[g].at = "snapshot")
  BY <1>1, <1>4 DEF Stage
<1> QED
  BY <1>3, <1>4, HandoffQuiet

LEMMA HandoffTells ==
  ASSUME HomeTyped, HandoffInv, NEW h \in Hands, UNCHANGED <<index, tmp, handoff>>, NEW y \in HandStates,
         hand' = [hand EXCEPT ![h] = y], y.mine = NoItems \/ y.mine = hand[h].mine,
         y.next \in {"prepared", "ready"} => y.issue = hand[h].issue /\ hand[h].next \in {"prepared", "ready"},
         y.at \in Stages => /\ hand[h].at \in Stages /\ y.issue = hand[h].issue
                            /\ y.at = "snapshot" => hand[h].at = "snapshot"
  PROVE  HandoffInv'
<1>1. \A i \in RankedIssues : NoItems[i] = "absent"
  BY DEF NoItems
<1>2. \A i \in RankedIssues : y.mine[i] = "ready" => Marked(i)
  BY <1>1 DEF Marked, Says
<1>3. \A i \in RankedIssues : index'.items[i] = "ready" \/ tmp'.items[i] = "ready" => Marked(i)
  BY DEF Marked
<1>4. \A i \in RankedIssues : y.issue = i /\ y.next \in {"prepared", "ready"} => Marked(i)
  BY DEF Marked, Says
<1> QED
  BY <1>2, <1>3, <1>4, OneHandQuiet

\* A preparation that fails or ends.
LEMMA HandoffFails ==
  ASSUME HomeTyped, HandoffInv, NEW h \in Hands, hand[h].at \notin {"idle", "pick"},
         UNCHANGED <<index, tmp, handoff>>,
         hand' = [hand EXCEPT ![h] = Failed(h)] \/ hand' = [hand EXCEPT ![h] = After(h)]
  PROVE  HandoffInv'
<1>1. CASE hand' = [hand EXCEPT ![h] = After(h)]
  BY <1>1, AfterIsOk, HandoffTells DEF Stages
<1>2. CASE hand' = [hand EXCEPT ![h] = Failing(h)]
  <2> DEFINE y == Failing(h)
  <2>1. hand[h] \in HandStates
    BY DEF HomeTyped
  <2>2. y \in HandStates /\ y.mine = hand[h].mine /\ y.next = "failed" /\ y.at = "load"
    BY <2>1 DEF HandStates, Failing, Saving
  <2>3. hand' = [hand EXCEPT ![h] = y]
    BY <1>2
  <2> HIDE DEF y
  <2> QED
    BY <2>2, <2>3, HandoffTells DEF Stages
<1> QED
  BY <1>1, <1>2, FailedIsOk

LEMMA LoadKeepsHandoffs == ASSUME HomeTyped, HandoffInv, NEW h \in Hands, Load(h) PROVE HandoffInv'
<1>1. hand[h] \in HandStates /\ hand[h].at = "load" /\ UNCHANGED <<index, tmp, handoff>>
  BY DEF HomeTyped, Load, homeFiles
<1>2. CASE hand' = [hand EXCEPT ![h] = Failed(h)]
  BY <1>1, <1>2, HandoffFails
<1> DEFINE items == [index.items EXCEPT ![hand[h].issue] = hand[h].next]
           y == [hand[h] EXCEPT !.at = "truncate", !.mine = items]
<1>3. CASE hand' = [hand EXCEPT ![h] = y]
  <2>1. y \in HandStates /\ y.mine = items /\ y.at = "truncate" /\ y.next = hand[h].next /\ y.issue = hand[h].issue
    <3>1. items \in ItemMaps
      <4>1. hand[h].next \in ItemStatuses
        BY <1>1 DEF HomeTyped, CommandOk, HandStates, Saving, Telling, ItemStatuses
      <4> QED
        BY <4>1 DEF HomeTyped, FileTexts, ItemMaps
    <3> HIDE DEF items
    <3> QED
      BY <1>1, <3>1 DEF HandStates, Saving
  <2>2. \A i \in RankedIssues : items[i] = "ready" =>
          index.items[i] = "ready" \/ (hand[h].issue = i /\ hand[h].next = "ready")
    BY DEF HomeTyped, FileTexts, ItemMaps
  <2> HIDE DEF y, items
  <2>3. \A i \in RankedIssues : y.mine[i] = "ready" => Marked(i)
    BY <2>1, <2>2 DEF Marked, Says
  <2>4. \A i \in RankedIssues : index'.items[i] = "ready" \/ tmp'.items[i] = "ready" => Marked(i)
    BY <1>1 DEF Marked
  <2>5. \A i \in RankedIssues : y.issue = i /\ y.next \in {"prepared", "ready"} => Marked(i)
    BY <2>1 DEF Marked, Says
  <2> QED
    BY <1>1, <1>3, <2>1, <2>3, <2>4, <2>5, OneHandQuiet DEF Stages
<1> QED
  BY <1>2, <1>3 DEF Load, Step

LEMMA WritesKeepHandoffs ==
  ASSUME HomeTyped, HandoffInv, NEW h \in Hands, Truncate(h) \/ Fill(h)
  PROVE  HandoffInv'
<1>1. hand[h] \in HandStates /\ UNCHANGED handoff
  BY DEF HomeTyped, Truncate, Fill
<1>2. \A i \in RankedIssues : NoItems[i] = "absent"
  BY DEF NoItems
<1>3. CASE Truncate(h)
  <2> DEFINE y == [hand[h] EXCEPT !.at = "fill", !.fd = "tmp"]
  <2>1. hand' = [hand EXCEPT ![h] = y] /\ tmp'.items = NoItems /\ index' = index
    BY <1>3 DEF Truncate, Step, File
  <2>2. y \in HandStates /\ y.at = "fill" /\ y.issue = hand[h].issue /\ y.next = hand[h].next /\ y.mine = hand[h].mine
    BY <1>1 DEF HandStates, Saving
  <2> HIDE DEF y
  <2>3. \A i \in RankedIssues : index'.items[i] = "ready" \/ tmp'.items[i] = "ready" => Marked(i)
    BY <1>2, <2>1 DEF Marked
  <2>4. \A i \in RankedIssues : y.mine[i] = "ready" => Marked(i)
    BY <2>2 DEF Marked, Says
  <2>5. \A i \in RankedIssues : y.issue = i /\ y.next \in {"prepared", "ready"} => Marked(i)
    BY <2>2 DEF Marked, Says
  <2> QED
    BY <1>1, <2>1, <2>2, <2>3, <2>4, <2>5, OneHandQuiet DEF Stages
<1>4. CASE Fill(h)
  <2> DEFINE y == [hand[h] EXCEPT !.at = "rename"]
  <2>1. hand' = [hand EXCEPT ![h] = y]
    BY <1>4 DEF Fill, Step
  <2>2. y \in HandStates /\ y.at = "rename" /\ y.issue = hand[h].issue /\ y.next = hand[h].next /\ y.mine = hand[h].mine
    BY <1>1 DEF HandStates, Saving
  <2>3. \A old : \A f \in Written(h, old) : f.items = hand[h].mine \/ f.items = NoItems
    BY DEF Written, Whole, File
  <2>4. /\ index'.items = index.items \/ index'.items = hand[h].mine \/ index'.items = NoItems
        /\ tmp'.items = tmp.items \/ tmp'.items = hand[h].mine \/ tmp'.items = NoItems
    BY <1>4, <2>3 DEF Fill
  <2> HIDE DEF y
  <2>5. \A i \in RankedIssues : index'.items[i] = "ready" \/ tmp'.items[i] = "ready" => Marked(i)
    BY <1>2, <2>4 DEF Marked, Says
  <2>6. \A i \in RankedIssues : y.mine[i] = "ready" => Marked(i)
    BY <2>2 DEF Marked, Says
  <2>7. \A i \in RankedIssues : y.issue = i /\ y.next \in {"prepared", "ready"} => Marked(i)
    BY <2>2 DEF Marked, Says
  <2> QED
    BY <1>1, <2>1, <2>2, <2>5, <2>6, <2>7, OneHandQuiet DEF Stages
<1> QED
  BY <1>3, <1>4

LEMMA RenameKeepsHandoffs == ASSUME HomeTyped, HandoffInv, NEW h \in Hands, Rename(h) PROVE HandoffInv'
<1>1. hand[h] \in HandStates /\ hand[h].at = "rename" /\ UNCHANGED handoff
  BY DEF HomeTyped, Rename
<1>2. CASE tmp.is = "none"
  <2>1. hand' = [hand EXCEPT ![h] = Failed(h)] /\ UNCHANGED <<index, tmp>>
    BY <1>2 DEF Rename, Step
  <2> QED
    BY <1>1, <2>1, HandoffFails
<1>3. CASE tmp.is # "none"
  <2>1. index' = tmp /\ tmp' = File("none")
        /\ hand' = [g \in Hands |-> IF g = h THEN Saved(h) ELSE [hand[g] EXCEPT !.fd = Shift(@)]]
    BY <1>3 DEF Rename
  <2>2. tmp'.items = NoItems /\ \A i \in RankedIssues : NoItems[i] = "absent"
    BY <2>1 DEF File, NoItems
  <2>3. hand'[h] = Saved(h)
    BY <2>1
  <2>4. ASSUME NEW g \in Hands, g # h
        PROVE  /\ hand'[g].at = hand[g].at /\ hand'[g].issue = hand[g].issue
               /\ hand'[g].next = hand[g].next /\ hand'[g].mine = hand[g].mine
    BY <2>1, <2>4, ShiftIsOk
  <2>5. Saved(h).mine = NoItems /\ Saved(h).next \notin {"prepared", "ready"} /\ Saved(h).at \notin Stages
    BY <1>1, SavedIsOk, AfterIsOk DEF Stages
  <2>6. ASSUME NEW g \in Hands, NEW i \in RankedIssues, Says(g, i)' PROVE Marked(i)
    BY <2>2, <2>3, <2>4, <2>5, <2>6 DEF Says, Marked
  <2>7. \A i \in RankedIssues : Marked(i)' => Marked(i)
    BY <2>1, <2>2, <2>6 DEF Marked
  <2>8. ASSUME NEW g \in Hands, NEW i \in RankedIssues, Stage(g, i)'
        PROVE  Stage(g, i) /\ (hand'[g].at = "snapshot" => hand[g].at = "snapshot")
    BY <2>3, <2>4, <2>5, <2>8 DEF Stage
  <2> QED
    BY <1>1, <2>7, <2>8, HandoffQuiet
<1> QED
  BY <1>2, <1>3

LEMMA TellingKeepsHandoffs ==
  ASSUME HomeTyped, HandoffInv, NEW h \in Hands, WriteLine(h) \/ EndLine(h)
  PROVE  HandoffInv'
<1>1. hand[h] \in HandStates /\ hand[h].at \in Telling /\ UNCHANGED <<index, tmp, handoff>>
  BY DEF HomeTyped, WriteLine, EndLine, Telling
<1>2. hand[h].at \notin {"idle", "pick"}
  BY <1>1 DEF Telling
<1> DEFINE x == [hand[h] EXCEPT !.at = "newline"]
           y == [hand[h] EXCEPT !.at = "prepare"]
           z == [hand[h] EXCEPT !.at = "load", !.next = "ready"]
<1>3. \/ hand' = [hand EXCEPT ![h] = x] \/ hand' = [hand EXCEPT ![h] = y]
      \/ hand[h].next = "prepared" /\ hand' = [hand EXCEPT ![h] = z]
      \/ hand' = [hand EXCEPT ![h] = After(h)]
  BY DEF WriteLine, EndLine, Step
<1>4. x \in HandStates /\ x.at = "newline" /\ x.mine = hand[h].mine /\ x.next = hand[h].next /\ x.issue = hand[h].issue
  BY <1>1 DEF HandStates, Telling
<1>5. y \in HandStates /\ y.at = "prepare" /\ y.mine = hand[h].mine /\ y.next = hand[h].next /\ y.issue = hand[h].issue
  BY <1>1 DEF HandStates
<1>6. z \in HandStates /\ z.at = "load" /\ z.mine = hand[h].mine /\ z.next = "ready" /\ z.issue = hand[h].issue
  BY <1>1 DEF HandStates, Saving
<1> HIDE DEF x, y, z
<1>7. CASE hand' = [hand EXCEPT ![h] = x]
  BY <1>1, <1>4, <1>7, HandoffTells DEF Stages
<1>8. CASE hand' = [hand EXCEPT ![h] = y]
  BY <1>1, <1>5, <1>8, HandoffTells DEF Stages
<1>9. CASE hand[h].next = "prepared" /\ hand' = [hand EXCEPT ![h] = z]
  BY <1>1, <1>6, <1>9, HandoffTells DEF Stages
<1>10. CASE hand' = [hand EXCEPT ![h] = After(h)]
  BY <1>1, <1>2, <1>10, HandoffFails
<1> QED
  BY <1>3, <1>7, <1>8, <1>9, <1>10

\* A preparation that begins is counted before it touches a file.
LEMMA BeginKeepsHandoffs == ASSUME HomeTyped, HandoffInv, NEW h \in Hands, BeginPrepare(h) PROVE HandoffInv'
<1>0. PICK k : k = hand[h].issue
  OBVIOUS
<1>1. hand[h] \in HandStates /\ CommandOk(hand[h]) /\ hand[h].at = "prepare"
  BY DEF HomeTyped, BeginPrepare
<1>2. k \in RankedIssues /\ handoff[k] \in Handoffs /\ handoff[k].times \in Nat
  BY <1>0, <1>1 DEF CommandOk, HandStates, HomeTyped, Handoffs
<1> DEFINE run == begun + 1
           y == [hand[h] EXCEPT !.at = "workspace", !.run = run]
<1>3. hand' = [hand EXCEPT ![h] = y] /\ UNCHANGED <<index, tmp>>
  BY DEF BeginPrepare, Step
<1>4. y.at = "workspace" /\ y.mine = hand[h].mine /\ y.next = hand[h].next /\ y.issue = k
  BY <1>0, <1>1 DEF HandStates
<1> HIDE DEF y
<1>5. /\ handoff'[k].times = handoff[k].times + 1 /\ handoff'[k].files = handoff[k].files
      /\ \A i \in RankedIssues : i # k => handoff'[i] = handoff[i]
  BY <1>0, <1>2 DEF BeginPrepare, HomeTyped, Handoffs
<1>6. hand'[h] = y /\ \A g \in Hands : g # h => hand'[g] = hand[g]
  BY <1>3 DEF HomeTyped
<1>7. \A g \in Hands, i \in RankedIssues : Says(g, i)' <=> Says(g, i)
  BY <1>0, <1>4, <1>6 DEF Says
<1>8. \A i \in RankedIssues : Marked(i)' <=> Marked(i)
  BY <1>3, <1>7 DEF Marked
<1>9. \A g \in Hands, i \in RankedIssues : Stage(g, i)' => Stage(g, i) \/ (g = h /\ i = k)
  BY <1>4, <1>6 DEF Stage
<1>10. ~Stage(h, k)
  BY <1>1 DEF Stage, Stages
<1>11. \A g \in Hands : hand'[g].at = "snapshot" => g # h /\ hand[g].at = "snapshot"
  BY <1>4, <1>6
<1>12. ASSUME NEW i \in RankedIssues, i # k PROVE HandoffOne(i)'
  <2>1. HandoffOne(i)
    BY DEF HandoffInv
  <2>2. handoff'[i] = handoff[i]
    BY <1>5, <1>12
  <2>3. Verified(i)' <=> Verified(i)
    BY <2>2 DEF Verified
  <2>4. \A g \in Hands : Stage(g, i)' => Stage(g, i)
    BY <1>9, <1>12
  <2> QED
    BY <1>8, <1>11, <2>1, <2>2, <2>3, <2>4 DEF HandoffOne
<1>13. HandoffOne(k)'
  <2>1. HandoffOne(k)
    BY <1>2 DEF HandoffInv
  <2>2. handoff'[k].times >= 1 /\ (handoff[k].times >= 1 => handoff'[k].times >= 2)
    BY <1>2, <1>5
  <2>3. \A g \in Hands : Stage(g, k)' /\ g # h => Stage(g, k)
    BY <1>2, <1>9
  <2>4. ASSUME NEW f \in Hands, NEW g \in Hands, f # g, Stage(f, k)', Stage(g, k)'
        PROVE  handoff'[k].times >= 2
    BY <2>1, <2>2, <2>3, <2>4 DEF HandoffOne
  <2>5. ASSUME NEW g \in Hands, Stage(g, k)', hand'[g].at = "snapshot" PROVE handoff'[k].files # 0
    BY <1>5, <1>11, <2>1, <2>3, <2>5 DEF HandoffOne
  <2>6. Marked(k)' => handoff'[k].times >= 2
    BY <1>2, <1>8, <2>1, <2>2 DEF HandoffOne
  <2>7. ~(handoff'[k].times >= 2 /\ handoff'[k].times = 1)
    OBVIOUS
  <2> QED
    BY <2>2, <2>4, <2>5, <2>6, <2>7 DEF HandoffOne
<1> QED
  BY <1>12, <1>13 DEF HandoffInv

LEMMA StagesKeepHandoffs ==
  ASSUME HomeTyped, HandoffInv, NEW h \in Hands, PrepareWorkspace(h)
  PROVE  HandoffInv'
<1>1. hand[h] \in HandStates /\ hand[h].at = "workspace" /\ UNCHANGED <<index, tmp, handoff>>
  BY DEF HomeTyped, PrepareWorkspace, homeFiles
<1> DEFINE y == [hand[h] EXCEPT !.at = "load", !.next = "failed"]
           z == [hand[h] EXCEPT !.at = "files"]
<1>2. \/ hand' = [hand EXCEPT ![h] = y] \/ hand' = [hand EXCEPT ![h] = After(h)]
      \/ hand' = [hand EXCEPT ![h] = z]
  BY DEF PrepareWorkspace, WorkspaceOutcomes, Step
<1>3. y \in HandStates /\ y.at = "load" /\ y.next = "failed" /\ y.mine = hand[h].mine
  BY <1>1 DEF HandStates, Saving
<1>4. /\ z \in HandStates /\ z.at = "files" /\ z.issue = hand[h].issue /\ z.next = hand[h].next
      /\ z.mine = hand[h].mine
  BY <1>1 DEF HandStates, Stages
<1> HIDE DEF y, z
<1>5. CASE hand' = [hand EXCEPT ![h] = y]
  BY <1>1, <1>3, <1>5, HandoffTells DEF Stages
<1>6. CASE hand' = [hand EXCEPT ![h] = z]
  BY <1>1, <1>4, <1>6, HandoffTells DEF Stages
<1>7. CASE hand' = [hand EXCEPT ![h] = After(h)]
  BY <1>1, <1>7, HandoffFails
<1> QED
  BY <1>2, <1>5, <1>6, <1>7

\* The files are of the preparation that writes them; two at once are counted twice.
LEMMA FilesKeepHandoffs == ASSUME HomeTyped, HandoffInv, NEW h \in Hands, WriteHandoffFiles(h) PROVE HandoffInv'
<1>0. PICK k : k = hand[h].issue
  OBVIOUS
<1>1. hand[h] \in HandStates /\ CommandOk(hand[h]) /\ hand[h].at = "files" /\ UNCHANGED <<index, tmp>>
  BY DEF HomeTyped, WriteHandoffFiles
<1>2. k \in RankedIssues /\ handoff[k] \in Handoffs /\ hand[h].run # 0
  BY <1>0, <1>1 DEF CommandOk, HandStates, HomeTyped
<1>3. CASE Step(h, Failed(h)) /\ UNCHANGED handoff
  BY <1>1, <1>3, HandoffFails DEF Step
<1> DEFINE y == [hand[h] EXCEPT !.at = "snapshot"]
<1>4. CASE Step(h, y) /\ handoff' = [handoff EXCEPT ![k].files = hand[h].run]
  <2>1. y.at = "snapshot" /\ y.mine = hand[h].mine /\ y.next = hand[h].next /\ y.issue = k
    BY <1>0, <1>1 DEF HandStates
  <2>2. hand' = [hand EXCEPT ![h] = y]
    BY <1>4 DEF Step
  <2> HIDE DEF y
  <2>3. hand'[h] = y /\ \A g \in Hands : g # h => hand'[g] = hand[g]
    BY <2>2 DEF HomeTyped
  <2>4. /\ handoff'[k].times = handoff[k].times /\ handoff'[k].files # 0
        /\ \A i \in RankedIssues : i # k => handoff'[i] = handoff[i]
    BY <1>2, <1>4 DEF HomeTyped, Handoffs
  <2>5. \A g \in Hands, i \in RankedIssues : Says(g, i)' <=> Says(g, i)
    BY <1>0, <2>1, <2>3 DEF Says
  <2>6. \A i \in RankedIssues : Marked(i)' <=> Marked(i)
    BY <1>1, <2>5 DEF Marked
  <2>7. \A g \in Hands, i \in RankedIssues : Stage(g, i)' <=> Stage(g, i)
    BY <1>0, <1>1, <2>1, <2>3 DEF Stage, Stages
  <2>8. \A g \in Hands, i \in RankedIssues : i # k /\ Stage(g, i) /\ hand'[g].at = "snapshot" => hand[g].at = "snapshot"
    BY <1>0, <2>3 DEF Stage
  <2>9. Stage(h, k)
    BY <1>0, <1>1 DEF Stage, Stages
  <2>10. ASSUME NEW i \in RankedIssues, i # k PROVE HandoffOne(i)'
    <3>1. HandoffOne(i)
      BY DEF HandoffInv
    <3>2. handoff'[i] = handoff[i]
      BY <2>4, <2>10
    <3>3. Verified(i)' <=> Verified(i)
      BY <3>2 DEF Verified
    <3> QED
      BY <2>6, <2>7, <2>8, <2>10, <3>1, <3>2, <3>3 DEF HandoffOne
  <2>11. HandoffOne(k)'
    <3>1. HandoffOne(k)
      BY <1>2 DEF HandoffInv
    <3>2. Marked(k)' => handoff'[k].times >= 2
      BY <1>2, <2>4, <2>6, <2>9, <3>1 DEF HandoffOne
    <3>3. ~(handoff'[k].times >= 2 /\ handoff'[k].times = 1)
      OBVIOUS
    <3> QED
      BY <1>2, <2>4, <2>6, <2>7, <3>1, <3>2, <3>3 DEF HandoffOne
  <2> QED
    BY <2>10, <2>11 DEF HandoffInv
<1> QED
  BY <1>0, <1>3, <1>4 DEF WriteHandoffFiles

LEMMA SnapshotKeepsHandoffs == ASSUME HomeTyped, HandoffInv, NEW h \in Hands, WriteSnapshotFile(h) PROVE HandoffInv'
<1>0. PICK k : k = hand[h].issue
  OBVIOUS
<1>1. hand[h] \in HandStates /\ CommandOk(hand[h]) /\ hand[h].at = "snapshot" /\ UNCHANGED <<index, tmp>>
  BY DEF HomeTyped, WriteSnapshotFile
<1>2. k \in RankedIssues /\ handoff[k] \in Handoffs
  BY <1>0, <1>1 DEF CommandOk, HandStates, HomeTyped
<1> DEFINE y == [hand[h] EXCEPT !.at = "event", !.next = "prepared"]
<1>3. y.at = "event" /\ y.mine = hand[h].mine /\ y.next = "prepared" /\ y.issue = k
  BY <1>0, <1>1 DEF HandStates
<1>4. hand' = [hand EXCEPT ![h] = y]
  BY DEF WriteSnapshotFile, Step
<1> HIDE DEF y
<1>5. hand'[h] = y /\ \A g \in Hands : g # h => hand'[g] = hand[g]
  BY <1>4 DEF HomeTyped
<1>6. /\ handoff'[k].times = handoff[k].times /\ handoff'[k].files = handoff[k].files
      /\ handoff'[k].events = handoff[k].events
      /\ handoff'[k].snapshot = [files |-> handoff[k].files, events |-> handoff[k].events]
      /\ \A i \in RankedIssues : i # k => handoff'[i] = handoff[i]
  BY <1>0, <1>2 DEF WriteSnapshotFile, HomeTyped, Handoffs
<1>7. \A g \in Hands, i \in RankedIssues : Says(g, i)' => Says(g, i) \/ i = k
  BY <1>3, <1>5 DEF Says
<1>8. \A i \in RankedIssues : i # k /\ Marked(i)' => Marked(i)
  BY <1>1, <1>7 DEF Marked
<1>9. \A g \in Hands, i \in RankedIssues : Stage(g, i)' => g # h /\ Stage(g, i)
  BY <1>3, <1>5 DEF Stage, Stages
<1>10. \A g \in Hands : g # h => hand'[g].at = hand[g].at
  BY <1>5
<1>11. Stage(h, k)
  BY <1>0, <1>1 DEF Stage, Stages
<1>12. ASSUME NEW i \in RankedIssues, i # k PROVE HandoffOne(i)'
  <2>1. HandoffOne(i)
    BY DEF HandoffInv
  <2>2. handoff'[i] = handoff[i]
    BY <1>6, <1>12
  <2>3. Verified(i)' <=> Verified(i)
    BY <2>2 DEF Verified
  <2> QED
    BY <1>8, <1>9, <1>10, <1>12, <2>1, <2>2, <2>3 DEF HandoffOne
<1>13. HandoffOne(k)'
  <2>1. HandoffOne(k)
    BY <1>2 DEF HandoffInv
  <2>2. handoff'[k].times >= 1 /\ handoff'[k].files # 0
    BY <1>1, <1>2, <1>6, <1>11, <2>1 DEF HandoffOne
  <2>3. Verified(k)'
    BY <1>2, <1>6, <2>2 DEF Verified
  <2>4. \A g \in Hands : Stage(g, k)' => handoff'[k].times >= 2
    BY <1>2, <1>6, <1>9, <1>11, <2>1 DEF HandoffOne
  <2> QED
    BY <1>2, <2>2, <2>3, <2>4 DEF HandoffOne
<1> QED
  BY <1>12, <1>13 DEF HandoffInv

\* A command that begins, picks an issue or dies.
LEMMA TakingKeepsHandoffs ==
  ASSUME HomeTyped, HandoffInv, NEW h \in Hands,
         \/ \E i \in RankedIssues :
              \/ Prepare(h, i)
              \/ \E cmd \in {"archive", "finish"} : SetInboxStatus(h, i, cmd)
              \/ \E kind \in {"dismissed", "restored"} : RecordFeedback(h, i, kind)
         \/ \E refresh \in BOOLEAN : Daily(h, refresh)
         \/ Pick(h) \/ HandDies(h)
  PROVE  HandoffInv'
<1>1. UNCHANGED <<index, tmp, handoff>>
  BY DEF Prepare, SetInboxStatus, RecordFeedback, Daily, Pick, HandDies, homeFiles
<1>2. hand' \in [Hands -> HandStates] /\ hand' = [hand EXCEPT ![h] = hand'[h]]
  <2>1. HomeTyped'
    BY HomeTypeNext DEF HomeNext
  <2>2. \E y : hand' = [hand EXCEPT ![h] = y]
    BY DEF Prepare, SetInboxStatus, RecordFeedback, Daily, Pick, HandDies, Took, Step
  <2>3. PICK y : hand' = [hand EXCEPT ![h] = y]
    BY <2>2
  <2>4. y = hand'[h]
    BY <2>3 DEF HomeTyped
  <2> QED
    BY <2>1, <2>3, <2>4 DEF HomeTyped
<1>3. NoCommand.mine = NoItems /\ NoCommand.next = "none" /\ NoCommand.at = "idle"
  BY DEF NoCommand
<1>4. CASE hand'[h] = NoCommand
  BY <1>1, <1>2, <1>3, <1>4, HandoffTells DEF Stages
<1>5. CASE hand'[h] # NoCommand
  <2>1. /\ hand'[h].next \notin {"prepared", "ready"} /\ hand'[h].at \notin Stages
        /\ hand'[h].mine = NoItems \/ hand'[h].mine = hand[h].mine
    <3>1. CASE Pick(h)
      <4>1. PICK y \in HandStates : /\ hand' = [hand EXCEPT ![h] = y] /\ y.at = "event" /\ y.next = "shown"
                                    /\ y.mine = hand[h].mine
        BY <1>2, <1>5, <3>1, PickFacts DEF HomeTyped
      <4>2. hand'[h] = y
        BY <4>1 DEF HomeTyped
      <4> QED
        BY <4>1, <4>2 DEF Stages
    <3>2. CASE HandDies(h)
      <4>1. hand'[h] = NoCommand
        BY <3>2 DEF HandDies, Step, HomeTyped
      <4> QED
        BY <1>5, <4>1
    <3>3. ASSUME NEW cmd, NEW rec, Took(h, cmd, rec)
          PROVE  hand'[h] = [rec EXCEPT !.cmd = cmd]
      BY <3>3 DEF Took, Step, HomeTyped
    <3>4. CASE \E i \in RankedIssues : Prepare(h, i)
      <4>1. PICK i \in RankedIssues : Prepare(h, i)
        BY <3>4
      <4>2. hand'[h] = [[NoCommand EXCEPT !.at = "prepare", !.issue = i] EXCEPT !.cmd = "prepare"]
        BY <3>3, <4>1 DEF Prepare
      <4> QED
        BY <4>2 DEF NoCommand, Stages
    <3>5. CASE \E i \in RankedIssues, cmd \in {"archive", "finish"} : SetInboxStatus(h, i, cmd)
      <4>1. PICK i \in RankedIssues, cmd \in {"archive", "finish"} : SetInboxStatus(h, i, cmd)
        BY <3>5
      <4> DEFINE next == IF cmd = "archive" THEN "archived" ELSE "done"
      <4>2. hand'[h] = [[NoCommand EXCEPT !.at = "load", !.issue = i, !.next = next] EXCEPT !.cmd = cmd]
        BY <3>3, <4>1 DEF SetInboxStatus
      <4>3. next \notin {"prepared", "ready"}
        OBVIOUS
      <4> HIDE DEF next
      <4> QED
        BY <4>2, <4>3 DEF NoCommand, Stages
    <3>6. CASE \E i \in RankedIssues, kind \in {"dismissed", "restored"} : RecordFeedback(h, i, kind)
      <4>1. PICK i \in RankedIssues, kind \in {"dismissed", "restored"} : RecordFeedback(h, i, kind)
        BY <3>6
      <4>2. hand'[h] = [[NoCommand EXCEPT !.at = "event", !.issue = i, !.next = kind] EXCEPT !.cmd = "feedback"]
        BY <3>3, <4>1 DEF RecordFeedback
      <4> QED
        BY <4>2 DEF NoCommand, Stages
    <3>7. CASE \E refresh \in BOOLEAN : Daily(h, refresh)
      <4>1. PICK refresh \in BOOLEAN : Daily(h, refresh)
        BY <3>7
      <4> DEFINE list == IF refresh \/ cached = NoCache THEN Displayable ELSE cached
      <4>2. hand'[h] = [[NoCommand EXCEPT !.at = "pick", !.todo = list, !.left = TopN] EXCEPT !.cmd = "daily"]
        BY <3>3, <4>1 DEF Daily
      <4> HIDE DEF list
      <4> QED
        BY <4>2 DEF NoCommand, Stages
    <3> QED
      BY <3>1, <3>2, <3>4, <3>5, <3>6, <3>7
  <2> QED
    BY <1>1, <1>2, <2>1, HandoffTells
<1> QED
  BY <1>4, <1>5
-----------------------------------------------------------------------------
(* One command at a time.                                                    *)

Only(h) == \A g \in Hands : g # h => hand[g].at = "idle"
\* What ToldOk comes to when only one command runs.
ToldBy(h) ==
  /\ log = "whole" \/ (log = "open" /\ hand[h].at = "newline")
  /\ hand[h].cmd = "finish" /\ hand[h].at = "event" => index.items[hand[h].issue] = "done"
  /\ \A i \in RankedIssues : index.items[i] = "archived" =>
       feedback[i] \in {"dismissed", "restored"} \/ Archiving(h, i)

LEMMA ToldAlone ==
  ASSUME HomeTyped, NEW h \in Hands, Only(h)
  PROVE  (ToldOk <=> ToldBy(h)) /\ ((\A g \in Hands : ListOk(g)) <=> ListOk(h))
<1>1. \A g \in Hands : g # h => hand[g].at = "idle" /\ hand[g].cmd = "none"
  BY DEF Only, HomeTyped, CommandOk
<1>2. (\E g \in Hands : hand[g].at = "newline") <=> hand[h].at = "newline"
  BY <1>1
<1>3. \A i : (\E g \in Hands : Archiving(g, i)) <=> Archiving(h, i)
  BY <1>1 DEF Archiving
<1>4. (\A g \in Hands : hand[g].cmd = "finish" /\ hand[g].at = "event" => index.items[hand[g].issue] = "done")
      <=> (hand[h].cmd = "finish" /\ hand[h].at = "event" => index.items[hand[h].issue] = "done")
  BY <1>1
<1>5. (\A g \in Hands : ListOk(g)) <=> ListOk(h)
  BY <1>1 DEF ListOk
<1> QED
  BY <1>2, <1>3, <1>4, <1>5 DEF ToldOk, ToldBy

\* A step of one command keeps both, if it keeps them for that command.
LEMMA OneMoves ==
  ASSUME HomeTyped, HomeTyped', AloneInv, ToldInv, NEW h \in Hands, hand[h].at # "idle",
         \A g \in Hands : g # h => hand'[g].at = hand[g].at,
         UNCHANGED <<overlappedHome, crashed, stale>>,
         AloneInv /\ ~overlappedHome => index'.is = "whole" /\ SavingOk(h)',
         ~overlappedHome /\ ~crashed /\ ToldBy(h) => ToldBy(h)',
         ~overlappedHome /\ ~crashed /\ ~stale /\ ToldBy(h) /\ ListOk(h) => ListOk(h)'
  PROVE  AloneInv' /\ ToldInv'
<1>1. CASE overlappedHome
  BY <1>1 DEF AloneInv, ToldInv
<1>2. CASE ~overlappedHome
  <2>1. Only(h) /\ Only(h)'
    BY <1>2 DEF AloneInv, OneBusy, Only
  <2>2. OneBusy'
    BY <2>1 DEF OneBusy, Only
  <2>3. \A g \in Hands : g # h => SavingOk(g)'
    BY <2>1 DEF Only, SavingOk
  <2>4. AloneInv'
    BY <1>2, <2>2, <2>3 DEF AloneInv
  <2>5. (ToldOk <=> ToldBy(h)) /\ ((\A g \in Hands : ListOk(g)) <=> ListOk(h))
    BY <2>1, ToldAlone
  <2>6. (ToldOk <=> ToldBy(h))' /\ ((\A g \in Hands : ListOk(g)) <=> ListOk(h))'
    <3>1. \A g \in Hands : g # h => hand'[g].at = "idle" /\ hand'[g].cmd = "none"
      BY <2>1 DEF Only, HomeTyped, CommandOk
    <3>2. (\E g \in Hands : hand'[g].at = "newline") <=> hand'[h].at = "newline"
      BY <3>1
    <3>3. \A i \in RankedIssues : (\E g \in Hands : Archiving(g, i)') <=> Archiving(h, i)'
      BY <3>1 DEF Archiving
    <3>4. (\A g \in Hands : hand'[g].cmd = "finish" /\ hand'[g].at = "event" => index'.items[hand'[g].issue] = "done")
          <=> (hand'[h].cmd = "finish" /\ hand'[h].at = "event" => index'.items[hand'[h].issue] = "done")
      BY <3>1
    <3>5. (\A g \in Hands : ListOk(g)') <=> ListOk(h)'
      BY <3>1 DEF ListOk
    <3> QED
      BY <3>2, <3>3, <3>4, <3>5 DEF ToldOk, ToldBy
  <2>7. ToldInv'
    BY <1>2, <2>5, <2>6 DEF ToldInv
  <2> QED
    BY <2>4, <2>7
<1> QED
  BY <1>1, <1>2

\* A step that leaves the index, the log and the feedback alone and says nothing.
LEMMA QuietMove ==
  ASSUME HomeTyped, HomeTyped', AloneInv, ToldInv, NEW h \in Hands, NEW y \in HandStates,
         hand' = [hand EXCEPT ![h] = y], UNCHANGED <<index, log, feedback>>,
         UNCHANGED <<overlappedHome, crashed, stale>>,
         hand[h].at \notin {"idle", "newline", "event"}, y.at \notin {"truncate", "fill", "rename"},
         y.at = "event" => y.cmd # "finish",
         y.cmd = "daily" => /\ hand[h].cmd = "daily" /\ y.todo \subseteq hand[h].todo
                            /\ y.issue \in {0, hand[h].issue} \cup hand[h].todo
  PROVE  AloneInv' /\ ToldInv'
<1>1. hand'[h] = y /\ \A g \in Hands : g # h => hand'[g] = hand[g]
  BY DEF HomeTyped
<1>2. AloneInv /\ ~overlappedHome => index'.is = "whole" /\ SavingOk(h)'
  BY <1>1 DEF AloneInv, SavingOk
<1>3. ToldBy(h) => ToldBy(h)'
  BY <1>1 DEF ToldBy, Archiving
<1>4. ListOk(h) => ListOk(h)'
  BY <1>1, HomeAssumption DEF ListOk
<1> QED
  BY <1>1, <1>2, <1>3, <1>4, OneMoves

\* A preparation that fails or ends.
LEMMA FailedMove ==
  ASSUME HomeTyped, HomeTyped', AloneInv, ToldInv, NEW h \in Hands,
         hand[h].at \notin {"idle", "pick", "newline", "event"},
         UNCHANGED <<index, log, feedback>>, UNCHANGED <<overlappedHome, crashed, stale>>,
         hand' = [hand EXCEPT ![h] = Failed(h)] \/ hand' = [hand EXCEPT ![h] = After(h)]
  PROVE  AloneInv' /\ ToldInv'
<1>1. CASE hand' = [hand EXCEPT ![h] = After(h)]
  BY <1>1, AfterIsOk, QuietMove
<1>2. CASE hand' = [hand EXCEPT ![h] = Failing(h)] /\ hand[h].cmd = "daily"
  <2> DEFINE y == Failing(h)
  <2>1. hand[h] \in HandStates
    BY DEF HomeTyped
  <2>2. y \in HandStates /\ y.at = "load" /\ y.cmd = "daily" /\ y.todo = hand[h].todo /\ y.issue = hand[h].issue
    BY <1>2, <2>1 DEF HandStates, Failing, Saving
  <2>3. hand' = [hand EXCEPT ![h] = y]
    BY <1>2
  <2> HIDE DEF y
  <2> QED
    BY <1>2, <2>2, <2>3, QuietMove
<1> QED
  BY <1>1, <1>2, FailedIsOk

LEMMA LoadMoves == ASSUME HomeTyped, HomeTyped', AloneInv, ToldInv, NEW h \in Hands, Load(h) PROVE AloneInv' /\ ToldInv'
<1>1. /\ hand[h] \in HandStates /\ CommandOk(hand[h]) /\ hand[h].at = "load"
      /\ UNCHANGED <<index, log, feedback, overlappedHome, crashed, stale>>
  BY DEF HomeTyped, Load, homeFiles, History
<1>2. CASE hand' = [hand EXCEPT ![h] = Failed(h)]
  BY <1>1, <1>2, FailedMove
<1> DEFINE items == [index.items EXCEPT ![hand[h].issue] = hand[h].next]
           y == [hand[h] EXCEPT !.at = "truncate", !.mine = items]
<1>3. CASE hand' = [hand EXCEPT ![h] = y]
  <2>1. /\ y.at = "truncate" /\ y.cmd = hand[h].cmd /\ y.issue = hand[h].issue /\ y.next = hand[h].next
        /\ y.mine = items /\ y.todo = hand[h].todo
    BY <1>1 DEF HandStates
  <2> HIDE DEF y
  <2>2. hand'[h] = y /\ \A g \in Hands : g # h => hand'[g] = hand[g]
    BY <1>3 DEF HomeTyped
  <2>3. hand'[h].mine = [index'.items EXCEPT ![hand'[h].issue] = hand'[h].next]
    BY <1>1, <2>1, <2>2
  <2>4. AloneInv /\ ~overlappedHome => index'.is = "whole" /\ SavingOk(h)'
    BY <1>1, <2>1, <2>2, <2>3 DEF AloneInv, SavingOk
  <2>5. ToldBy(h) => ToldBy(h)'
    BY <1>1, <2>1, <2>2 DEF ToldBy, Archiving
  <2>6. ListOk(h) => ListOk(h)'
    BY <1>1, <2>1, <2>2 DEF ListOk
  <2> QED
    BY <1>1, <2>2, <2>4, <2>5, <2>6, OneMoves
<1> QED
  BY <1>2, <1>3 DEF Load, Step

LEMMA WritesMove ==
  ASSUME HomeTyped, HomeTyped', AloneInv, ToldInv, NEW h \in Hands, Truncate(h) \/ Fill(h)
  PROVE  AloneInv' /\ ToldInv'
<1>1. /\ hand[h] \in HandStates /\ hand[h].at \in {"truncate", "fill"}
      /\ UNCHANGED <<log, feedback, overlappedHome, crashed, stale>>
  BY DEF HomeTyped, Truncate, Fill, History
<1>2. CASE Truncate(h)
  <2> DEFINE y == [hand[h] EXCEPT !.at = "fill", !.fd = "tmp"]
  <2>1. hand' = [hand EXCEPT ![h] = y] /\ tmp' = File("empty") /\ index' = index /\ hand[h].at = "truncate"
    BY <1>2 DEF Truncate, Step
  <2>2. /\ y.at = "fill" /\ y.fd = "tmp" /\ y.cmd = hand[h].cmd /\ y.issue = hand[h].issue /\ y.next = hand[h].next
        /\ y.mine = hand[h].mine /\ y.todo = hand[h].todo
    BY <1>1 DEF HandStates
  <2> HIDE DEF y
  <2>3. hand'[h] = y /\ \A g \in Hands : g # h => hand'[g] = hand[g]
    BY <2>1 DEF HomeTyped
  <2>4. AloneInv /\ ~overlappedHome => index'.is = "whole" /\ SavingOk(h)'
    BY <2>1, <2>2, <2>3 DEF AloneInv, SavingOk
  <2>5. ToldBy(h) => ToldBy(h)'
    BY <1>1, <2>1, <2>2, <2>3 DEF ToldBy, Archiving
  <2>6. ListOk(h) => ListOk(h)'
    BY <1>1, <2>2, <2>3 DEF ListOk
  <2> QED
    BY <1>1, <2>3, <2>4, <2>5, <2>6, OneMoves
<1>3. CASE Fill(h)
  <2> DEFINE y == [hand[h] EXCEPT !.at = "rename"]
  <2>1. hand' = [hand EXCEPT ![h] = y] /\ hand[h].at = "fill"
    BY <1>3 DEF Fill, Step
  <2>2. /\ y.at = "rename" /\ y.fd = hand[h].fd /\ y.cmd = hand[h].cmd /\ y.issue = hand[h].issue
        /\ y.next = hand[h].next /\ y.mine = hand[h].mine /\ y.todo = hand[h].todo
    BY <1>1 DEF HandStates
  <2> HIDE DEF y
  <2>3. hand'[h] = y /\ \A g \in Hands : g # h => hand'[g] = hand[g]
    BY <2>1 DEF HomeTyped
  <2>4. ASSUME ~overlappedHome PROVE index' = index /\ tmp' = Whole(hand[h].mine) /\ SavingOk(h)
    <3>1. SavingOk(h)
      BY <2>4 DEF AloneInv
    <3>2. hand[h].fd = "tmp" /\ tmp.is = "empty"
      BY <2>1, <3>1 DEF SavingOk, File
    <3>3. Written(h, tmp) = {Whole(hand[h].mine)}
      BY <3>2 DEF Written
    <3> QED
      BY <1>3, <3>1, <3>2, <3>3 DEF Fill
  <2>5. AloneInv /\ ~overlappedHome => index'.is = "whole" /\ SavingOk(h)'
    BY <2>1, <2>2, <2>3, <2>4 DEF AloneInv, SavingOk
  <2>6. ~overlappedHome /\ ToldBy(h) => ToldBy(h)'
    BY <1>1, <2>2, <2>3, <2>4 DEF ToldBy, Archiving
  <2>7. ListOk(h) => ListOk(h)'
    BY <1>1, <2>2, <2>3 DEF ListOk
  <2> QED
    BY <1>1, <2>3, <2>5, <2>6, <2>7, OneMoves
<1> QED
  BY <1>2, <1>3

\* The index becomes what the one command that saves it made of it.
LEMMA RenameMoves ==
  ASSUME HomeTyped, HomeTyped', AloneInv, ToldInv, NEW h \in Hands, Rename(h)
  PROVE  AloneInv' /\ ToldInv'
<1>1. /\ hand[h] \in HandStates /\ CommandOk(hand[h]) /\ hand[h].at = "rename"
      /\ UNCHANGED <<log, feedback, overlappedHome, crashed, stale>>
  BY DEF HomeTyped, Rename, History
<1>2. CASE tmp.is = "none"
  BY <1>1, <1>2, FailedMove DEF Rename, Step
<1>3. CASE tmp.is # "none"
  <2>1. index' = tmp
        /\ hand' = [g \in Hands |-> IF g = h THEN Saved(h) ELSE [hand[g] EXCEPT !.fd = Shift(@)]]
    BY <1>3 DEF Rename
  <2>2. hand'[h] = Saved(h) /\ \A g \in Hands : g # h => hand'[g].at = hand[g].at
    BY <2>1, ShiftIsOk
  <2>3. Saved(h).at \in {"idle", "pick", "event"}
    BY <1>1, SavedIsOk, AfterIsOk
  <2>4. ASSUME ~overlappedHome
        PROVE  index'.is = "whole" /\ index'.items = [index.items EXCEPT ![hand[h].issue] = hand[h].next]
    <3>1. tmp = Whole(hand[h].mine) /\ hand[h].mine = [index.items EXCEPT ![hand[h].issue] = hand[h].next]
      BY <1>1, <2>4 DEF AloneInv, SavingOk
    <3> QED
      BY <2>1, <3>1 DEF Whole
  <2>5. AloneInv /\ ~overlappedHome => index'.is = "whole" /\ SavingOk(h)'
    BY <2>2, <2>3, <2>4 DEF SavingOk
  <2>6. hand[h].issue \in RankedIssues /\ index.items \in [RankedIssues -> ItemStatuses]
    BY <1>1 DEF CommandOk, HandStates, HomeTyped, FileTexts, ItemMaps
  <2>7. /\ hand[h].cmd \notin {"archive", "finish"} => Saved(h) = After(h)
        /\ hand[h].cmd = "archive" => hand[h].next = "archived"
        /\ hand[h].cmd = "finish" => hand[h].next = "done"
        /\ hand[h].next = "archived" => hand[h].cmd = "archive"
    BY <1>1 DEF CommandOk, HandStates, Saving, Telling, Saved
  <2>8. hand[h].cmd \in {"archive", "finish"} =>
          Saved(h).at = "event" /\ Saved(h).cmd = hand[h].cmd /\ Saved(h).issue = hand[h].issue
    BY <1>1 DEF Saved, HandStates
  <2>9. ASSUME ~overlappedHome, ToldBy(h) PROVE ToldBy(h)'
    <3>1. log' = "whole"
      BY <1>1, <2>9 DEF ToldBy
    <3>2. hand'[h].cmd = "finish" /\ hand'[h].at = "event" => index'.items[hand'[h].issue] = "done"
      BY <1>1, <2>2, <2>4, <2>6, <2>7, <2>8, <2>9, AfterIsOk
    <3>3. ASSUME NEW i \in RankedIssues, index'.items[i] = "archived"
          PROVE  feedback'[i] \in {"dismissed", "restored"} \/ Archiving(h, i)'
      <4>1. CASE i = hand[h].issue
        BY <2>2, <2>4, <2>6, <2>7, <2>8, <2>9, <3>3, <4>1 DEF Archiving
      <4>2. CASE i # hand[h].issue
        <5>1. index.items[i] = "archived"
          BY <2>4, <2>6, <2>9, <3>3, <4>2
        <5> QED
          BY <1>1, <2>9, <5>1 DEF ToldBy, Archiving
      <4> QED
        BY <4>1, <4>2
    <3> QED
      BY <3>1, <3>2, <3>3 DEF ToldBy
  <2>10. ASSUME ListOk(h) PROVE ListOk(h)'
    <3>1. hand'[h].cmd = "daily" =>
            hand[h].cmd = "daily" /\ hand'[h].todo = hand[h].todo /\ hand'[h].issue = 0
      BY <2>2, <2>7, <2>8, AfterIsOk
    <3> QED
      BY <1>1, <2>10, <3>1, HomeAssumption DEF ListOk
  <2> QED
    BY <1>1, <2>2, <2>5, <2>9, <2>10, OneMoves
<1> QED
  BY <1>2, <1>3

\* What the user archived is told to the feedback before its command ends.
LEMMA TellingMoves ==
  ASSUME HomeTyped, HomeTyped', AloneInv, ToldInv, NEW h \in Hands, WriteLine(h) \/ EndLine(h)
  PROVE  AloneInv' /\ ToldInv'
<1>0. PICK k : k = hand[h].issue
  OBVIOUS
<1>1. /\ hand[h] \in HandStates /\ CommandOk(hand[h]) /\ hand[h].at \in Telling
      /\ UNCHANGED <<index, overlappedHome, crashed, stale>>
  BY DEF HomeTyped, WriteLine, EndLine, Telling, History
<1>2. hand[h].at \in {"event", "newline"} /\ k \in RankedIssues
  BY <1>0, <1>1 DEF Telling, CommandOk, HandStates
<1>3. CASE WriteLine(h)
  <2> DEFINE y == [hand[h] EXCEPT !.at = "newline"]
  <2>1. hand' = [hand EXCEPT ![h] = y] /\ hand[h].at = "event"
    BY <1>3 DEF WriteLine, Step
  <2>2. /\ y.at = "newline" /\ y.cmd = hand[h].cmd /\ y.issue = k /\ y.todo = hand[h].todo
    BY <1>0, <1>1 DEF HandStates
  <2> HIDE DEF y
  <2>3. hand'[h] = y /\ \A g \in Hands : g # h => hand'[g] = hand[g]
    BY <2>1 DEF HomeTyped
  <2>4. AloneInv /\ ~overlappedHome => index'.is = "whole" /\ SavingOk(h)'
    BY <1>1, <2>2, <2>3 DEF AloneInv, SavingOk
  <2>5. /\ \A i \in RankedIssues : i # k => feedback'[i] = feedback[i]
        /\ hand[h].next \in {"dismissed", "done", "restored"} => feedback'[k] = hand[h].next
        /\ hand[h].next \notin {"dismissed", "done", "restored"} => feedback' = feedback
    BY <1>0, <1>2, <1>3 DEF WriteLine, HomeTyped
  <2>6. /\ hand[h].cmd \in {"archive", "finish", "feedback", "prepare", "daily"}
        /\ hand[h].cmd = "archive" => hand[h].next = "dismissed"
        /\ hand[h].cmd = "finish" => hand[h].next = "done"
        /\ hand[h].cmd = "feedback" => hand[h].next \in {"dismissed", "restored"}
        /\ hand[h].cmd \in {"prepare", "daily"} => hand[h].next \in {"shown", "prepared"}
    BY <1>1 DEF CommandOk, HandStates, Saving, Telling
  <2>7. ASSUME ToldBy(h) PROVE ToldBy(h)'
    <3>1. log' = "open" /\ hand'[h].at = "newline"
      BY <1>3, <2>1, <2>2, <2>3, <2>7 DEF ToldBy, WriteLine
    <3>2. ASSUME NEW i \in RankedIssues, index.items[i] = "archived"
          PROVE  feedback'[i] \in {"dismissed", "restored"}
      <4>1. CASE i # k
        BY <1>0, <2>5, <2>7, <3>2, <4>1 DEF ToldBy, Archiving
      <4>2. CASE i = k /\ hand[h].cmd \in {"archive", "feedback"}
        BY <2>5, <2>6, <4>2
      <4>3. CASE i = k /\ hand[h].cmd = "finish"
        BY <1>0, <2>1, <2>7, <3>2, <4>3 DEF ToldBy
      <4>4. CASE i = k /\ hand[h].cmd \in {"prepare", "daily"}
        BY <2>5, <2>6, <2>7, <3>2, <4>4 DEF ToldBy, Archiving
      <4> QED
        BY <2>6, <4>1, <4>2, <4>3, <4>4
    <3> QED
      BY <1>1, <3>1, <3>2 DEF ToldBy
  <2>8. ListOk(h) => ListOk(h)'
    BY <1>0, <2>2, <2>3, <2>5, <2>6 DEF ListOk
  <2> QED
    BY <1>1, <2>1, <2>3, <2>4, <2>7, <2>8, OneMoves
<1>4. CASE EndLine(h)
  <2> DEFINE y == [hand[h] EXCEPT !.at = "prepare"]
             z == [hand[h] EXCEPT !.at = "load", !.next = "ready"]
  <2>1. /\ hand[h].at = "newline" /\ feedback' = feedback /\ (log \in {"open", "whole"} => log' = "whole")
        /\ \/ hand' = [hand EXCEPT ![h] = y] \/ hand' = [hand EXCEPT ![h] = z]
           \/ hand' = [hand EXCEPT ![h] = After(h)]
    BY <1>4 DEF EndLine, Step
  <2>2. y.at = "prepare" /\ y.cmd = hand[h].cmd /\ y.issue = k /\ y.todo = hand[h].todo
    BY <1>0, <1>1 DEF HandStates
  <2>3. z.at = "load" /\ z.cmd = hand[h].cmd /\ z.issue = k /\ z.todo = hand[h].todo
    BY <1>0, <1>1 DEF HandStates
  <2> HIDE DEF y, z
  <2>4. /\ hand'[h] \in {y, z, After(h)} /\ \A g \in Hands : g # h => hand'[g] = hand[g]
    BY <2>1 DEF HomeTyped
  <2>5. hand'[h].at \in {"prepare", "load", "idle", "pick"}
    BY <2>2, <2>3, <2>4, AfterIsOk
  <2>6. hand'[h].cmd = "daily" =>
          hand[h].cmd = "daily" /\ hand'[h].todo = hand[h].todo /\ hand'[h].issue \in {0, k}
    BY <2>2, <2>3, <2>4, AfterIsOk
  <2>7. AloneInv /\ ~overlappedHome => index'.is = "whole" /\ SavingOk(h)'
    BY <1>1, <2>5 DEF AloneInv, SavingOk
  <2>8. ToldBy(h) => ToldBy(h)'
    BY <1>1, <2>1, <2>5 DEF ToldBy, Archiving
  <2>9. ListOk(h) => ListOk(h)'
    BY <1>0, <2>1, <2>6, HomeAssumption DEF ListOk
  <2> QED
    BY <1>1, <2>1, <2>4, <2>7, <2>8, <2>9, OneMoves
<1> QED
  BY <1>3, <1>4

LEMMA PreparingMoves ==
  ASSUME HomeTyped, HomeTyped', AloneInv, ToldInv, NEW h \in Hands,
         BeginPrepare(h) \/ PrepareWorkspace(h) \/ WriteHandoffFiles(h) \/ WriteSnapshotFile(h)
  PROVE  AloneInv' /\ ToldInv'
<1>1. /\ hand[h] \in HandStates /\ CommandOk(hand[h]) /\ hand[h].at \in {"prepare"} \cup Stages
      /\ UNCHANGED <<index, log, feedback, overlappedHome, crashed, stale>>
  BY DEF HomeTyped, BeginPrepare, PrepareWorkspace, WriteHandoffFiles, WriteSnapshotFile, Stages, History, homeFiles
<1>2. hand[h].cmd \in {"prepare", "daily"} /\ hand[h].at \notin {"idle", "pick", "newline", "event"}
  BY <1>1 DEF CommandOk, HandStates, Saving, Telling, Stages
<1> DEFINE run == begun + 1
           u == [hand[h] EXCEPT !.at = "workspace", !.run = run]
           v == [hand[h] EXCEPT !.at = "load", !.next = "failed"]
           w == [hand[h] EXCEPT !.at = "files"]
           y == [hand[h] EXCEPT !.at = "snapshot"]
           z == [hand[h] EXCEPT !.at = "event", !.next = "prepared"]
<1>3. run \in Nat
  BY DEF HomeTyped
<1>4. \/ hand' = [hand EXCEPT ![h] = u] \/ hand' = [hand EXCEPT ![h] = v] \/ hand' = [hand EXCEPT ![h] = w]
      \/ hand' = [hand EXCEPT ![h] = y] \/ hand' = [hand EXCEPT ![h] = z]
      \/ hand' = [hand EXCEPT ![h] = Failed(h)] \/ hand' = [hand EXCEPT ![h] = After(h)]
  BY DEF BeginPrepare, PrepareWorkspace, WriteHandoffFiles, WriteSnapshotFile, WorkspaceOutcomes, Step
<1> HIDE DEF run
<1>5. \A x \in {u, v, w, y, z} :
        /\ x \in HandStates /\ x.at \in {"workspace", "load", "files", "snapshot", "event"} /\ x.cmd = hand[h].cmd
        /\ x.todo = hand[h].todo /\ x.issue = hand[h].issue
  <2>1. u \in HandStates /\ u.at = "workspace" /\ u.cmd = hand[h].cmd /\ u.todo = hand[h].todo /\ u.issue = hand[h].issue
    BY <1>1, <1>3 DEF HandStates, Stages
  <2>2. v \in HandStates /\ v.at = "load" /\ v.cmd = hand[h].cmd /\ v.todo = hand[h].todo /\ v.issue = hand[h].issue
    BY <1>1 DEF HandStates, Saving
  <2>3. w \in HandStates /\ w.at = "files" /\ w.cmd = hand[h].cmd /\ w.todo = hand[h].todo /\ w.issue = hand[h].issue
    BY <1>1 DEF HandStates, Stages
  <2>4. y \in HandStates /\ y.at = "snapshot" /\ y.cmd = hand[h].cmd /\ y.todo = hand[h].todo /\ y.issue = hand[h].issue
    BY <1>1 DEF HandStates, Stages
  <2>5. z \in HandStates /\ z.at = "event" /\ z.cmd = hand[h].cmd /\ z.todo = hand[h].todo /\ z.issue = hand[h].issue
    BY <1>1 DEF HandStates, Telling
  <2> HIDE DEF u, v, w, y, z
  <2> QED
    BY <2>1, <2>2, <2>3, <2>4, <2>5
<1> HIDE DEF u, v, w, y, z
<1>6. CASE hand' = [hand EXCEPT ![h] = Failed(h)] \/ hand' = [hand EXCEPT ![h] = After(h)]
  BY <1>1, <1>2, <1>6, FailedMove
<1>7. ASSUME NEW x \in {u, v, w, y, z}, hand' = [hand EXCEPT ![h] = x]
      PROVE  AloneInv' /\ ToldInv'
  <2>1. /\ x \in HandStates /\ x.at \in {"workspace", "load", "files", "snapshot", "event"} /\ x.cmd = hand[h].cmd
        /\ x.todo = hand[h].todo /\ x.issue = hand[h].issue
    BY <1>5
  <2> QED
    BY <1>1, <1>2, <1>7, <2>1, QuietMove
<1> QED
  BY <1>4, <1>6, <1>7

LEMMA PickMoves == ASSUME HomeTyped, HomeTyped', AloneInv, ToldInv, NEW h \in Hands, Pick(h) PROVE AloneInv' /\ ToldInv'
<1>1. hand[h].at = "pick" /\ hand[h].cmd = "daily" /\ UNCHANGED <<index, log, feedback, overlappedHome, crashed, stale>>
  BY DEF Pick, HomeTyped, CommandOk, homeFiles, History
<1>2. CASE hand' = [hand EXCEPT ![h] = NoCommand]
  <2>1. NoCommand \in HandStates /\ NoCommand.at = "idle" /\ NoCommand.cmd = "none"
    BY NothingIsTyped DEF NoCommand
  <2> QED
    BY <1>1, <1>2, <2>1, QuietMove
<1>3. CASE hand' # [hand EXCEPT ![h] = NoCommand]
  <2>1. PICK i \in hand[h].todo, y \in HandStates :
           /\ hand' = [hand EXCEPT ![h] = y] /\ y.at = "event" /\ y.issue = i
           /\ y.todo \subseteq hand[h].todo /\ y.cmd = hand[h].cmd
    BY <1>3, PickFacts
  <2> QED
    BY <1>1, <2>1, QuietMove
<1> QED
  BY <1>2, <1>3

\* A command that begins when no other runs has everything to itself.
LEMMA TakeMoves ==
  ASSUME HomeTyped, HomeTyped', AloneInv, ToldInv, NEW h \in Hands, NEW cmd, NEW rec, Took(h, cmd, rec),
         UNCHANGED <<index, log, feedback, crashed>>, stale => stale',
         rec.at \in {"prepare", "load", "pick", "event"}, hand'[h].at = rec.at,
         rec.at = "event" => hand'[h].cmd # "finish",
         ~overlappedHome' /\ ~crashed /\ ~stale' /\ log = "whole" /\ hand'[h].cmd = "daily" =>
           ListOk(h)'
  PROVE  AloneInv' /\ ToldInv'
<1>1. CASE overlappedHome'
  BY <1>1 DEF AloneInv, ToldInv
<1>2. CASE ~overlappedHome'
  <2>1. \A g \in Hands : hand[g].at = "idle"
    BY <1>2, TookFacts
  <2>2. ~overlappedHome
    BY <1>2, TookFacts
  <2>3. \A g \in Hands : g # h => hand'[g].at = "idle" /\ hand'[g].cmd = "none"
    BY <2>1 DEF Took, Step, HomeTyped, CommandOk
  <2>4. OneBusy'
    BY <2>3 DEF OneBusy
  <2>5. \A g \in Hands : SavingOk(g)'
    BY <2>3 DEF SavingOk
  <2>6. AloneInv'
    BY <2>2, <2>4, <2>5 DEF AloneInv
  <2>7. ASSUME ~crashed PROVE ToldOk' /\ log = "whole"
    <3>1. log = "whole"
      BY <2>1, <2>2, <2>7 DEF ToldInv, ToldOk
    <3>2. \A g \in Hands, i \in RankedIssues : ~Archiving(g, i)
      BY <2>1 DEF Archiving
    <3>3. \A i \in RankedIssues : index.items[i] = "archived" => feedback[i] \in {"dismissed", "restored"}
      BY <2>2, <2>7, <3>2 DEF ToldInv, ToldOk
    <3>4. \A g \in Hands : ~(hand'[g].cmd = "finish" /\ hand'[g].at = "event")
      BY <2>3
    <3> QED
      BY <3>1, <3>3, <3>4 DEF ToldOk
  <2>8. ASSUME ~crashed, ~stale' PROVE \A g \in Hands : ListOk(g)'
    <3>1. ListOk(h)'
      BY <1>2, <2>7, <2>8 DEF ListOk
    <3> QED
      BY <2>3, <3>1 DEF ListOk
  <2>9. ToldInv'
    BY <2>7, <2>8 DEF ToldInv
  <2> QED
    BY <2>6, <2>9
<1> QED
  BY <1>1, <1>2

LEMMA TakingMoves ==
  ASSUME HomeTyped, HomeTyped', AloneInv, ToldInv, NEW h \in Hands,
         \/ \E i \in RankedIssues :
              \/ Prepare(h, i)
              \/ \E cmd \in {"archive", "finish"} : SetInboxStatus(h, i, cmd)
              \/ \E kind \in {"dismissed", "restored"} : RecordFeedback(h, i, kind)
         \/ \E refresh \in BOOLEAN : Daily(h, refresh)
  PROVE  AloneInv' /\ ToldInv'
<1>0. ASSUME NEW cmd, NEW rec, Took(h, cmd, rec)
      PROVE  hand'[h] = [rec EXCEPT !.cmd = cmd]
  BY <1>0 DEF Took, Step, HomeTyped
<1>1. ASSUME NEW i \in RankedIssues, Prepare(h, i) PROVE AloneInv' /\ ToldInv'
  <2> DEFINE rec == [NoCommand EXCEPT !.at = "prepare", !.issue = i]
  <2>1. Took(h, "prepare", rec) /\ UNCHANGED <<index, log, feedback, crashed, stale>>
    BY <1>1 DEF Prepare, homeFiles
  <2>2. rec.at = "prepare" /\ [rec EXCEPT !.cmd = "prepare"].at = "prepare" /\ [rec EXCEPT !.cmd = "prepare"].cmd = "prepare"
    BY DEF NoCommand
  <2>3. hand'[h] = [rec EXCEPT !.cmd = "prepare"]
    BY <1>0, <2>1
  <2> HIDE DEF rec
  <2> QED
    BY <2>1, <2>2, <2>3, TakeMoves
<1>2. ASSUME NEW i \in RankedIssues, NEW cmd \in {"archive", "finish"}, SetInboxStatus(h, i, cmd)
      PROVE  AloneInv' /\ ToldInv'
  <2> DEFINE next == IF cmd = "archive" THEN "archived" ELSE "done"
             rec == [NoCommand EXCEPT !.at = "load", !.issue = i, !.next = next]
  <2>1. Took(h, cmd, rec) /\ UNCHANGED <<index, log, feedback, crashed, stale>>
    BY <1>2 DEF SetInboxStatus, homeFiles
  <2> HIDE DEF next
  <2>2. rec.at = "load" /\ [rec EXCEPT !.cmd = cmd].at = "load" /\ [rec EXCEPT !.cmd = cmd].cmd = cmd
    BY DEF NoCommand
  <2>3. hand'[h] = [rec EXCEPT !.cmd = cmd]
    BY <1>0, <2>1
  <2> HIDE DEF rec
  <2> QED
    BY <2>1, <2>2, <2>3, TakeMoves
<1>3. ASSUME NEW i \in RankedIssues, NEW kind \in {"dismissed", "restored"}, RecordFeedback(h, i, kind)
      PROVE  AloneInv' /\ ToldInv'
  <2> DEFINE rec == [NoCommand EXCEPT !.at = "event", !.issue = i, !.next = kind]
  <2>1. Took(h, "feedback", rec) /\ UNCHANGED <<index, log, feedback, crashed, stale>>
    BY <1>3 DEF RecordFeedback, homeFiles
  <2>2. rec.at = "event" /\ [rec EXCEPT !.cmd = "feedback"].at = "event" /\ [rec EXCEPT !.cmd = "feedback"].cmd = "feedback"
    BY DEF NoCommand
  <2>3. hand'[h] = [rec EXCEPT !.cmd = "feedback"]
    BY <1>0, <2>1
  <2> HIDE DEF rec
  <2> QED
    BY <2>1, <2>2, <2>3, TakeMoves
<1>4. ASSUME NEW refresh \in BOOLEAN, Daily(h, refresh) PROVE AloneInv' /\ ToldInv'
  <2> DEFINE list == IF refresh \/ cached = NoCache THEN Displayable ELSE cached
             rec == [NoCommand EXCEPT !.at = "pick", !.todo = list, !.left = TopN]
  <2>1. /\ Took(h, "daily", rec) /\ UNCHANGED <<index, log, feedback, crashed>>
        /\ stale' = (stale \/ list # Displayable)
    BY <1>4 DEF Daily
  <2>2. stale \in BOOLEAN
    BY DEF HomeTyped
  <2>3. stale => stale'
    BY <2>1, <2>2
  <2>4. ~stale' => list = Displayable
    BY <2>1, <2>2
  <2> HIDE DEF list
  <2>5. /\ rec.at = "pick" /\ [rec EXCEPT !.cmd = "daily"].at = "pick" /\ [rec EXCEPT !.cmd = "daily"].cmd = "daily"
        /\ [rec EXCEPT !.cmd = "daily"].todo = list /\ [rec EXCEPT !.cmd = "daily"].issue = 0
    BY DEF NoCommand
  <2>6. hand'[h] = [rec EXCEPT !.cmd = "daily"]
    BY <1>0, <2>1
  <2> HIDE DEF rec
  <2>7. ASSUME ~stale', log = "whole" PROVE ListOk(h)'
    <3>1. \A i \in list : feedback[i] \notin {"done", "dismissed"}
      BY <2>4, <2>7 DEF Displayable
    <3> QED
      BY <2>1, <2>5, <2>6, <3>1, HomeAssumption DEF ListOk
  <2> QED
    BY <2>1, <2>3, <2>5, <2>6, <2>7, TakeMoves
<1> QED
  BY <1>1, <1>2, <1>3, <1>4

\* A command that dies leaves a temporary file at most.
LEMMA DyingMoves ==
  ASSUME HomeTyped, HomeTyped', AloneInv, ToldInv, NEW h \in Hands, HandDies(h)
  PROVE  AloneInv' /\ ToldInv'
<1>1. hand' = [hand EXCEPT ![h] = NoCommand] /\ UNCHANGED <<index, tmp, overlappedHome>> /\ crashed' = TRUE
  BY DEF HandDies, Step, homeFiles
<1>2. hand'[h].at = "idle" /\ \A g \in Hands : g # h => hand'[g] = hand[g]
  BY <1>1 DEF HomeTyped, NoCommand
<1>3. OneBusy => OneBusy'
  BY <1>2 DEF OneBusy
<1>4. \A g \in Hands : SavingOk(g) => SavingOk(g)'
  BY <1>1, <1>2 DEF SavingOk
<1> QED
  BY <1>1, <1>3, <1>4 DEF AloneInv, ToldInv
-----------------------------------------------------------------------------
LEMMA HomeStep == HomeInv /\ [HomeNext]_homeVars => HomeInv'
<1> SUFFICES ASSUME HomeInv, [HomeNext]_homeVars PROVE HomeInv'
  OBVIOUS
<1> USE DEF HomeInv
<1>1. HomeTyped'
  BY HomeTypeNext
<1>2. CASE UNCHANGED homeVars
  <2>1. HandoffInv'
    BY <1>2 DEF homeVars, homeFiles, HandoffInv, HandoffOne, Marked, Says, Stage, Verified
  <2>2. AloneInv'
    BY <1>2 DEF homeVars, homeFiles, AloneInv, OneBusy, SavingOk
  <2>3. ToldInv'
    BY <1>2 DEF homeVars, homeFiles, ToldInv, ToldOk, ListOk, Archiving
  <2> QED
    BY <1>1, <2>1, <2>2, <2>3
<1>3. CASE HomeNext
  <2>1. PICK h \in Hands :
          \/ Load(h) \/ Truncate(h) \/ Fill(h) \/ Rename(h) \/ WriteLine(h) \/ EndLine(h)
          \/ BeginPrepare(h) \/ PrepareWorkspace(h) \/ WriteHandoffFiles(h) \/ WriteSnapshotFile(h)
          \/ \/ \E i \in RankedIssues :
                  \/ Prepare(h, i)
                  \/ \E cmd \in {"archive", "finish"} : SetInboxStatus(h, i, cmd)
                  \/ \E kind \in {"dismissed", "restored"} : RecordFeedback(h, i, kind)
             \/ \E refresh \in BOOLEAN : Daily(h, refresh)
          \/ Pick(h) \/ HandDies(h)
    BY <1>3 DEF HomeNext
  <2>2. HandoffInv'
    BY <2>1, LoadKeepsHandoffs, WritesKeepHandoffs, RenameKeepsHandoffs, TellingKeepsHandoffs, BeginKeepsHandoffs,
       StagesKeepHandoffs, FilesKeepHandoffs, SnapshotKeepsHandoffs, TakingKeepsHandoffs
  <2>3. AloneInv' /\ ToldInv'
    BY <1>1, <2>1, LoadMoves, WritesMove, RenameMoves, TellingMoves, PreparingMoves, TakingMoves, PickMoves, DyingMoves
  <2> QED
    BY <1>1, <2>2, <2>3
<1> QED
  BY <1>2, <1>3

LEMMA HomeAgrees == HomeInv => HomeIsConsistent
<1> SUFFICES ASSUME HomeInv PROVE HomeIsConsistent
  OBVIOUS
<1> USE DEF HomeInv
<1>1. IndexIsReadable
  BY DEF AloneInv, IndexIsReadable
<1>2. ReadyHandoffsVerify
  BY DEF HandoffInv, HandoffOne, Marked, Verified, ReadyHandoffsVerify
<1>3. ASSUME ~overlappedHome, ~crashed, ~stale, NEW i \in Preparing, index.items[i] = "archived"
      PROVE  feedback[i] = "restored"
  <2>1. PICK h \in Hands : hand[h].cmd = "daily" /\ hand[h].at = "prepare" /\ hand[h].issue = i
    BY DEF Preparing
  <2>2. i \in RankedIssues
    BY <2>1 DEF HomeTyped, CommandOk, HandStates
  <2>3. \A g \in Hands : ~Archiving(g, i)
    BY <1>3, <2>1 DEF AloneInv, OneBusy, Archiving
  <2>4. feedback[i] \in {"dismissed", "restored"}
    BY <1>3, <2>2, <2>3 DEF ToldInv, ToldOk
  <2>5. feedback[i] # "dismissed"
    BY <1>3, <2>1, <2>2 DEF ToldInv, ListOk
  <2> QED
    BY <2>4, <2>5
<1> QED
  BY <1>1, <1>2, <1>3 DEF ArchivedStaysAway, HomeIsConsistent

\* The files of one user's commands agree: with no two commands overlapping the index
\* can be read wherever one died, a ready item prepared once can be imported whatever
\* overlapped, and what was archived stays away from the daily workflow
\* (inbox.rs, workflow.rs, handoff.rs, context_snapshot.rs).
THEOREM HomeFilesAgree == HomeSpec => []HomeIsConsistent
<1>1. HomeInit => HomeInv
  BY HomeStarts
<1>2. HomeInv /\ [HomeNext]_homeVars => HomeInv'
  BY HomeStep
<1>3. HomeInv => HomeIsConsistent
  BY HomeAgrees
<1> QED
  BY <1>1, <1>2, <1>3, PTL DEF HomeSpec

\* As long as no two commands overlap, no item of the index is ever lost, wherever a
\* command died: atomic_write swaps whole files, and an update starts from all that
\* it read (inbox.rs, paths.rs).
THEOREM HomeItemsAreKept == HomeSpec => ItemsAreKept
<1> DEFINE Kept == ~overlappedHome' => \A i \in RankedIssues : index.items[i] # "absent" => index'.items[i] # "absent"
<1>1. HomeInit => HomeInv
  BY HomeStarts
<1>2. HomeInv /\ [HomeNext]_homeVars => HomeInv'
  BY HomeStep
<1>3. ASSUME HomeInv, [HomeNext]_homeVars PROVE [Kept]_homeVars
  <2> SUFFICES ASSUME ~overlappedHome', index' # index
               PROVE  \A i \in RankedIssues : index.items[i] # "absent" => index'.items[i] # "absent"
    OBVIOUS
  <2>1. PICK h \in Hands : Fill(h) \/ Rename(h)
    BY <1>3 DEF HomeNext, homeVars, homeFiles, Load, Truncate, WriteLine, EndLine, BeginPrepare, PrepareWorkspace,
       WriteHandoffFiles, WriteSnapshotFile, Prepare, SetInboxStatus, RecordFeedback, Daily, Pick, HandDies
  <2>2. ~overlappedHome /\ SavingOk(h)
    BY <1>3, <2>1 DEF Fill, Rename, History, HomeInv, AloneInv
  <2>3. CASE Fill(h)
    BY <2>2, <2>3 DEF Fill, SavingOk
  <2>4. CASE Rename(h)
    <3>1. hand[h].at = "rename" /\ index' = tmp
      BY <2>4 DEF Rename
    <3>2. index'.items = [index.items EXCEPT ![hand[h].issue] = hand[h].next]
      BY <2>2, <3>1 DEF SavingOk, Whole
    <3>3. hand[h].next # "absent" /\ index.items \in [RankedIssues -> ItemStatuses]
      BY <1>3 DEF HomeInv, HomeTyped, HandStates, FileTexts, ItemMaps
    <3> QED
      BY <3>2, <3>3
  <2> QED
    BY <2>1, <2>3, <2>4
<1> QED
  BY <1>1, <1>2, <1>3, PTL DEF HomeSpec, ItemsAreKept

-----------------------------------------------------------------------------
(* What recalling a memory does to it.                                       *)

Node(rec) == Head(rec.left).node
MemoryStates == [strength : Nat, resource : Nat, recalls : Nat, reinforcements : Nat]
Places == {"rest", "item", "store", "record", "edge", "edge_store", "edge_record"}
ReaderOk(rec) ==
  /\ rec \in [at : Places, run : {rec.run}, left : {rec.left}, act : {rec.act}, mine : {rec.mine}, gains : Nat]
  /\ rec.at \in {"store", "record"} => rec.act \in 1 .. 3
  /\ rec.at \in {"store", "record"} /\ Node(rec) \in Memories => rec.mine \in MemoryStates
RecallTyped ==
  /\ state \in [Memories -> MemoryStates] /\ edgeGains \in Nat /\ IsFiniteSet(records)
  /\ reader = [r \in Readers |-> reader[r]] /\ \A r \in Readers : ReaderOk(reader[r])
  /\ deaths \in Nat /\ overlappedRecall \in BOOLEAN

\* What is stored and not recorded yet.
Untold(n, act) ==
  IF \E r \in Readers : reader[r].at = "record" /\ reader[r].act = act /\ Node(reader[r]) = n THEN 1 ELSE 0
UntoldEdge(n) == IF \E r \in Readers : reader[r].at = "edge_record" /\ Node(reader[r]) = n THEN 1 ELSE 0
Counted(n) ==
  /\ Rows(n, "recalled") + Untold(n, 1) <= state[n].recalls
  /\ state[n].recalls <= Rows(n, "recalled") + deaths + Untold(n, 1)
  /\ Rows(n, "reinforced") + Untold(n, 3) <= state[n].reinforcements
  /\ state[n].reinforcements <= Rows(n, "reinforced") + deaths + Untold(n, 3)
  /\ Rows(n, "edge") + UntoldEdge(n) <= edgeGains
\* A writeback that nothing overlaps has what is stored in its hands.
HasItsOwn(rec) ==
  /\ rec.at \in {"store", "record"} /\ Node(rec) \in Memories => rec.mine = state[Node(rec)]
  /\ rec.at = "record" => Row(rec) \notin records
  /\ rec.at = "edge_store" => rec.gains = edgeGains
AloneRecall ==
  ~overlappedRecall =>
    /\ \A r, s \in Readers : reader[r] # AtRest /\ reader[s] # AtRest => r = s
    /\ \A r \in Readers : HasItsOwn(reader[r])
    /\ \A n \in Memories : Counted(n)
RecallInv == RecallTyped /\ AloneRecall

LEMMA RestIsTyped == ReaderOk(AtRest) /\ AtRest.at = "rest" /\ Fresh \in MemoryStates
  BY DEF AtRest, ReaderOk, Places, Fresh, MemoryStates

\* A writeback goes on with the next item, or with the next action of this one.
LEMMA NextItemIsOk == \A rec : ReaderOk(NextItem(rec)) /\ NextItem(rec).at \in {"rest", "item"}
<1> SUFFICES ASSUME NEW rec PROVE ReaderOk(NextItem(rec)) /\ NextItem(rec).at \in {"rest", "item"}
  OBVIOUS
<1>1. PICK base : base = AtRest /\ ReaderOk(base)
  BY RestIsTyped
<1>2. PICK run, rest : run = rec.run /\ rest = Tail(rec.left)
  OBVIOUS
<1> DEFINE y == [base EXCEPT !.at = "item", !.run = run, !.left = rest]
<1>3. y \in [at : {"item"}, run : {run}, left : {rest}, act : {base.act}, mine : {base.mine}, gains : Nat]
  BY <1>1 DEF ReaderOk
<1>4. NextItem(rec) = AtRest \/ NextItem(rec) = y
  BY <1>1, <1>2 DEF NextItem
<1> HIDE DEF y
<1>5. ReaderOk(y) /\ y.at = "item"
  BY <1>3 DEF ReaderOk, Places
<1> QED
  BY <1>4, <1>5, RestIsTyped

LEMMA OnWithIsOk ==
  ASSUME NEW rec, ReaderOk(rec), rec.at \in {"store", "record"}
  PROVE  /\ ReaderOk(OnWith(rec))
         /\ \/ OnWith(rec).at \in {"edge", "rest", "item"}
            \/ OnWith(rec).at = "store" /\ OnWith(rec).left = rec.left /\ OnWith(rec).mine = rec.mine
<1> DEFINE more == rec.act = 1 \/ (rec.act = 2 /\ CanReinforce(Head(rec.left)))
           act == rec.act + 1
           y == [rec EXCEPT !.at = "store", !.act = act]
           z == [rec EXCEPT !.at = "edge"]
<1>0. OnWith(rec) = IF more THEN y ELSE IF rec.act = 3 /\ Head(rec.left).ripple THEN z ELSE NextItem(rec)
  BY DEF OnWith
<1>1. CASE more
  <2>1. rec.act \in {1, 2} /\ act \in 1 .. 3
    BY <1>1
  <2> HIDE DEF act
  <2>2. /\ y \in [at : {"store"}, run : {rec.run}, left : {rec.left}, act : {act}, mine : {rec.mine}, gains : Nat]
        /\ y.at = "store" /\ y.left = rec.left /\ y.mine = rec.mine /\ y.act = act
    BY DEF ReaderOk
  <2> HIDE DEF y
  <2>3. ReaderOk(y)
    BY <2>1, <2>2 DEF ReaderOk, Places, Node
  <2> QED
    BY <1>0, <1>1, <2>2, <2>3
<1>2. CASE ~more /\ rec.act = 3 /\ Head(rec.left).ripple
  <2>1. z \in [at : {"edge"}, run : {rec.run}, left : {rec.left}, act : {rec.act}, mine : {rec.mine}, gains : Nat]
    BY DEF ReaderOk
  <2> HIDE DEF z
  <2>2. ReaderOk(z) /\ z.at = "edge"
    BY <2>1 DEF ReaderOk, Places
  <2> QED
    BY <1>0, <1>2, <2>2
<1>3. CASE ~more /\ ~(rec.act = 3 /\ Head(rec.left).ripple)
  <2>1. OnWith(rec) = NextItem(rec)
    BY <1>0, <1>3
  <2> QED
    BY <2>1, NextItemIsOk
<1> QED
  BY <1>1, <1>2, <1>3

\* What an action does to the state of a node.
LEMMA AppliedIsOk ==
  ASSUME NEW s \in MemoryStates, NEW act \in 1 .. 3
  PROVE  /\ Applied(s, act) \in MemoryStates
         /\ Applied(s, act).recalls = IF act = 1 THEN s.recalls + 1 ELSE s.recalls
         /\ Applied(s, act).reinforcements = IF act = 3 THEN s.reinforcements + 1 ELSE s.reinforcements
<1> DEFINE one == s.recalls + 1
           two == IF s.resource = 0 THEN 0 ELSE s.resource - 1
           three == s.strength + 1
           four == s.reinforcements + 1
<1>1. one \in Nat /\ two \in Nat /\ three \in Nat /\ four \in Nat
  BY DEF MemoryStates
<1>2. CASE act = 1
  <2>1. Applied(s, act) = [s EXCEPT !.recalls = one]
    BY <1>2 DEF Applied
  <2> HIDE DEF one
  <2> QED
    BY <1>1, <1>2, <2>1 DEF MemoryStates, one
<1>3. CASE act = 2
  <2>1. Applied(s, act) = [s EXCEPT !.resource = two]
    BY <1>3 DEF Applied
  <2> HIDE DEF two
  <2> QED
    BY <1>1, <1>3, <2>1 DEF MemoryStates
<1>4. CASE act = 3
  <2>1. Applied(s, act) = [s EXCEPT !.strength = three, !.reinforcements = four]
    BY <1>4 DEF Applied
  <2> HIDE DEF three, four
  <2>2. /\ Applied(s, act) \in MemoryStates /\ Applied(s, act).recalls = s.recalls
        /\ Applied(s, act).reinforcements = four
    BY <1>1, <2>1 DEF MemoryStates
  <2> QED
    BY <1>4, <2>2 DEF four
<1> QED
  BY <1>2, <1>3, <1>4

\* How many rows there are of a kind when one is inserted.
LEMMA RowsGrow ==
  ASSUME IsFiniteSet(records), NEW row, records' = records \cup {row}, NEW n, NEW act
  PROVE  /\ Rows(n, act) \in Nat /\ IsFiniteSet(records')
         /\ Rows(n, act)' = IF row \notin records /\ row[2] = n /\ row[3] = act THEN Rows(n, act) + 1 ELSE Rows(n, act)
<1> DEFINE S == {r \in records : r[2] = n /\ r[3] = act}
           T == {r \in records \cup {row} : r[2] = n /\ r[3] = act}
<1>1. IsFiniteSet(S)
  BY FS_Subset
<1>2. Cardinality(S) \in Nat
  BY <1>1, FS_CardinalityType
<1>3. IsFiniteSet(records \cup {row})
  BY FS_AddElement
<1>4. T = IF row[2] = n /\ row[3] = act THEN S \cup {row} ELSE S
  OBVIOUS
<1>5. row[2] = n /\ row[3] = act => (row \in S <=> row \in records)
  OBVIOUS
<1>6. Cardinality(S \cup {row}) = IF row \in S THEN Cardinality(S) ELSE Cardinality(S) + 1
  BY <1>1, FS_AddElement
<1>7. Rows(n, act) = Cardinality(S) /\ Rows(n, act)' = Cardinality(T)
  BY DEF Rows
<1> HIDE DEF S, T
<1> QED
  BY <1>2, <1>3, <1>4, <1>5, <1>6, <1>7
LEMMA RowsAreNat == ASSUME IsFiniteSet(records), NEW n, NEW act PROVE Rows(n, act) \in Nat
<1>1. IsFiniteSet({r \in records : r[2] = n /\ r[3] = act})
  BY FS_Subset
<1> QED
  BY <1>1, FS_CardinalityType DEF Rows
-----------------------------------------------------------------------------
LEMMA RecallTypeInit == RecallInit => RecallTyped
<1> SUFFICES ASSUME RecallInit PROVE RecallTyped
  OBVIOUS
<1>1. IsFiniteSet(records)
  BY FS_EmptySet DEF RecallInit
<1>2. reader = [r \in Readers |-> reader[r]]
  BY DEF RecallInit
<1> QED
  BY <1>1, <1>2, RestIsTyped DEF RecallInit, RecallTyped

\* One reader goes on.
LEMMA BecameIsOk ==
  ASSUME RecallTyped, NEW r \in Readers, NEW y, ReaderOk(y), Became(r, y)
  PROVE  /\ reader' = [s \in Readers |-> reader'[s]] /\ \A s \in Readers : ReaderOk(reader'[s])
         /\ reader'[r] = y /\ \A s \in Readers : s # r => reader'[s] = reader[s]
         /\ overlappedRecall' \in BOOLEAN /\ (overlappedRecall => overlappedRecall')
         /\ ~overlappedRecall' /\ y # AtRest => \A s \in Readers : s # r => reader[s] = AtRest
<1>1. reader' = [reader EXCEPT ![r] = y]
  BY DEF Became
<1>2. reader'[r] = y /\ \A s \in Readers : s # r => reader'[s] = reader[s]
  BY <1>1 DEF RecallTyped
<1>3. \A s \in Readers : ReaderOk(reader'[s])
  BY <1>2 DEF RecallTyped
<1>4. reader' = [s \in Readers |-> reader'[s]]
  BY <1>1 DEF RecallTyped
<1> DEFINE clash == y # AtRest /\ \E s \in Readers \ {r} : reader[s] # AtRest
<1>5. overlappedRecall' = (overlappedRecall \/ clash) /\ overlappedRecall \in BOOLEAN
  BY DEF Became, RecallTyped
<1>6. CASE overlappedRecall \/ clash
  <2>1. overlappedRecall' = TRUE
    BY <1>5, <1>6
  <2> QED
    BY <1>2, <1>3, <1>4, <2>1
<1>7. CASE ~(overlappedRecall \/ clash)
  <2>1. overlappedRecall' = FALSE
    BY <1>5, <1>7
  <2> QED
    BY <1>2, <1>3, <1>4, <1>7, <2>1
<1> QED
  BY <1>6, <1>7

\* One reader's step keeps the promises, if it keeps them for that reader.
UntoldBy(rec, n, act) == IF rec.at = "record" /\ rec.act = act /\ Node(rec) = n THEN 1 ELSE 0
UntoldEdgeBy(rec, n) == IF rec.at = "edge_record" /\ Node(rec) = n THEN 1 ELSE 0
CountedBy(r, n) ==
  /\ Rows(n, "recalled") + UntoldBy(reader[r], n, 1) <= state[n].recalls
  /\ state[n].recalls <= Rows(n, "recalled") + deaths + UntoldBy(reader[r], n, 1)
  /\ Rows(n, "reinforced") + UntoldBy(reader[r], n, 3) <= state[n].reinforcements
  /\ state[n].reinforcements <= Rows(n, "reinforced") + deaths + UntoldBy(reader[r], n, 3)
  /\ Rows(n, "edge") + UntoldEdgeBy(reader[r], n) <= edgeGains

LEMMA OneReader ==
  ASSUME RecallTyped, AloneRecall, NEW r \in Readers, NEW y, ReaderOk(y), Became(r, y),
         reader[r] # AtRest \/ y # AtRest,
         ~overlappedRecall' /\ HasItsOwn(reader[r]) => HasItsOwn(reader[r])',
         ~overlappedRecall' /\ HasItsOwn(reader[r]) =>
           \A n \in Memories : CountedBy(r, n) => CountedBy(r, n)'
  PROVE  AloneRecall'
<1> SUFFICES ASSUME ~overlappedRecall' PROVE AloneRecall'
  BY DEF AloneRecall
<1>1. ~overlappedRecall /\ reader'[r] = y /\ \A s \in Readers : s # r => reader'[s] = reader[s]
  BY BecameIsOk
<1>2. \A s \in Readers : s # r => reader[s] = AtRest /\ reader'[s] = AtRest
  BY <1>1, BecameIsOk DEF AloneRecall
<1>3. AtRest.at = "rest"
  BY RestIsTyped
<1>4. ASSUME NEW n \in Memories PROVE Counted(n) <=> CountedBy(r, n)
  <2>1. \A act : Untold(n, act) = UntoldBy(reader[r], n, act)
    BY <1>2, <1>3 DEF Untold, UntoldBy
  <2>2. UntoldEdge(n) = UntoldEdgeBy(reader[r], n)
    BY <1>2, <1>3 DEF UntoldEdge, UntoldEdgeBy
  <2> QED
    BY <2>1, <2>2 DEF Counted, CountedBy
<1>5. ASSUME NEW n \in Memories PROVE Counted(n)' <=> CountedBy(r, n)'
  <2>1. Untold(n, 1)' = UntoldBy(reader[r], n, 1)' /\ Untold(n, 3)' = UntoldBy(reader[r], n, 3)'
    BY <1>2, <1>3 DEF Untold, UntoldBy
  <2>2. UntoldEdge(n)' = UntoldEdgeBy(reader[r], n)'
    BY <1>2, <1>3 DEF UntoldEdge, UntoldEdgeBy
  <2> QED
    BY <2>1, <2>2 DEF Counted, CountedBy
<1>6. \A s \in Readers : HasItsOwn(reader[s])'
  <2>1. HasItsOwn(reader[r])'
    BY <1>1 DEF AloneRecall
  <2>2. ASSUME NEW s \in Readers, s # r PROVE HasItsOwn(reader[s])'
    BY <1>2, <1>3, <2>2 DEF HasItsOwn
  <2> QED
    BY <2>1, <2>2
<1>7. \A n \in Memories : Counted(n)'
  BY <1>1, <1>4, <1>5 DEF AloneRecall
<1>8. \A s, q \in Readers : reader'[s] # AtRest /\ reader'[q] # AtRest => s = q
  BY <1>2
<1> QED
  BY <1>6, <1>7, <1>8 DEF AloneRecall

\* A step that stores nothing and records nothing.
LEMMA ReaderQuiet ==
  ASSUME RecallTyped, AloneRecall, NEW r \in Readers, NEW y, ReaderOk(y), Became(r, y),
         reader[r] # AtRest \/ y # AtRest, UNCHANGED <<state, edgeGains, records, deaths>>,
         reader[r].at \notin {"record", "edge_record"}, y.at \notin {"record", "edge_record"},
         ~overlappedRecall' /\ HasItsOwn(reader[r]) =>
           /\ y.at = "store" /\ Node(y) \in Memories => y.mine = state[Node(y)]
           /\ y.at = "edge_store" => y.gains = edgeGains
  PROVE  RecallTyped' /\ AloneRecall'
<1>1. reader'[r] = y
  BY BecameIsOk
<1>2. \A n : \A act : Rows(n, act)' = Rows(n, act)
  BY DEF Rows
<1>3. \A n \in Memories : CountedBy(r, n) => CountedBy(r, n)'
  BY <1>1, <1>2 DEF CountedBy, UntoldBy, UntoldEdgeBy
<1>4. ~overlappedRecall' /\ HasItsOwn(reader[r]) => HasItsOwn(reader[r])'
  BY <1>1 DEF HasItsOwn
<1>5. AloneRecall'
  BY <1>3, <1>4, OneReader
<1>6. RecallTyped'
  BY BecameIsOk DEF RecallTyped
<1> QED
  BY <1>5, <1>6

LEMMA BeginWritebackIsOk ==
  ASSUME RecallTyped, AloneRecall, NEW r \in Readers, NEW a, BeginWriteback(r, a)
  PROVE  RecallTyped' /\ AloneRecall'
<1>1. PICK base, left : base = AtRest /\ ReaderOk(base) /\ left = activated[a]
  BY RestIsTyped
<1> DEFINE y == [base EXCEPT !.at = "item", !.run = a, !.left = left]
<1>2. y \in [at : {"item"}, run : {a}, left : {left}, act : {base.act}, mine : {base.mine}, gains : Nat]
  BY <1>1 DEF ReaderOk
<1>3. Became(r, y) /\ UNCHANGED <<state, edgeGains, records, deaths>> /\ reader[r] = AtRest
  BY <1>1 DEF BeginWriteback
<1> HIDE DEF y
<1>4. ReaderOk(y) /\ y.at = "item" /\ y # AtRest
  BY <1>2, RestIsTyped DEF ReaderOk, Places
<1> QED
  BY <1>3, <1>4, RestIsTyped, ReaderQuiet

LEMMA ReadStateIsOk ==
  ASSUME RecallTyped, AloneRecall, NEW r \in Readers, ReadState(r)
  PROVE  RecallTyped' /\ AloneRecall'
<1>1. PICK rec, mine : rec = reader[r] /\ ReaderOk(rec) /\ rec.at = "item" /\ mine = state[Node(rec)]
  BY DEF RecallTyped, ReadState
<1>2. UNCHANGED <<state, edgeGains, records, deaths>> /\ reader[r] # AtRest
  BY <1>1, RestIsTyped DEF ReadState
<1>3. CASE Became(r, NextItem(rec))
  BY <1>1, <1>2, <1>3, NextItemIsOk, ReaderQuiet
<1> DEFINE y == [rec EXCEPT !.at = "store", !.act = 1, !.mine = mine]
<1>4. CASE Became(r, y)
  <2>1. /\ y \in [at : {"store"}, run : {rec.run}, left : {rec.left}, act : {1}, mine : {mine}, gains : Nat]
        /\ y.at = "store" /\ y.left = rec.left /\ y.mine = mine /\ y.act = 1
    BY <1>1 DEF ReaderOk
  <2> HIDE DEF y
  <2>2. Node(y) = Node(rec)
    BY <2>1 DEF Node
  <2>3. Node(rec) \in Memories => mine \in MemoryStates
    BY <1>1 DEF RecallTyped
  <2>4. ReaderOk(y)
    BY <2>1, <2>2, <2>3 DEF ReaderOk, Places
  <2> QED
    BY <1>1, <1>2, <1>4, <2>1, <2>2, <2>4, ReaderQuiet
<1> QED
  BY <1>1, <1>3, <1>4 DEF ReadState, Node

\* The state is stored before the record that says so.
LEMMA StoreStateIsOk ==
  ASSUME RecallTyped, AloneRecall, NEW r \in Readers, StoreState(r)
  PROVE  RecallTyped' /\ AloneRecall'
<1>1. PICK rec, n0, new : rec = reader[r] /\ ReaderOk(rec) /\ rec.at = "store" /\ n0 = Node(rec)
                          /\ new = Applied(rec.mine, rec.act)
  BY DEF RecallTyped, StoreState
<1>2. UNCHANGED <<edgeGains, records, deaths>> /\ reader[r] # AtRest /\ rec.act \in 1 .. 3
  BY <1>1, RestIsTyped DEF StoreState, ReaderOk
<1>3. CASE Row(rec) \in records
  <2>1. Became(r, OnWith(rec)) /\ UNCHANGED state
    BY <1>1, <1>3 DEF StoreState
  <2>2. OnWith(rec).left = rec.left => Node(OnWith(rec)) = Node(rec)
    BY DEF Node
  <2> QED
    BY <1>1, <1>2, <2>1, <2>2, OnWithIsOk, ReaderQuiet DEF HasItsOwn
<1> DEFINE y == [rec EXCEPT !.at = "record", !.mine = new]
<1>4. CASE Row(rec) \notin records
  <2>1. Became(r, y) /\ state' = [state EXCEPT ![n0] = new]
    BY <1>1, <1>4 DEF StoreState, Node
  <2>2. /\ y \in [at : {"record"}, run : {rec.run}, left : {rec.left}, act : {rec.act}, mine : {new}, gains : Nat]
        /\ y.at = "record" /\ y.left = rec.left /\ y.mine = new /\ y.act = rec.act /\ y.run = rec.run
    BY <1>1 DEF ReaderOk
  <2> HIDE DEF y
  <2>3. Node(y) = n0 /\ Row(y) = Row(rec)
    BY <1>1, <2>2 DEF Node, Row
  <2>4. n0 \in Memories =>
          /\ new \in MemoryStates
          /\ new.recalls = IF rec.act = 1 THEN rec.mine.recalls + 1 ELSE rec.mine.recalls
          /\ new.reinforcements = IF rec.act = 3 THEN rec.mine.reinforcements + 1 ELSE rec.mine.reinforcements
    BY <1>1, <1>2, AppliedIsOk DEF ReaderOk
  <2>5. ReaderOk(y)
    BY <1>2, <2>2, <2>3, <2>4 DEF ReaderOk, Places
  <2>6. reader'[r] = y
    BY <2>1, <2>5, BecameIsOk
  <2>7. HasItsOwn(reader[r])'
    BY <1>2, <1>4, <2>1, <2>2, <2>3, <2>6 DEF HasItsOwn, Row, Node, RecallTyped
  <2>8. ASSUME HasItsOwn(reader[r]), NEW n \in Memories, CountedBy(r, n) PROVE CountedBy(r, n)'
    <3>1. Rows(n, "recalled")' = Rows(n, "recalled") /\ Rows(n, "reinforced")' = Rows(n, "reinforced")
          /\ Rows(n, "edge")' = Rows(n, "edge")
      BY <1>2 DEF Rows
    <3>2. Rows(n, "recalled") \in Nat /\ Rows(n, "reinforced") \in Nat /\ deaths \in Nat
      BY RowsAreNat DEF RecallTyped
    <3>3. UntoldEdgeBy(reader[r], n) = 0 /\ UntoldEdgeBy(reader[r], n)' = 0
      BY <1>1, <2>2, <2>6 DEF UntoldEdgeBy
    <3>4. \A act \in {1, 3} : UntoldBy(reader[r], n, act) = 0
      BY <1>1 DEF UntoldBy
    <3>5. /\ UntoldBy(reader[r], n, 1)' = IF rec.act = 1 /\ n = n0 THEN 1 ELSE 0
          /\ UntoldBy(reader[r], n, 3)' = IF rec.act = 3 /\ n = n0 THEN 1 ELSE 0
      BY <2>2, <2>3, <2>6 DEF UntoldBy
    <3>6. state[n].recalls \in Nat /\ state[n].reinforcements \in Nat
      BY DEF RecallTyped, MemoryStates
    <3>7. /\ state'[n].recalls = IF rec.act = 1 /\ n = n0 THEN state[n].recalls + 1 ELSE state[n].recalls
          /\ state'[n].reinforcements =
               IF rec.act = 3 /\ n = n0 THEN state[n].reinforcements + 1 ELSE state[n].reinforcements
      <4>1. CASE n = n0
        <5>1. rec.mine = state[n] /\ state'[n] = new
          BY <1>1, <2>1, <2>8, <4>1 DEF HasItsOwn, RecallTyped
        <5> QED
          BY <2>4, <4>1, <5>1
      <4>2. CASE n # n0
        BY <2>1, <4>2 DEF RecallTyped
      <4> QED
        BY <4>1, <4>2
    <3> QED
      BY <1>2, <2>8, <3>1, <3>2, <3>3, <3>4, <3>5, <3>6, <3>7 DEF CountedBy
  <2>9. AloneRecall'
    BY <1>2, <2>1, <2>5, <2>7, <2>8, OneReader
  <2>10. state' \in [Memories -> MemoryStates]
    <3>1. CASE n0 \in Memories
      BY <2>1, <2>4, <3>1 DEF RecallTyped
    <3>2. CASE n0 \notin Memories
      BY <2>1, <3>2 DEF RecallTyped
    <3> QED
      BY <3>1, <3>2
  <2> QED
    BY <1>2, <2>1, <2>5, <2>9, <2>10, BecameIsOk DEF RecallTyped
<1> QED
  BY <1>3, <1>4

LEMMA InsertRecordIsOk ==
  ASSUME RecallTyped, AloneRecall, NEW r \in Readers, InsertRecord(r)
  PROVE  RecallTyped' /\ AloneRecall'
<1>1. PICK rec, n0, row : rec = reader[r] /\ ReaderOk(rec) /\ rec.at = "record" /\ n0 = Node(rec) /\ row = Row(rec)
  BY DEF RecallTyped, InsertRecord
<1>2. PICK y : y = IF row \in records THEN AtRest ELSE OnWith(rec)
  OBVIOUS
<1>3. Became(r, y) /\ UNCHANGED <<state, edgeGains, deaths>> /\ records' = records \cup {row} /\ reader[r] # AtRest
  BY <1>1, <1>2, RestIsTyped DEF InsertRecord
<1>4. ReaderOk(y) /\ y.at \notin {"record", "edge_record", "edge_store"}
      /\ (y.at = "store" => y.mine = rec.mine /\ Node(y) = n0)
  BY <1>1, <1>2, OnWithIsOk, RestIsTyped DEF Node
<1>5. reader'[r] = y
  BY <1>3, <1>4, BecameIsOk
<1>6. HasItsOwn(reader[r]) => HasItsOwn(reader[r])'
  BY <1>1, <1>3, <1>4, <1>5 DEF HasItsOwn
<1>7. rec.act \in 1 .. 3 /\ row[2] = n0 /\ row[3] = Actions[rec.act]
  BY <1>1 DEF ReaderOk, Row, Node
<1>8. /\ row[3] = "recalled" <=> rec.act = 1
      /\ row[3] = "reinforced" <=> rec.act = 3
      /\ row[3] # "edge"
  BY <1>7 DEF Actions
<1>9. IsFiniteSet(records) /\ IsFiniteSet(records')
  BY <1>3, RowsGrow DEF RecallTyped
<1>10. ASSUME HasItsOwn(reader[r]), NEW n \in Memories, CountedBy(r, n) PROVE CountedBy(r, n)'
  <2>1. row \notin records
    BY <1>1, <1>10 DEF HasItsOwn
  <2>2. /\ Rows(n, "recalled")' = IF rec.act = 1 /\ n = n0 THEN Rows(n, "recalled") + 1 ELSE Rows(n, "recalled")
        /\ Rows(n, "reinforced")' = IF rec.act = 3 /\ n = n0 THEN Rows(n, "reinforced") + 1 ELSE Rows(n, "reinforced")
        /\ Rows(n, "edge")' = Rows(n, "edge")
    BY <1>3, <1>7, <1>8, <1>9, <2>1, RowsGrow
  <2>3. /\ UntoldBy(reader[r], n, 1) = IF rec.act = 1 /\ n = n0 THEN 1 ELSE 0
        /\ UntoldBy(reader[r], n, 3) = IF rec.act = 3 /\ n = n0 THEN 1 ELSE 0
        /\ UntoldEdgeBy(reader[r], n) = 0
    BY <1>1 DEF UntoldBy, UntoldEdgeBy
  <2>4. UntoldBy(reader[r], n, 1)' = 0 /\ UntoldBy(reader[r], n, 3)' = 0 /\ UntoldEdgeBy(reader[r], n)' = 0
    BY <1>4, <1>5 DEF UntoldBy, UntoldEdgeBy
  <2>5. /\ Rows(n, "recalled") \in Nat /\ Rows(n, "reinforced") \in Nat /\ deaths \in Nat
        /\ state[n].recalls \in Nat /\ state[n].reinforcements \in Nat
    BY RowsAreNat DEF RecallTyped, MemoryStates
  <2> QED
    BY <1>3, <1>10, <2>2, <2>3, <2>4, <2>5 DEF CountedBy
<1>11. AloneRecall'
  BY <1>3, <1>4, <1>6, <1>10, OneReader
<1> QED
  BY <1>3, <1>4, <1>9, <1>11, BecameIsOk DEF RecallTyped

LEMMA EdgeIsOk ==
  ASSUME RecallTyped, AloneRecall, NEW r \in Readers, ReadEdge(r) \/ StoreEdge(r) \/ RecordEdge(r)
  PROVE  RecallTyped' /\ AloneRecall'
<1>1. PICK rec, n0, gains : /\ rec = reader[r] /\ ReaderOk(rec) /\ rec.at \in {"edge", "edge_store", "edge_record"}
                            /\ n0 = Node(rec) /\ gains = edgeGains
  BY DEF RecallTyped, ReadEdge, StoreEdge, RecordEdge
<1>2. UNCHANGED <<state, deaths>> /\ reader[r] # AtRest /\ gains \in Nat
  BY <1>1, RestIsTyped DEF ReadEdge, StoreEdge, RecordEdge, RecallTyped
<1>3. CASE ReadEdge(r)
  <2> DEFINE y == [rec EXCEPT !.at = "edge_store", !.gains = gains]
  <2>1. UNCHANGED <<edgeGains, records>> /\ rec.at = "edge"
    BY <1>1, <1>3 DEF ReadEdge
  <2>2. CASE Became(r, NextItem(rec))
    BY <1>1, <1>2, <2>1, <2>2, NextItemIsOk, ReaderQuiet
  <2>3. CASE Became(r, y)
    <3>1. /\ y \in [at : {"edge_store"}, run : {rec.run}, left : {rec.left}, act : {rec.act}, mine : {rec.mine}, gains : Nat]
          /\ y.at = "edge_store" /\ y.gains = gains
      BY <1>1, <1>2 DEF ReaderOk
    <3> HIDE DEF y
    <3>2. ReaderOk(y)
      BY <3>1 DEF ReaderOk, Places
    <3> QED
      BY <1>1, <1>2, <2>1, <2>3, <3>1, <3>2, ReaderQuiet
  <2> QED
    BY <1>1, <1>3, <2>2, <2>3 DEF ReadEdge
<1>4. CASE StoreEdge(r)
  <2> DEFINE y == [rec EXCEPT !.at = "edge_record"]
  <2>1. Became(r, y) /\ edgeGains' = rec.gains + 1 /\ UNCHANGED records /\ rec.at = "edge_store"
    BY <1>1, <1>4 DEF StoreEdge
  <2>2. /\ y \in [at : {"edge_record"}, run : {rec.run}, left : {rec.left}, act : {rec.act}, mine : {rec.mine}, gains : Nat]
        /\ y.at = "edge_record" /\ y.left = rec.left
    BY <1>1 DEF ReaderOk
  <2> HIDE DEF y
  <2>3. ReaderOk(y)
    BY <2>2 DEF ReaderOk, Places
  <2>4. reader'[r] = y
    BY <2>1, <2>3, BecameIsOk
  <2>5. HasItsOwn(reader[r])'
    BY <2>2, <2>4 DEF HasItsOwn
  <2>6. ASSUME HasItsOwn(reader[r]), NEW n \in Memories, CountedBy(r, n) PROVE CountedBy(r, n)'
    <3>1. edgeGains' = edgeGains + 1
      BY <1>1, <2>1, <2>6 DEF HasItsOwn
    <3>2. Rows(n, "recalled")' = Rows(n, "recalled") /\ Rows(n, "reinforced")' = Rows(n, "reinforced")
          /\ Rows(n, "edge")' = Rows(n, "edge")
      BY <2>1 DEF Rows
    <3>3. /\ \A act \in {1, 3} : UntoldBy(reader[r], n, act) = 0
          /\ UntoldBy(reader[r], n, 1)' = 0 /\ UntoldBy(reader[r], n, 3)' = 0
      BY <1>1, <2>1, <2>2, <2>4 DEF UntoldBy
    <3>4. UntoldEdgeBy(reader[r], n) = 0 /\ UntoldEdgeBy(reader[r], n)' \in {0, 1}
      BY <1>1, <2>1 DEF UntoldEdgeBy
    <3>5. Rows(n, "edge") \in Nat /\ edgeGains \in Nat
      BY RowsAreNat DEF RecallTyped
    <3> QED
      BY <1>2, <2>6, <3>1, <3>2, <3>3, <3>4, <3>5 DEF CountedBy
  <2>7. AloneRecall'
    BY <1>2, <2>1, <2>3, <2>5, <2>6, OneReader
  <2>8. edgeGains' \in Nat
    BY <1>1, <2>1 DEF ReaderOk
  <2> QED
    BY <1>2, <2>1, <2>3, <2>7, <2>8, BecameIsOk DEF RecallTyped
<1>5. CASE RecordEdge(r)
  <2>1. PICK row, y : row = EdgeRow(rec) /\ y = IF row \in records THEN AtRest ELSE NextItem(rec)
    OBVIOUS
  <2>2. Became(r, y) /\ records' = records \cup {row} /\ UNCHANGED edgeGains /\ rec.at = "edge_record"
    BY <1>1, <1>5, <2>1 DEF RecordEdge
  <2>3. ReaderOk(y) /\ y.at \in {"rest", "item"}
    BY <2>1, NextItemIsOk, RestIsTyped
  <2>4. reader'[r] = y
    BY <2>2, <2>3, BecameIsOk
  <2>5. HasItsOwn(reader[r])'
    BY <2>3, <2>4 DEF HasItsOwn
  <2>6. row[2] = n0 /\ row[3] = "edge"
    BY <1>1, <2>1 DEF EdgeRow, Node
  <2>7. IsFiniteSet(records) /\ IsFiniteSet(records')
    BY <2>2, RowsGrow DEF RecallTyped
  <2>8. ASSUME HasItsOwn(reader[r]), NEW n \in Memories, CountedBy(r, n) PROVE CountedBy(r, n)'
    <3>1. /\ Rows(n, "recalled")' = Rows(n, "recalled") /\ Rows(n, "reinforced")' = Rows(n, "reinforced")
          /\ Rows(n, "edge")' = IF row \notin records /\ n = n0 THEN Rows(n, "edge") + 1 ELSE Rows(n, "edge")
      BY <2>2, <2>6, <2>7, RowsGrow
    <3>2. UntoldEdgeBy(reader[r], n) = (IF n = n0 THEN 1 ELSE 0) /\ UntoldEdgeBy(reader[r], n)' = 0
      BY <1>1, <2>2, <2>3, <2>4 DEF UntoldEdgeBy
    <3>3. /\ \A act \in {1, 3} : UntoldBy(reader[r], n, act) = 0
          /\ UntoldBy(reader[r], n, 1)' = 0 /\ UntoldBy(reader[r], n, 3)' = 0
      BY <1>1, <2>2, <2>3, <2>4 DEF UntoldBy
    <3>4. Rows(n, "edge") \in Nat /\ edgeGains \in Nat
      BY RowsAreNat DEF RecallTyped
    <3> QED
      BY <1>2, <2>2, <2>8, <3>1, <3>2, <3>3, <3>4 DEF CountedBy
  <2>9. AloneRecall'
    BY <1>2, <2>2, <2>3, <2>5, <2>8, OneReader
  <2> QED
    BY <1>2, <2>2, <2>3, <2>7, <2>9, BecameIsOk DEF RecallTyped
<1> QED
  BY <1>3, <1>4, <1>5

\* A writeback that dies may leave one state unrecorded.
LEMMA DieIsOk == ASSUME RecallTyped, AloneRecall, NEW r \in Readers, Die(r) PROVE RecallTyped' /\ AloneRecall'
<1>1. /\ reader' = [reader EXCEPT ![r] = AtRest] /\ deaths' = deaths + 1 /\ reader[r] # AtRest
      /\ UNCHANGED <<state, edgeGains, records, overlappedRecall>>
  BY DEF Die
<1>2. reader'[r] = AtRest /\ \A s \in Readers : s # r => reader'[s] = reader[s]
  BY <1>1 DEF RecallTyped
<1>3. reader' = [s \in Readers |-> reader'[s]]
  BY <1>1 DEF RecallTyped
<1>4. RecallTyped'
  BY <1>1, <1>2, <1>3, RestIsTyped DEF RecallTyped
<1>5. ASSUME ~overlappedRecall PROVE AloneRecall'
  <2>1. \A s \in Readers : s # r => reader[s] = AtRest
    BY <1>1, <1>5 DEF AloneRecall
  <2>2. \A s \in Readers : reader'[s] = AtRest
    BY <1>2, <2>1
  <2>3. \A s \in Readers : HasItsOwn(reader[s])'
    BY <2>2, RestIsTyped DEF HasItsOwn
  <2>4. ASSUME NEW n \in Memories PROVE Counted(n)'
    <3>1. Counted(n)
      BY <1>5 DEF AloneRecall
    <3>2. Untold(n, 1)' = 0 /\ Untold(n, 3)' = 0 /\ UntoldEdge(n)' = 0
      BY <2>2, RestIsTyped DEF Untold, UntoldEdge
    <3>3. Untold(n, 1) \in {0, 1} /\ Untold(n, 3) \in {0, 1} /\ UntoldEdge(n) \in {0, 1}
      BY DEF Untold, UntoldEdge
    <3>4. Rows(n, "recalled")' = Rows(n, "recalled") /\ Rows(n, "reinforced")' = Rows(n, "reinforced")
          /\ Rows(n, "edge")' = Rows(n, "edge")
      BY <1>1 DEF Rows
    <3>5. /\ Rows(n, "recalled") \in Nat /\ Rows(n, "reinforced") \in Nat /\ Rows(n, "edge") \in Nat
          /\ deaths \in Nat /\ edgeGains \in Nat
          /\ state[n].recalls \in Nat /\ state[n].reinforcements \in Nat
      BY RowsAreNat DEF RecallTyped, MemoryStates
    <3> QED
      BY <1>1, <3>1, <3>2, <3>3, <3>4, <3>5 DEF Counted
  <2> QED
    BY <2>2, <2>3, <2>4 DEF AloneRecall
<1>6. overlappedRecall => AloneRecall'
  BY <1>1 DEF AloneRecall
<1> QED
  BY <1>4, <1>5, <1>6

\* An activation, or a forgetting that overlaps no writeback.
LEMMA NothingStoredIsOk ==
  ASSUME RecallTyped, AloneRecall, UNCHANGED <<state, edgeGains, records, reader, deaths>>,
         overlappedRecall' \in BOOLEAN, overlappedRecall => overlappedRecall'
  PROVE  RecallTyped' /\ AloneRecall'
<1>1. RecallTyped'
  BY DEF RecallTyped
<1>2. \A n \in Memories : Counted(n) => Counted(n)'
  BY DEF Counted, Untold, UntoldEdge, Rows
<1>3. \A r \in Readers : HasItsOwn(reader[r]) => HasItsOwn(reader[r])'
  BY DEF HasItsOwn
<1> QED
  BY <1>1, <1>2, <1>3 DEF AloneRecall
-----------------------------------------------------------------------------
LEMMA RecallStarts == RecallInit => RecallInv
<1> SUFFICES ASSUME RecallInit PROVE AloneRecall
  BY RecallTypeInit DEF RecallInv
<1>1. \A r \in Readers : reader[r] = AtRest
  BY DEF RecallInit
<1>2. \A n \in Memories : Untold(n, 1) = 0 /\ Untold(n, 3) = 0 /\ UntoldEdge(n) = 0
  BY <1>1, RestIsTyped DEF Untold, UntoldEdge
<1>3. \A n \in Memories : Rows(n, "recalled") = 0 /\ Rows(n, "reinforced") = 0 /\ Rows(n, "edge") = 0
  <2> SUFFICES ASSUME NEW n \in Memories, NEW act PROVE Rows(n, act) = 0
    OBVIOUS
  <2>1. {r \in records : r[2] = n /\ r[3] = act} = {}
    BY DEF RecallInit
  <2> QED
    BY <2>1, FS_EmptySet DEF Rows
<1>4. \A n \in Memories : Counted(n)
  BY <1>2, <1>3 DEF Counted, RecallInit, Fresh
<1> QED
  BY <1>1, <1>4, RestIsTyped DEF AloneRecall, HasItsOwn

LEMMA RecallStep == RecallInv /\ [RecallNext]_recallVars => RecallInv'
<1> SUFFICES ASSUME RecallTyped, AloneRecall, [RecallNext]_recallVars PROVE RecallTyped' /\ AloneRecall'
  BY DEF RecallInv
<1>1. overlappedRecall \in BOOLEAN
  BY DEF RecallTyped
<1>2. ASSUME NEW r \in Readers, NEW q \in Queries, Activate(r, q) PROVE RecallTyped' /\ AloneRecall'
  BY <1>1, <1>2, NothingStoredIsOk DEF Activate
<1>3. ASSUME NEW n \in Memories, Forget(n) PROVE RecallTyped' /\ AloneRecall'
  <2> DEFINE clash == \E r \in Readers : reader[r] # AtRest
  <2>1. overlappedRecall' = (overlappedRecall \/ clash) /\ UNCHANGED <<state, edgeGains, records, reader, deaths>>
    BY <1>3 DEF Forget
  <2>2. overlappedRecall' \in BOOLEAN /\ (overlappedRecall => overlappedRecall')
    BY <1>1, <2>1
  <2> QED
    BY <2>1, <2>2, NothingStoredIsOk
<1>4. CASE UNCHANGED recallVars
  BY <1>1, <1>4, NothingStoredIsOk DEF recallVars
<1> QED
  BY <1>2, <1>3, <1>4, BeginWritebackIsOk, ReadStateIsOk, StoreStateIsOk, InsertRecordIsOk, EdgeIsOk, DieIsOk
  DEF RecallNext

\* What an entity finds is recalled, however often it was recalled before: what
\* recalling spends is bounded, and less than what the entity is worth.
LEMMA NothingIsExhausted == RecallTyped => NeverExhausted
<1> SUFFICES ASSUME RecallTyped, NEW q \in Queries, NEW n \in Memories \ forgotten,
                    "entity" \in q.found[n], Trust[n] # "llm"
             PROVE  n \in Recalled(q)
  BY DEF NeverExhausted
<1>1. n \in Memories /\ Trust[n] \in {"user", "github", "system", "agent"}
  BY RecallAssumption
<1>2. Direct(q, n) \in Nat /\ Direct(q, n) >= 9000
  BY DEF Direct, Weight
<1>3. Ripple(q, n) \in Nat
  <2>1. EdgeScore \in Nat
    BY DEF EdgeScore, RecallTyped
  <2> QED
    BY <2>1 DEF Ripple
<1>4. TrustPenalty[Trust[n]] \in {0, 500, 1500, 2000}
  BY <1>1 DEF TrustPenalty
<1>5. ResourcePenalty(n) \in Int /\ ResourcePenalty(n) <= 6500
  BY <1>1 DEF ResourcePenalty, Least, RecallTyped, MemoryStates
<1>6. Least(375 * state[n].strength, 4500) \in Nat
  BY <1>1 DEF Least, RecallTyped, MemoryStates
<1> DEFINE recency == IF n \in q.recent THEN 2500 ELSE 0
           strength == Least(375 * state[n].strength, 4500)
<1>7. recency \in Nat
  OBVIOUS
<1>8. Score(q, n) = Direct(q, n) + Ripple(q, n) + strength + recency - ResourcePenalty(n) - TrustPenalty[Trust[n]]
  BY <1>2, <1>3, <1>4, <1>5, <1>6, <1>7 DEF Score
<1> HIDE DEF recency, strength
<1>9. Score(q, n) > 0 /\ Direct(q, n) + Ripple(q, n) > 0
  BY <1>2, <1>3, <1>4, <1>5, <1>6, <1>7, <1>8 DEF strength
<1> QED
  BY <1>1, <1>9 DEF Recalled

LEMMA RecallAgrees == RecallInv => RecallIsAccounted
<1> SUFFICES ASSUME RecallInv PROVE RecallIsAccounted
  OBVIOUS
<1>1. NeverExhausted
  BY NothingIsExhausted DEF RecallInv
<1>2. ASSUME ~overlappedRecall, NEW n \in Memories
      PROVE  LET busy == IF \E r \in Readers : reader[r].at = "record" THEN 1 ELSE 0 IN
             /\ Rows(n, "recalled") <= state[n].recalls
             /\ Rows(n, "reinforced") <= state[n].reinforcements
             /\ state[n].recalls <= Rows(n, "recalled") + deaths + busy
             /\ state[n].reinforcements <= Rows(n, "reinforced") + deaths + busy
             /\ Rows(n, "edge") <= edgeGains
  <2> DEFINE busy == IF \E r \in Readers : reader[r].at = "record" THEN 1 ELSE 0
  <2>1. Counted(n)
    BY <1>2 DEF RecallInv, AloneRecall
  <2>2. /\ Untold(n, 1) \in {0, 1} /\ Untold(n, 3) \in {0, 1} /\ UntoldEdge(n) \in {0, 1} /\ busy \in {0, 1}
        /\ Untold(n, 1) <= busy /\ Untold(n, 3) <= busy
    BY DEF Untold, UntoldEdge
  <2>3. /\ Rows(n, "recalled") \in Nat /\ Rows(n, "reinforced") \in Nat /\ Rows(n, "edge") \in Nat
        /\ deaths \in Nat /\ edgeGains \in Nat
        /\ state[n].recalls \in Nat /\ state[n].reinforcements \in Nat
    BY RowsAreNat DEF RecallInv, RecallTyped, MemoryStates
  <2> HIDE DEF busy
  <2>4. /\ Rows(n, "recalled") <= state[n].recalls
        /\ Rows(n, "reinforced") <= state[n].reinforcements
        /\ state[n].recalls <= Rows(n, "recalled") + deaths + busy
        /\ state[n].reinforcements <= Rows(n, "reinforced") + deaths + busy
        /\ Rows(n, "edge") <= edgeGains
    BY <2>1, <2>2, <2>3 DEF Counted
  <2> QED
    BY <2>4 DEF busy
<1> QED
  BY <1>1, <1>2 DEF RecallsMatchRecords, RecallIsAccounted

\* Until two commands overlap, what was applied to a memory is what the records say, but
\* for one action for each writeback that died; and whatever overlaps, what an entity
\* leads to is found however often it was recalled (writeback.rs, activation.rs).
THEOREM RecallsAreAccounted == RecallSpec => []RecallIsAccounted
<1>1. RecallInit => RecallInv
  BY RecallStarts
<1>2. RecallInv /\ [RecallNext]_recallVars => RecallInv'
  BY RecallStep
<1>3. RecallInv => RecallIsAccounted
  BY RecallAgrees
<1> QED
  BY <1>1, <1>2, <1>3, PTL DEF RecallSpec

\* What a writeback has in its hands was not forgotten when it was read, nor since.
Remembered(rec) == rec.at \in {"store", "record"} => Node(rec) \notin forgotten
NothingForgotten == ~overlappedRecall => \A r \in Readers : Remembered(reader[r])

LEMMA ForgettingStarts == RecallInit => NothingForgotten
  BY RestIsTyped DEF RecallInit, NothingForgotten, Remembered

\* A reader that goes on with something it may have keeps it so.
LEMMA BecameRemembers ==
  ASSUME RecallTyped, NothingForgotten, ~overlappedRecall', UNCHANGED forgotten,
         NEW r \in Readers, NEW rec, Became(r, rec), ~overlappedRecall => Remembered(rec)
  PROVE  NothingForgotten'
<1> DEFINE clash == rec # AtRest /\ \E s \in Readers \ {r} : reader[s] # AtRest
<1>1. overlappedRecall' = (overlappedRecall \/ clash)
  BY DEF Became
<1>2. ~overlappedRecall
  BY <1>1 DEF RecallTyped
<1>3. reader'[r] = rec /\ \A s \in Readers : s # r => reader'[s] = reader[s]
  BY DEF Became, RecallTyped
<1> QED
  BY <1>2, <1>3 DEF NothingForgotten, Remembered, Node

LEMMA GoingOnRemembers ==
  ASSUME RecallTyped, NothingForgotten, ~overlappedRecall,
         NEW r \in Readers, reader[r].at \in {"store", "record"}
  PROVE  Remembered(OnWith(reader[r]))
  BY OnWithIsOk DEF Remembered, NothingForgotten, Node, RecallTyped

LEMMA ForgettingStep == RecallInv /\ NothingForgotten /\ [RecallNext]_recallVars => NothingForgotten'
<1> SUFFICES ASSUME RecallTyped, NothingForgotten, ~overlappedRecall', [RecallNext]_recallVars
             PROVE  NothingForgotten'
  BY DEF RecallInv, NothingForgotten
<1>1. Remembered(AtRest) /\ \A rec : Remembered(NextItem(rec))
  BY RestIsTyped, NextItemIsOk DEF Remembered
<1>2. ASSUME NEW r \in Readers, NEW a \in DOMAIN activated, BeginWriteback(r, a) PROVE NothingForgotten'
  <2>1. PICK base, items : base = AtRest /\ items = activated[a]
    OBVIOUS
  <2> DEFINE y == [base EXCEPT !.at = "item", !.run = a, !.left = items]
  <2>2. base \in [at : {base.at}, run : {base.run}, left : {base.left}, act : {base.act}, mine : {base.mine}, gains : {base.gains}]
    BY <2>1 DEF AtRest
  <2>3. y.at = "item"
    BY <2>2
  <2>4. Became(r, y) /\ UNCHANGED forgotten
    BY <1>2, <2>1 DEF BeginWriteback
  <2> HIDE DEF y
  <2> QED
    BY <2>3, <2>4, BecameRemembers DEF Remembered
<1>3. ASSUME NEW r \in Readers, ReadState(r) PROVE NothingForgotten'
  <2> DEFINE rec == reader[r]
             stem == Head(rec.left).node
             seen == state[stem]
             y == [rec EXCEPT !.at = "store", !.act = 1, !.mine = seen]
  <2>1. CASE stem \in forgotten
    BY <1>1, <1>3, <2>1, BecameRemembers DEF ReadState
  <2>2. CASE stem \notin forgotten
    <3>1. Became(r, y) /\ UNCHANGED forgotten
      BY <1>3, <2>2 DEF ReadState
    <3>2. y.left = rec.left
      BY DEF RecallTyped, ReaderOk
    <3>3. Node(y) \notin forgotten
      BY <2>2, <3>2 DEF Node
    <3> HIDE DEF y
    <3> QED
      BY <3>1, <3>3, BecameRemembers DEF Remembered
  <2> QED
    BY <2>1, <2>2
<1>4. ASSUME NEW r \in Readers, StoreState(r) PROVE NothingForgotten'
  <2> DEFINE rec == reader[r]
             new == Applied(rec.mine, rec.act)
             y == [rec EXCEPT !.at = "record", !.mine = new]
  <2>1. rec.at = "store" /\ UNCHANGED forgotten
    BY <1>4 DEF StoreState
  <2>2. CASE Row(rec) \in records
    <3>1. Became(r, OnWith(rec))
      BY <1>4, <2>2 DEF StoreState
    <3> QED
      BY <2>1, <3>1, BecameRemembers, GoingOnRemembers
  <2>3. CASE Row(rec) \notin records
    <3>1. Became(r, y)
      BY <1>4, <2>3 DEF StoreState
    <3>2. y.left = rec.left
      BY DEF RecallTyped, ReaderOk
    <3>3. ~overlappedRecall => Node(y) \notin forgotten
      BY <2>1, <3>2 DEF Node, NothingForgotten, Remembered
    <3> HIDE DEF y
    <3> QED
      BY <2>1, <3>1, <3>3, BecameRemembers DEF Remembered
  <2> QED
    BY <2>2, <2>3
<1>5. ASSUME NEW r \in Readers, InsertRecord(r) PROVE NothingForgotten'
  <2>1. reader[r].at = "record" /\ UNCHANGED forgotten
        /\ (Became(r, AtRest) \/ Became(r, OnWith(reader[r])))
    BY <1>5 DEF InsertRecord
  <2> QED
    BY <1>1, <2>1, BecameRemembers, GoingOnRemembers
<1>6. ASSUME NEW r \in Readers, ReadEdge(r) \/ StoreEdge(r) \/ RecordEdge(r) PROVE NothingForgotten'
  <2> DEFINE rec == reader[r]
             gained == edgeGains
             y == [rec EXCEPT !.at = "edge_store", !.gains = gained]
             z == [rec EXCEPT !.at = "edge_record"]
  <2>1. /\ UNCHANGED forgotten
        /\ Became(r, AtRest) \/ Became(r, NextItem(rec)) \/ Became(r, y) \/ Became(r, z)
    BY <1>6 DEF ReadEdge, StoreEdge, RecordEdge
  <2>2. y.at = "edge_store" /\ z.at = "edge_record"
    BY DEF RecallTyped, ReaderOk
  <2>3. Remembered(y) /\ Remembered(z)
    BY <2>2 DEF Remembered
  <2> HIDE DEF y, z
  <2> QED
    BY <1>1, <2>1, <2>3, BecameRemembers
<1>7. ASSUME NEW r \in Readers, Die(r) PROVE NothingForgotten'
  <2>1. /\ reader' = [reader EXCEPT ![r] = AtRest] /\ UNCHANGED <<forgotten, overlappedRecall>>
    BY <1>7 DEF Die
  <2>2. reader'[r] = AtRest /\ \A s \in Readers : s # r => reader'[s] = reader[s]
    BY <2>1 DEF RecallTyped
  <2> QED
    BY <1>1, <2>1, <2>2 DEF NothingForgotten, Remembered, Node
<1>8. ASSUME NEW n \in Memories, Forget(n) PROVE NothingForgotten'
  <2>1. UNCHANGED reader /\ \A r \in Readers : reader[r] = AtRest
    BY <1>8 DEF Forget
  <2> QED
    BY <2>1, RestIsTyped DEF NothingForgotten, Remembered
<1>9. ASSUME UNCHANGED <<forgotten, reader, overlappedRecall>> PROVE NothingForgotten'
  BY <1>9 DEF NothingForgotten, Remembered, Node
<1>10. ASSUME NEW r \in Readers, NEW q \in Queries, Activate(r, q) PROVE NothingForgotten'
  BY <1>9, <1>10 DEF Activate
<1> QED
  BY <1>2, <1>3, <1>4, <1>5, <1>6, <1>7, <1>8, <1>9, <1>10 DEF RecallNext, recallVars

\* Only memories are forgotten.
OnlyMemories == forgotten \subseteq Memories

LEMMA OnlyMemoriesStep == OnlyMemories /\ [RecallNext]_recallVars => OnlyMemories'
  BY DEF OnlyMemories, RecallNext, recallVars, Activate, BeginWriteback, ReadState, StoreState, InsertRecord,
     ReadEdge, StoreEdge, RecordEdge, Forget, Die

LEMMA ForgottenStaysPut ==
  RecallInv /\ OnlyMemories /\ NothingForgotten /\ [RecallNext]_recallVars =>
    (~overlappedRecall' => \A n \in forgotten : state'[n] = state[n])
<1> SUFFICES ASSUME RecallInv, OnlyMemories, NothingForgotten, [RecallNext]_recallVars, ~overlappedRecall', NEW n \in forgotten
             PROVE  state'[n] = state[n]
  OBVIOUS
<1>1. ASSUME NEW r \in Readers, StoreState(r) PROVE state'[n] = state[n]
  <2> DEFINE new == Applied(reader[r].mine, reader[r].act)
             clash(y) == y # AtRest /\ \E s \in Readers \ {r} : reader[s] # AtRest
  <2>1. reader[r].at = "store" /\ \E y : overlappedRecall' = (overlappedRecall \/ clash(y))
    BY <1>1 DEF StoreState, Became
  <2>2. ~overlappedRecall
    BY <2>1 DEF RecallInv, RecallTyped
  <2>3. Node(reader[r]) # n
    BY <2>1, <2>2 DEF NothingForgotten, Remembered
  <2>4. state' = state \/ state' = [state EXCEPT ![Node(reader[r])] = new]
    BY <1>1 DEF StoreState, Node
  <2> QED
    BY <2>3, <2>4 DEF OnlyMemories, RecallInv, RecallTyped
<1>2. UNCHANGED state \/ \E r \in Readers : StoreState(r)
  BY DEF RecallNext, recallVars, Activate, BeginWriteback, ReadState, InsertRecord, ReadEdge, StoreEdge,
     RecordEdge, Forget, Die
<1> QED
  BY <1>1, <1>2

\* What is activated are memories that are not forgotten.
Recollections == Seq([node : Memories, direct : BOOLEAN, ripple : BOOLEAN, rank : Nat])

LEMMA ScoresAreNumbers ==
  ASSUME RecallTyped, NEW q \in Queries, NEW n \in Memories
  PROVE  Score(q, n) \in Int
<1>1. Direct(q, n) \in Nat
  BY DEF Direct, Weight
<1>2. Ripple(q, n) \in Nat
  <2>1. EdgeScore \in Nat
    BY DEF EdgeScore, RecallTyped
  <2> QED
    BY <2>1 DEF Ripple
<1>3. TrustPenalty[Trust[n]] \in Nat
  <2>1. Trust[n] \in {"user", "github", "system", "agent", "llm"}
    BY RecallAssumption
  <2> QED
    BY <2>1 DEF TrustPenalty
<1>4. ResourcePenalty(n) \in Int /\ Least(375 * state[n].strength, 4500) \in Int
  BY DEF ResourcePenalty, Least, RecallTyped, MemoryStates
<1> DEFINE recency == IF n \in q.recent THEN 2500 ELSE 0
           indirect == IF Direct(q, n) = 0 THEN 1500 ELSE 0
           strength == Least(375 * state[n].strength, 4500)
<1>5. recency \in Int /\ indirect \in Int
  OBVIOUS
<1>6. Score(q, n) = Direct(q, n) + Ripple(q, n) + strength + recency - ResourcePenalty(n)
                    - TrustPenalty[Trust[n]] - indirect
  BY DEF Score
<1> HIDE DEF recency, indirect
<1> QED
  BY <1>1, <1>2, <1>3, <1>4, <1>5, <1>6

LEMMA RankedAreRecalled ==
  ASSUME RecallTyped, NEW q \in Queries
  PROVE  Ranked(q) \in Recollections /\ \A k \in 1..Len(Ranked(q)) : Ranked(q)[k].node \notin forgotten
<1> DEFINE s(n) == Score(q, n)
           before == {p \in Memories \X Memories : s(p[1]) > s(p[2]) \/ (s(p[1]) = s(p[2]) /\ p[1] < p[2])}
           S == Recalled(q)
           order == Arranged(S, before)
           m == Cardinality(S)
           l == Least(Len(order), Limit)
           items == [k \in 1 .. l |->
             [node |-> order[k], direct |-> Direct(q, order[k]) > 0, ripple |-> Ripple(q, order[k]) > 0, rank |-> k]]
<1>1. \A n \in Memories : s(n) \in Int /\ n \in Nat
  BY ScoresAreNumbers, RecallAssumption
<1>2. S \subseteq Memories /\ \A n \in S : n \notin forgotten
  BY DEF Recalled
<1>3. IsFiniteSet(S)
  BY <1>2, RecallAssumption, FS_Subset
<1>4. Ranked(q) = items
  BY DEF Ranked
<1> HIDE DEF s, S
<1>5. Tells(before, S)
  BY <1>1, <1>2 DEF Tells
<1> HIDE DEF before
<1>6. order \in [1..m -> S] /\ m \in Nat
  BY <1>3, <1>5, ArrangedIs
<1> HIDE DEF m, order
<1>7. order \in Seq(S) /\ Len(order) = m
  BY <1>6
<1>8. l \in Nat /\ l <= m
  BY <1>6, <1>7, RecallAssumption DEF Least
<1> HIDE DEF l
<1>9. \A k \in 1..l : order[k] \in S /\ order[k] \in Memories /\ order[k] \notin forgotten
  BY <1>2, <1>6, <1>8
<1> DEFINE R == [node : Memories, direct : BOOLEAN, ripple : BOOLEAN, rank : Nat]
<1>10. items \in [1..l -> R] /\ \A k \in 1..l : items[k].node = order[k]
  <2>1. \A k \in 1..l : items[k] = [node |-> order[k], direct |-> Direct(q, order[k]) > 0,
                                   ripple |-> Ripple(q, order[k]) > 0, rank |-> k]
    OBVIOUS
  <2>2. \A k \in 1..l : k \in Nat
    BY <1>8
  <2>3. \A k \in 1..l : items[k] \in R
    BY <1>9, <2>1, <2>2
  <2>4. DOMAIN items = 1..l /\ items = [k \in 1..l |-> items[k]]
    OBVIOUS
  <2>5. \A k \in 1..l : items[k].node = order[k]
    BY <2>1
  <2> HIDE DEF items, R
  <2> QED
    BY <2>3, <2>4, <2>5
<1>11. items \in Recollections /\ Len(items) = l
  <2>1. Recollections = Seq(R)
    BY DEF Recollections
  <2> HIDE DEF items, R
  <2> QED
    BY <1>8, <1>10, <2>1
<1> HIDE DEF items
<1> QED
  BY <1>4, <1>9, <1>10, <1>11

ActivatedTyped == activated \in Seq(Recollections)
LEMMA ActivatedStep == RecallInv /\ ActivatedTyped /\ [RecallNext]_recallVars => ActivatedTyped'
<1> SUFFICES ASSUME RecallInv, ActivatedTyped, [RecallNext]_recallVars PROVE ActivatedTyped'
  OBVIOUS
<1>1. ASSUME NEW r \in Readers, NEW q \in Queries, Activate(r, q) PROVE ActivatedTyped'
  BY <1>1, RankedAreRecalled DEF Activate, ActivatedTyped, RecallInv
<1>2. UNCHANGED activated \/ \E r \in Readers, q \in Queries : Activate(r, q)
  BY DEF RecallNext, recallVars, StoreState, BeginWriteback, ReadState, InsertRecord, ReadEdge, StoreEdge,
     RecordEdge, Forget, Die
<1> QED
  BY <1>1, <1>2 DEF ActivatedTyped

\* Whatever overlaps, what is activated was not forgotten.
LEMMA ForgottenIsNotFound ==
  RecallInv /\ ActivatedTyped /\ [RecallNext]_recallVars =>
    (~overlappedRecall' /\ activated' # activated =>
       LET items == activated'[Len(activated')] IN
       \A k \in DOMAIN items : items[k].node \notin forgotten)
<1> SUFFICES ASSUME RecallInv, ActivatedTyped, [RecallNext]_recallVars, activated' # activated
             PROVE  LET items == activated'[Len(activated')] IN
                    \A k \in DOMAIN items : items[k].node \notin forgotten
  OBVIOUS
<1>1. UNCHANGED activated \/ \E r \in Readers, q \in Queries : Activate(r, q)
  BY DEF RecallNext, recallVars, StoreState, BeginWriteback, ReadState, InsertRecord, ReadEdge, StoreEdge,
     RecordEdge, Forget, Die
<1>2. PICK r \in Readers, q \in Queries : Activate(r, q)
  BY <1>1
<1>3. Ranked(q) \in Recollections /\ \A k \in 1..Len(Ranked(q)) : Ranked(q)[k].node \notin forgotten
  BY RankedAreRecalled DEF RecallInv
<1>4. activated' = Append(activated, Ranked(q)) /\ activated \in Seq(Recollections)
  BY <1>2 DEF Activate, ActivatedTyped
<1>5. activated'[Len(activated')] = Ranked(q)
  BY <1>3, <1>4
<1>6. DOMAIN Ranked(q) = 1..Len(Ranked(q))
  BY <1>3 DEF Recollections
<1> QED
  BY <1>3, <1>5, <1>6

\* Until two commands overlap, a forgotten memory is neither changed nor recalled again,
\* whatever writebacks die and are called again: an activation leaves it out, and a
\* writeback asks before it reads the state it will store (activation.rs node_is_active,
\* writeback.rs node_can_write_back, commands.rs tombstone_raw_event).
THEOREM ForgottenStaysAsItWas == RecallSpec => ForgottenIsLeftAlone
<1> DEFINE J == RecallInv /\ OnlyMemories /\ NothingForgotten /\ ActivatedTyped
<1>1. RecallInit => J
  <2>1. RecallInit => ActivatedTyped
    BY DEF RecallInit, ActivatedTyped, Recollections
  <2> QED
    BY <2>1, RecallStarts, ForgettingStarts DEF RecallInit, OnlyMemories
<1>2. J /\ [RecallNext]_recallVars => J'
  BY RecallStep, OnlyMemoriesStep, ForgettingStep, ActivatedStep
<1>3. J /\ [RecallNext]_recallVars =>
        [~overlappedRecall' => \A n \in forgotten : state'[n] = state[n]]_recallVars
  BY ForgottenStaysPut
<1>4. J /\ [RecallNext]_recallVars =>
        [~overlappedRecall' /\ activated' # activated =>
           LET items == activated'[Len(activated')] IN
           \A k \in DOMAIN items : items[k].node \notin forgotten]_recallVars
  BY ForgottenIsNotFound
<1> HIDE DEF J
<1>5. RecallSpec => ForgottenIsUnchanged
  BY <1>1, <1>2, <1>3, PTL DEF RecallSpec, ForgottenIsUnchanged
<1>6. RecallSpec => ForgottenIsNotRecalled
  BY <1>1, <1>2, <1>4, PTL DEF RecallSpec, ForgottenIsNotRecalled
<1> QED
  BY <1>5, <1>6 DEF ForgottenIsLeftAlone
-----------------------------------------------------------------------------
(* The tools of an agent.                                                    *)

Handouts == [version : Nat, grade : Grades \cup {"none"}, reason : {"none", "blank", "given"}, asked : BOOLEAN]
\* What the gate lets through, and what it is recorded with.
LetThrough(category, reason, asked) ==
  IF category \in Prepareable THEN reason = "none" ELSE asked /\ reason = "given"
CallOk(c) ==
  /\ ProfileOf[c] = "worker" /\ call[c].at # "idle" => capability[c] # 0
  /\ call[c].at = "prepare" => call[c].args \in Arguments("prepare")
  /\ call[c].at = "preparing" =>
       /\ call[c].args \in Arguments("prepare") /\ call[c].grade \in Grades
       /\ call[c].reason \in {"none", "blank", "given"}
       /\ LetThrough(call[c].grade, call[c].reason, call[c].args.allow)
  /\ "fix" \in DOMAIN call[c] => (call[c].status = "ready" <=> call[c].fix = "none")
  /\ ProfileOf[c] = "worker" /\ "read" \in DOMAIN call[c] =>
       /\ capability[c] # 0
       /\ call[c].read = packages[capability[c]].snapshot /\ call[c].of = packages[capability[c]].issue
ToolInv ==
  /\ grade \in [ToolIssues -> Grades] /\ files \in [ToolIssues -> Handouts]
  /\ packages \in Seq([issue : ToolIssues, snapshot : Nat])
  /\ capability \in [Callers -> Nat] /\ \A c \in Callers : capability[c] <= Len(packages)
  /\ call = [c \in Callers |-> call[c]] /\ \A c \in Callers : CallOk(c)
  /\ FilesPassedTheGate

LEMMA ToolStarts == ToolInit => ToolInv
<1> SUFFICES ASSUME ToolInit PROVE ToolInv
  OBVIOUS
<1>1. NoFiles \in Handouts /\ NoFiles.version = 0
  BY DEF NoFiles, Handouts
<1>2. \A c \in Callers : CallOk(c)
  BY DEF ToolInit, NoRequest, CallOk
<1>3. packages \in Seq([issue : ToolIssues, snapshot : Nat]) /\ Len(packages) = 0
  BY DEF ToolInit
<1>4. call = [c \in Callers |-> call[c]]
  BY DEF ToolInit
<1> QED
  BY <1>1, <1>2, <1>3, <1>4 DEF ToolInit, ToolInv, FilesPassedTheGate

\* A step of one call that leaves the files and the packages alone.
LEMMA OneCall ==
  ASSUME ToolInv, NEW c \in Callers, NEW y, call' = [call EXCEPT ![c] = y],
         UNCHANGED <<grade, files, packages, capability>>, CallOk(c)'
  PROVE  ToolInv'
<1>1. \A d \in Callers : d # c => call'[d] = call[d]
  BY DEF ToolInv
<1>2. \A d \in Callers : CallOk(d)'
  BY <1>1 DEF ToolInv, CallOk
<1>3. call' = [d \in Callers |-> call'[d]]
  BY DEF ToolInv
<1> QED
  BY <1>2, <1>3 DEF ToolInv, FilesPassedTheGate

\* A call that answers no more than a status.
LEMMA AnswerIsOk ==
  ASSUME ToolInv, NEW c \in Callers, NEW status, Fails(c, status),
         UNCHANGED <<grade, files, packages, capability>>
  PROVE  ToolInv'
<1>1. call' = [call EXCEPT ![c] = [at |-> "idle", status |-> status]]
  BY DEF Fails, Returns
<1>2. call'[c] = [at |-> "idle", status |-> status]
  BY <1>1 DEF ToolInv
<1>3. CallOk(c)'
  BY <1>2 DEF CallOk
<1> QED
  BY <1>1, <1>3, OneCall

LEMMA ExecuteIsOk ==
  ASSUME ToolInv, NEW c \in Callers, NEW tool \in Tools, NEW args \in Arguments(tool), Execute(c, tool, args)
  PROVE  ToolInv'
<1>1. UNCHANGED <<grade, files, packages, capability>>
  BY DEF Execute, Stores
<1>2. CASE \E status : Fails(c, status)
  BY <1>1, <1>2, AnswerIsOk
<1>3. CASE Goes(c, [at |-> tool, args |-> args])
  <2>1. call' = [call EXCEPT ![c] = [at |-> tool, args |-> args]]
    BY <1>3 DEF Goes
  <2>2. call'[c] = [at |-> tool, args |-> args]
    BY <2>1 DEF ToolInv
  <2>3. ProfileOf[c] = "worker" => capability[c] # 0
    BY DEF Execute
  <2>4. tool # "preparing"
    BY DEF Tools
  <2>5. CallOk(c)'
    BY <1>1, <2>2, <2>3, <2>4 DEF CallOk
  <2> QED
    BY <1>1, <2>1, <2>5, OneCall
<1> QED
  BY <1>2, <1>3 DEF Execute

LEMMA StatusIsOk == ASSUME ToolInv, NEW c \in Callers, Status(c) PROVE ToolInv'
<1>1. UNCHANGED <<grade, files, packages, capability>>
  BY DEF Status, Stores, Rest
<1>2. PICK authenticated \in {"yes", "no", "unasked"} :
        Returns(c, [at |-> "idle", status |-> StatusName(authenticated), fix |-> NextFix(authenticated)])
  BY DEF Status
<1> DEFINE y == [at |-> "idle", status |-> StatusName(authenticated), fix |-> NextFix(authenticated)]
<1>3. call' = [call EXCEPT ![c] = y] /\ call'[c] = y
  BY <1>2 DEF Returns, ToolInv
<1>4. StatusName(authenticated) = "ready" <=> NextFix(authenticated) = "none"
  BY DEF StatusName, NextFix
<1>5. y.status = StatusName(authenticated) /\ y.fix = NextFix(authenticated) /\ y.at = "idle" /\ "read" \notin DOMAIN y
  OBVIOUS
<1> HIDE DEF y
<1>6. CallOk(c)'
  BY <1>3, <1>4, <1>5 DEF CallOk
<1> QED
  BY <1>1, <1>3, <1>6, OneCall

LEMMA AnswersAreOk ==
  ASSUME ToolInv, NEW c \in Callers,
         \/ Scout(c) \/ SessionScout(c) \/ ScoutFails(c) \/ AssessFails(c) \/ IssueUnavailable(c)
         \/ Assess(c) \/ SessionAssess(c) \/ Memory(c) \/ Submit(c)
  PROVE  ToolInv'
<1>1. UNCHANGED <<grade, files, packages, capability>>
  BY DEF Scout, SessionScout, ScoutFails, AssessFails, IssueUnavailable, Assess, SessionAssess, Memory, Submit,
     Found, Assessed, Stores, Rest
<1>2. \E status : Fails(c, status)
  BY DEF Scout, SessionScout, ScoutFails, AssessFails, IssueUnavailable, Assess, SessionAssess, Memory, Submit,
     Found, Assessed
<1> QED
  BY <1>1, <1>2, AnswerIsOk

\* The gate decides on the category the issue is assessed in, and remembers it.
LEMMA AssessToPrepareIsOk == ASSUME ToolInv, NEW c \in Callers, AssessToPrepare(c) PROVE ToolInv'
<1> DEFINE args == call[c].args
           category == grade[args.issue]
           decision == PrepareGate(category, BypassOf(args))
           reason == IF decision = "bypassed" THEN args.reason ELSE "none"
           y == [at |-> "preparing", args |-> args, grade |-> category, reason |-> reason]
<1>1. UNCHANGED <<grade, files, packages, capability>> /\ call[c].at = "prepare"
  BY DEF AssessToPrepare, Rest
<1>2. CASE \E status : Fails(c, status)
  BY <1>1, <1>2, AnswerIsOk
<1>3. CASE Goes(c, y) /\ decision # "blocked"
  <2>1. args \in Arguments("prepare")
    BY <1>1 DEF ToolInv, CallOk
  <2>2. args.issue \in ToolIssues /\ args.allow \in BOOLEAN /\ args.reason \in {"blank", "given"}
    BY <2>1 DEF Arguments
  <2>3. category \in Grades
    BY <2>2 DEF ToolInv
  <2>4. reason \in {"none", "blank", "given"} /\ LetThrough(category, reason, args.allow)
    BY <1>3, <2>2 DEF LetThrough, PrepareGate, BypassOf
  <2>5. ProfileOf[c] = "worker" => capability[c] # 0
    BY <1>1 DEF ToolInv, CallOk
  <2>6. call' = [call EXCEPT ![c] = y] /\ call'[c] = y
    BY <1>3 DEF Goes, ToolInv
  <2>7. /\ y.at = "preparing" /\ y.args = args /\ y.grade = category /\ y.reason = reason
        /\ "fix" \notin DOMAIN y /\ "read" \notin DOMAIN y
    OBVIOUS
  <2> HIDE DEF y
  <2>8. y.args \in Arguments("prepare") /\ y.grade \in Grades /\ y.reason \in {"none", "blank", "given"}
        /\ LetThrough(y.grade, y.reason, y.args.allow)
    BY <2>1, <2>3, <2>4, <2>7
  <2>9. CallOk(c)'
    BY <1>1, <2>5, <2>6, <2>7, <2>8 DEF CallOk
  <2> QED
    BY <1>1, <2>6, <2>9, OneCall
<1> QED
  BY <1>2, <1>3 DEF AssessToPrepare

LEMMA PrepareCallIsOk == ASSUME ToolInv, NEW c \in Callers, PrepareCall(c) PROVE ToolInv'
<1>0. PICK p, i : p = call[c] /\ i = p.args.issue
  OBVIOUS
<1> DEFINE version == files[i].version + 1
           d == [version |-> version, grade |-> p.grade, reason |-> p.reason, asked |-> p.args.allow]
           written == [files EXCEPT ![i] = d]
<1>1. UNCHANGED <<grade, packages, capability>> /\ p.at = "preparing"
  BY <1>0 DEF PrepareCall, Rest
<1>2. /\ p.args \in Arguments("prepare") /\ p.grade \in Grades /\ p.reason \in {"none", "blank", "given"}
      /\ LetThrough(p.grade, p.reason, p.args.allow)
  BY <1>0, <1>1 DEF ToolInv, CallOk
<1>3. i \in ToolIssues /\ p.args.allow \in BOOLEAN
  BY <1>0, <1>2 DEF Arguments
<1>4. files' \in {files, written}
  BY <1>0 DEF PrepareCall
<1>5. files[i].version \in Nat
  BY <1>3 DEF ToolInv, Handouts
<1>6. version \in Nat
  BY <1>5
<1> HIDE DEF version
<1>7. d \in Handouts /\ d.grade = p.grade /\ d.reason = p.reason /\ d.asked = p.args.allow
  BY <1>2, <1>3, <1>6 DEF Handouts
<1> HIDE DEF d
<1>8. files' \in [ToolIssues -> Handouts]
  BY <1>3, <1>4, <1>7 DEF ToolInv
<1>9. FilesPassedTheGate'
  <2>1. CASE files' = files
    BY <2>1 DEF ToolInv, FilesPassedTheGate
  <2>2. CASE files' = written
    BY <1>2, <1>3, <1>7, <2>2 DEF ToolInv, FilesPassedTheGate, LetThrough
  <2> QED
    BY <1>4, <2>1, <2>2
<1>10. \E status : call' = [call EXCEPT ![c] = [at |-> "idle", status |-> status]]
  BY DEF PrepareCall, Fails, Returns
<1>11. PICK status : call' = [call EXCEPT ![c] = [at |-> "idle", status |-> status]]
  BY <1>10
<1>12. call'[c] = [at |-> "idle", status |-> status] /\ \A e \in Callers : e # c => call'[e] = call[e]
  BY <1>11 DEF ToolInv
<1>13. ASSUME NEW e \in Callers PROVE CallOk(e)'
  <2>1. CASE e = c
    BY <1>12, <2>1 DEF CallOk
  <2>2. CASE e # c
    BY <1>1, <1>12, <2>2 DEF ToolInv, CallOk
  <2> QED
    BY <2>1, <2>2
<1>14. call' = [e \in Callers |-> call'[e]]
  BY <1>11 DEF ToolInv
<1> QED
  BY <1>1, <1>8, <1>9, <1>13, <1>14 DEF ToolInv

\* A worker reads its package's snapshot, whatever became of the handoff since.
LEMMA ReadContextIsOk == ASSUME ToolInv, NEW c \in Callers, ReadContext(c) PROVE ToolInv'
<1>1. UNCHANGED <<grade, files, packages, capability>> /\ call[c].at = "read_context"
  BY DEF ReadContext, Stores, Rest
<1>2. ProfileOf[c] = "worker" => capability[c] # 0
  BY <1>1 DEF ToolInv, CallOk
<1> DEFINE Answers(y) ==
             /\ call' = [call EXCEPT ![c] = y] /\ y.at = "idle" /\ "fix" \notin DOMAIN y
             /\ ProfileOf[c] = "worker" /\ "read" \in DOMAIN y =>
                  y.read = packages[capability[c]].snapshot /\ y.of = packages[capability[c]].issue
<1>3. PICK y : Answers(y)
  <2>1. ASSUME NEW status, Returns(c, [at |-> "idle", status |-> status]) PROVE \E y : Answers(y)
    <3> DEFINE y == [at |-> "idle", status |-> status]
    <3>1. y.at = "idle" /\ "fix" \notin DOMAIN y /\ "read" \notin DOMAIN y
      OBVIOUS
    <3>2. call' = [call EXCEPT ![c] = y]
      BY <2>1 DEF Returns
    <3> HIDE DEF y
    <3> QED
      BY <3>1, <3>2
  <2>2. CASE Fails(c, "system_error") \/ Returns(c, [at |-> "idle", status |-> "invalid_arguments"])
    BY <2>1, <2>2 DEF Fails
  <2>3. CASE ProfileOf[c] # "worker" /\ Returns(c, ReadSection(c, call[c].args.issue))
    <3>1. ReadSection(c, call[c].args.issue).at = "idle" /\ "fix" \notin DOMAIN ReadSection(c, call[c].args.issue)
      BY DEF ReadSection
    <3> QED
      BY <2>3, <3>1 DEF Returns
  <2>4. CASE ProfileOf[c] = "worker" /\ Returns(c, ReadSnapshot(c, call[c].args.issue))
    <3> DEFINE y == ReadSnapshot(c, call[c].args.issue)
    <3>1. /\ y.at = "idle" /\ "fix" \notin DOMAIN y
          /\ "read" \in DOMAIN y =>
               y.read = packages[capability[c]].snapshot /\ y.of = packages[capability[c]].issue
      BY DEF ReadSnapshot
    <3> HIDE DEF y
    <3>2. call' = [call EXCEPT ![c] = y]
      BY <2>4 DEF Returns, y
    <3> QED
      BY <3>1, <3>2
  <2> QED
    BY <2>2, <2>3, <2>4 DEF ReadContext
<1>4. call'[c] = y
  BY <1>3 DEF ToolInv
<1>5. CallOk(c)'
  BY <1>1, <1>2, <1>3, <1>4 DEF CallOk
<1> QED
  BY <1>1, <1>3, <1>5, OneCall

LEMMA AroundIsOk ==
  ASSUME ToolInv,
         \/ \E i \in ToolIssues : Package(i) \/ \E to \in Grades : Turn(i, to)
         \/ \E c \in Callers : \E p \in DOMAIN packages : Launch(c, p)
  PROVE  ToolInv'
<1>1. ASSUME NEW i \in ToolIssues, NEW to \in Grades, Turn(i, to) PROVE ToolInv'
  <2>1. grade' \in [ToolIssues -> Grades] /\ UNCHANGED <<files, packages, capability, call>>
    BY <1>1 DEF Turn, Stores, ToolInv
  <2> QED
    BY <2>1 DEF ToolInv, CallOk, FilesPassedTheGate
<1>2. ASSUME NEW i \in ToolIssues, Package(i) PROVE ToolInv'
  <2> DEFINE e == [issue |-> i, snapshot |-> files[i].version]
  <2>1. e \in [issue : ToolIssues, snapshot : Nat]
    BY DEF ToolInv, Handouts
  <2>2. packages' = Append(packages, e) /\ UNCHANGED <<grade, files, capability, call>>
    BY <1>2 DEF Package, Rest
  <2> HIDE DEF e
  <2>3. /\ packages' \in Seq([issue : ToolIssues, snapshot : Nat])
        /\ Len(packages') = Len(packages) + 1
        /\ \A k \in 1 .. Len(packages) : packages'[k] = packages[k]
    BY <2>1, <2>2 DEF ToolInv
  <2>4. \A c \in Callers : capability[c] <= Len(packages') /\ (capability[c] # 0 => capability[c] \in 1 .. Len(packages))
    BY <2>3 DEF ToolInv
  <2>5. \A c \in Callers : CallOk(c)'
    BY <2>2, <2>3, <2>4 DEF ToolInv, CallOk
  <2> QED
    BY <2>2, <2>3, <2>4, <2>5 DEF ToolInv, FilesPassedTheGate
<1>3. ASSUME NEW c \in Callers, NEW p \in DOMAIN packages, Launch(c, p) PROVE ToolInv'
  <2>1. /\ capability[c] = 0 /\ capability' = [capability EXCEPT ![c] = p]
        /\ UNCHANGED <<grade, files, packages, call>>
    BY <1>3 DEF Launch, Stores
  <2>2. p \in Nat /\ p # 0 /\ p <= Len(packages)
    BY DEF ToolInv
  <2>3. capability' \in [Callers -> Nat] /\ capability'[c] = p /\ \A d \in Callers : d # c => capability'[d] = capability[d]
    BY <2>1, <2>2 DEF ToolInv
  <2>4. \A d \in Callers : CallOk(d)'
    BY <2>1, <2>2, <2>3 DEF ToolInv, CallOk
  <2> QED
    BY <2>1, <2>2, <2>3, <2>4 DEF ToolInv, FilesPassedTheGate
<1> QED
  BY <1>1, <1>2, <1>3

\* What a tool call answers and leaves behind is what it says: files only of issues the
\* gate or the caller let through, for a worker its package's snapshot however often the
\* handoff is prepared again, and "ready" when nothing is left to repair (tool_runtime.rs).
THEOREM ToolsAreTrue == ToolSpec => []ToolsKeepTheirWord
<1>1. ToolInit => ToolInv
  BY ToolStarts
<1>2. ToolInv /\ [ToolNext]_toolVars => ToolInv'
  <2> SUFFICES ASSUME ToolInv, [ToolNext]_toolVars PROVE ToolInv'
    OBVIOUS
  <2>1. CASE UNCHANGED toolVars
    BY <2>1 DEF toolVars, ToolInv, CallOk, FilesPassedTheGate
  <2>2. CASE ToolNext
    BY <2>2, ExecuteIsOk, StatusIsOk, AnswersAreOk, AssessToPrepareIsOk, PrepareCallIsOk, ReadContextIsOk, AroundIsOk
    DEF ToolNext
  <2> QED
    BY <2>1, <2>2
<1>3. ToolInv => ToolsKeepTheirWord
  BY DEF ToolInv, CallOk, ToolsKeepTheirWord, WorkerReadsItsSnapshot, ReadyNeedsNoFix
<1> QED
  BY <1>1, <1>2, <1>3, PTL DEF ToolSpec
-----------------------------------------------------------------------------
(* What the user says of the memory.                                          *)

Kept == {"none", "kept", "gone"}
HintRow == [status : HintStatuses \cup {"none"}, before : Seq(HintStatuses)]
DreamRow == [evidence : SUBSET Outcomes, status : {"candidate", "tombstoned"}]
HintSteps == {"read", "write", "change"}
CuratorWork ==
  [at : HintSteps \cup {"away", "sync", "node", "dream", "hint", "forget", "nodes", "dreams"},
   hint : Nat, target : HintStatuses \cup {"none"}, seen : HintStatuses \cup {"none"},
   outcome : Outcomes \cup {0}, todo : SUBSET (Outcomes \cup Nat), evidence : SUBSET Outcomes]

TablesTyped ==
  /\ raw \in [Outcomes -> Kept] /\ node \in [Outcomes -> Kept]
  /\ dreams \in Seq(DreamRow) /\ hints \in Seq(HintRow) /\ Len(hints) = Len(dreams)
  /\ control \in HintRow
  /\ approvedByUser \subseteq Nat /\ tombstonedByUser \subseteq HintIds /\ forgot \subseteq Outcomes
CuratorsTyped == curator \in [Curators -> CuratorWork] /\ overlappedMemory \in BOOLEAN

\* A hint that was never reviewed has no earlier status.
NewIsNew == \A h \in HintIds : Hint(h).status = "none" => Hint(h).before = <<>>

\* A status that leads into a ranking again, or led there, once was an approval.
Endorsed == ActiveStatuses \cup {"suppressed", "stale"}
ApprovedOnly ==
  \A h \in DOMAIN hints :
    /\ hints[h].status \in Endorsed => h \in approvedByUser
    /\ \A i \in DOMAIN hints[h].before : hints[h].before[i] \in Endorsed => h \in approvedByUser

\* What a curator at a step has read, and which nothing takes back.
Forgetting(rec) == rec.at \in {"nodes", "dreams"} \/ (rec.at \in HintSteps /\ rec.outcome # 0)
Learned(rec) ==
  /\ rec.at \in HintSteps =>
       rec.hint \in HintIds /\ Hint(rec.hint).status # "none" /\ rec.target \in HintStatuses
  /\ rec.at = "read" => rec.target # "candidate"
  /\ rec.at \in {"write", "change"} =>
       /\ rec.seen \in HintStatuses
       /\ rec.hint # 0 /\ rec.seen \in Endorsed => rec.hint \in approvedByUser
       /\ rec.hint # 0 /\ rec.target \in Endorsed =>
            rec.hint \in approvedByUser \/ (rec.at = "write" /\ rec.target = "approved")
  /\ rec.at = "hint" => rec.hint \in DOMAIN hints
  /\ rec.at \in {"node", "forget", "nodes", "dreams"} => rec.outcome \in Outcomes
  /\ Forgetting(rec) =>
       rec.outcome \in Outcomes /\ raw[rec.outcome] = "gone"
  /\ rec.at = "dreams" \/ (rec.at \in HintSteps /\ rec.outcome # 0) => rec.todo \subseteq DOMAIN dreams
  /\ rec.at \in HintSteps /\ rec.outcome # 0 => rec.hint # 0 /\ rec.target = "tombstoned"
CuratorsLearned == \A c \in Curators : Learned(curator[c])

\* A dream without a say: its hint was never made or is tombstoned.
Silenced(d) == hints[d].status \in {"none", "tombstoned"}
\* What is still as a curator found it, until two commands overlap.
Current(rec) ==
  /\ rec.at = "write" => Hint(rec.hint).status # "tombstoned"
  /\ rec.at = "change" => Hint(rec.hint).status = rec.target
  /\ rec.at = "dream" => \A o \in rec.evidence : raw[o] = "kept"
  /\ rec.at = "hint" => hints[rec.hint].status = "none" /\ \A o \in dreams[rec.hint].evidence : raw[o] = "kept"
  /\ rec.at = "dreams" => \A d \in DreamsOn(rec.outcome) \ rec.todo : Silenced(d)
  /\ rec.at \in HintSteps /\ rec.outcome # 0 =>
       \A d \in DreamsOn(rec.outcome) \ (rec.todo \cup {rec.hint}) : Silenced(d)
NothingChanged == ~overlappedMemory => \A c \in Curators : Current(curator[c])
OneCurator ==
  ~overlappedMemory => \A c, d \in Curators : curator[c] # Away /\ curator[d] # Away => c = d

ForgottenIsGone == \A o \in forgot : raw[o] = "gone"
ForgottenIsSilent == ~overlappedMemory => \A o \in forgot : \A d \in DreamsOn(o) : Silenced(d)

TablesInv == TablesTyped /\ NewIsNew /\ ApprovedOnly /\ ForgottenIsGone
PromisesInv == TombstonesStay /\ ForgottenIsSilent
MemoryInv ==
  /\ TablesInv /\ PromisesInv
  /\ CuratorsTyped /\ CuratorsLearned /\ OneCurator /\ NothingChanged
-----------------------------------------------------------------------------
LEMMA AwayFacts ==
  /\ Away \in CuratorWork /\ Away.at = "away"
  /\ NoHint \in HintRow /\ NoHint.status = "none" /\ NoHint.before = <<>>
<1>1. Away \in CuratorWork /\ Away.at = "away"
  BY DEF Away, CuratorWork
<1>2. <<>> \in Seq(HintStatuses)
  OBVIOUS
<1> QED
  BY <1>1, <1>2 DEF NoHint, HintRow

LEMMA RowFacts ==
  ASSUME TablesTyped
  PROVE  /\ DOMAIN hints = 1..Len(hints) /\ DOMAIN dreams = 1..Len(hints) /\ Len(hints) \in Nat
         /\ 0 \notin DOMAIN hints /\ HintIds \subseteq Nat
         /\ \A h \in HintIds : Hint(h) \in HintRow
         /\ \A d \in DOMAIN dreams : dreams[d] \in DreamRow
<1>1. DOMAIN hints = 1..Len(hints) /\ DOMAIN dreams = 1..Len(hints) /\ Len(hints) \in Nat
  BY DEF TablesTyped
<1>2. \A h \in 1..Len(hints) : hints[h] \in HintRow
  BY ElementOfSeq DEF TablesTyped
<1>3. \A d \in 1..Len(dreams) : dreams[d] \in DreamRow
  BY ElementOfSeq DEF TablesTyped
<1>4. \A h \in HintIds : Hint(h) \in HintRow
  BY <1>1, <1>2 DEF TablesTyped, HintIds, Hint
<1> QED
  BY <1>1, <1>3, <1>4 DEF TablesTyped, HintIds

\* A curator takes up a command or goes on with it.
MovesTo(c, rec) ==
  /\ rec \in CuratorWork /\ curator' = [curator EXCEPT ![c] = rec]
  /\ \/ curator[c] # Away /\ overlappedMemory' = overlappedMemory
     \/ Began(c, rec)

LEMMA MoveEffect ==
  ASSUME CuratorsTyped, OneCurator, NEW c \in Curators, NEW rec, MovesTo(c, rec)
  PROVE  /\ CuratorsTyped' /\ OneCurator' /\ (~overlappedMemory' => ~overlappedMemory)
         /\ curator'[c] = rec /\ \A d \in Curators : d # c => curator'[d] = curator[d]
         /\ ~overlappedMemory' => \A d \in Curators : d # c => curator'[d] = Away
<1>1. overlappedMemory' \in BOOLEAN /\ (~overlappedMemory' => ~overlappedMemory)
  <2>1. CASE curator[c] # Away /\ overlappedMemory' = overlappedMemory
    BY <2>1 DEF CuratorsTyped
  <2>2. CASE Began(c, rec)
    BY <2>2 DEF Began
  <2> QED
    BY <2>1, <2>2 DEF MovesTo
<1>2. /\ curator' \in [Curators -> CuratorWork]
      /\ curator'[c] = rec /\ \A d \in Curators : d # c => curator'[d] = curator[d]
  BY DEF MovesTo, CuratorsTyped
<1>3. ~overlappedMemory' => \A d \in Curators : d # c => curator[d] = Away
  <2>1. CASE curator[c] # Away
    BY <1>1, <2>1 DEF OneCurator
  <2>2. CASE Began(c, rec)
    BY <2>2 DEF Began
  <2> QED
    BY <2>1, <2>2 DEF MovesTo
<1> QED
  BY <1>1, <1>2, <1>3 DEF CuratorsTyped, OneCurator

\* What no command takes back.
Grown ==
  /\ \A h \in HintIds : h \in HintIds' /\ (Hint(h).status # "none" => Hint(h)'.status # "none")
  /\ approvedByUser \subseteq approvedByUser'
  /\ \A o \in Outcomes : raw[o] = "gone" => raw'[o] = "gone"
  /\ \A d \in DOMAIN dreams : d \in DOMAIN dreams' /\ dreams'[d].evidence = dreams[d].evidence

LEMMA OthersLearned ==
  ASSUME TablesTyped, CuratorsLearned, Grown, NEW d \in Curators, curator'[d] = curator[d]
  PROVE  Learned(curator[d])'
<1>1. DOMAIN hints \subseteq DOMAIN hints'
  BY RowFacts DEF Grown, HintIds
<1> QED
  BY <1>1 DEF CuratorsLearned, Learned, Forgetting, Grown

LEMMA AwayIsFree ==
  ASSUME NEW c \in Curators, curator'[c] = Away
  PROVE  Learned(curator[c])' /\ Current(curator[c])'
  BY DEF Learned, Current, Forgetting, Away, HintSteps

\* A step of one curator keeps the invariant when the tables do, and what that
\* curator knows is so.
LEMMA Assembled ==
  ASSUME MemoryInv, NEW c \in Curators, NEW rec, MovesTo(c, rec), Grown, TablesInv', PromisesInv',
         Learned(curator[c])', ~overlappedMemory' => Current(curator[c])'
  PROVE  MemoryInv'
<1>1. /\ CuratorsTyped' /\ OneCurator'
      /\ \A d \in Curators : d # c => curator'[d] = curator[d]
      /\ ~overlappedMemory' => \A d \in Curators : d # c => curator'[d] = Away
  BY MoveEffect DEF MemoryInv
<1>2. CuratorsLearned'
  <2>1. ASSUME NEW d \in Curators PROVE Learned(curator[d])'
    <3>1. CASE d # c
      BY <1>1, <3>1, OthersLearned DEF MemoryInv, TablesInv
    <3>2. CASE d = c
      BY <3>2 DEF Learned, Forgetting
    <3> QED
      BY <3>1, <3>2
  <2> QED
    BY <2>1 DEF CuratorsLearned
<1>3. NothingChanged'
  <2>1. ASSUME ~overlappedMemory', NEW d \in Curators PROVE Current(curator[d])'
    <3>1. CASE d # c
      BY <1>1, <2>1, <3>1, AwayIsFree
    <3>2. CASE d = c
      BY <2>1, <3>2 DEF Current
    <3> QED
      BY <3>1, <3>2
  <2> QED
    BY <2>1 DEF NothingChanged
<1> QED
  BY <1>1, <1>2, <1>3 DEF MemoryInv

\* A step that reads only.
LEMMA ReadingKeeps ==
  ASSUME MemoryInv, NEW c \in Curators, NEW rec, MovesTo(c, rec),
         UNCHANGED memoryTables, UNCHANGED <<approvedByUser, forgot>>,
         \/ tombstonedByUser' = tombstonedByUser
         \/ \E h \in HintIds : /\ Hint(h).status = "tombstoned"
                               /\ tombstonedByUser' = tombstonedByUser \cup {h},
         Learned(curator[c])', ~overlappedMemory' => Current(curator[c])'
  PROVE  MemoryInv'
<1>1. /\ raw' = raw /\ node' = node /\ dreams' = dreams /\ hints' = hints /\ control' = control
      /\ approvedByUser' = approvedByUser /\ forgot' = forgot
  BY DEF memoryTables
<1>2. Grown
  BY <1>1 DEF Grown, Hint, HintIds
<1>3. TablesInv'
  BY <1>1 DEF MemoryInv, TablesInv, TablesTyped, NewIsNew, ApprovedOnly, ForgottenIsGone, HintIds, Hint
<1>4. ~overlappedMemory' => ~overlappedMemory
  BY MoveEffect DEF MemoryInv
<1>5. TombstonesStay'
  BY <1>1, <1>4 DEF MemoryInv, PromisesInv, TombstonesStay, Hint
<1>6. ForgottenIsSilent'
  BY <1>1, <1>4 DEF MemoryInv, PromisesInv, ForgottenIsSilent, DreamsOn, Silenced
<1> QED
  BY <1>2, <1>3, <1>5, <1>6, Assembled DEF PromisesInv
-----------------------------------------------------------------------------
LEMMA UpdateHintKeeps ==
  ASSUME MemoryInv, NEW c \in Curators, NEW h \in HintIds, NEW t \in Targets, UpdateHint(c, h, t)
  PROVE  MemoryInv'
<1> DEFINE rec == [Away EXCEPT !.at = "read", !.hint = h, !.target = t]
<1>1. t \in HintStatuses /\ t # "candidate" /\ h \in Nat
  BY MemoryAssumption, RowFacts DEF MemoryInv, TablesInv
<1>2. /\ rec \in CuratorWork /\ rec.at = "read" /\ rec.hint = h /\ rec.target = t /\ rec.outcome = 0
  BY <1>1 DEF Away, CuratorWork, HintSteps
<1>3. Began(c, rec) /\ UNCHANGED memoryTables /\ Hint(h) # NoHint
      /\ UNCHANGED <<approvedByUser, tombstonedByUser, forgot>>
  BY DEF UpdateHint, NoHistory
<1> HIDE DEF rec
<1>4. MovesTo(c, rec)
  BY <1>2, <1>3 DEF MovesTo, Began
<1>5. curator'[c] = rec
  BY <1>4, MoveEffect DEF MemoryInv
<1>6. Hint(h).status # "none"
  <2>1. Hint(h) \in HintRow
    BY RowFacts DEF MemoryInv, TablesInv
  <2>2. ASSUME Hint(h).status = "none" PROVE Hint(h) = NoHint
    <3>1. Hint(h).before = <<>>
      BY <2>2 DEF MemoryInv, TablesInv, NewIsNew
    <3> QED
      BY <2>1, <2>2, <3>1 DEF NoHint, HintRow
  <2> QED
    BY <1>3, <2>2
<1>7. Learned(curator[c])' /\ Current(curator[c])'
  BY <1>1, <1>2, <1>3, <1>5, <1>6 DEF Learned, Current, Forgetting, HintSteps, memoryTables, Hint, HintIds
<1> QED
  BY <1>3, <1>4, <1>7, ReadingKeeps

LEMMA RestoreHintKeeps ==
  ASSUME MemoryInv, NEW c \in Curators, NEW h \in HintIds, RestoreHint(c, h)
  PROVE  MemoryInv'
<1> DEFINE was == Hint(h).before[Len(Hint(h).before)]
           rec == [Away EXCEPT !.at = "write", !.hint = h, !.seen = Hint(h).status, !.target = was]
<1>1. Hint(h) \in HintRow /\ h \in Nat
  BY RowFacts DEF MemoryInv, TablesInv
<1>2. Hint(h).before # <<>> /\ Hint(h).status # "tombstoned"
  BY DEF RestoreHint
<1>3. Hint(h).status # "none"
  BY <1>2 DEF MemoryInv, TablesInv, NewIsNew
<1>4. Hint(h).before \in Seq(HintStatuses) /\ Hint(h).status \in HintStatuses
  BY <1>1, <1>3 DEF HintRow
<1>5. Len(Hint(h).before) \in 1..Len(Hint(h).before) /\ Len(Hint(h).before) \in DOMAIN Hint(h).before
  BY <1>2, <1>4, EmptySeq
<1>6. was \in HintStatuses
  BY <1>4, <1>5, ElementOfSeq
<1>7. /\ rec \in CuratorWork /\ rec.at = "write" /\ rec.hint = h /\ rec.target = was
      /\ rec.seen = Hint(h).status /\ rec.outcome = 0
  BY <1>1, <1>4, <1>6 DEF Away, CuratorWork, HintSteps
<1>8. Began(c, rec) /\ UNCHANGED memoryTables /\ UNCHANGED <<approvedByUser, tombstonedByUser, forgot>>
  BY DEF RestoreHint, NoHistory
<1>9. h # 0 /\ (was \in Endorsed \/ Hint(h).status \in Endorsed) => h \in approvedByUser
  BY <1>5 DEF MemoryInv, TablesInv, ApprovedOnly, HintIds, Hint
<1> HIDE DEF rec, was
<1>10. MovesTo(c, rec)
  BY <1>7, <1>8 DEF MovesTo, Began
<1>11. curator'[c] = rec
  BY <1>10, MoveEffect DEF MemoryInv
<1>12. Hint(h)' = Hint(h) /\ HintIds' = HintIds /\ raw' = raw /\ dreams' = dreams /\ approvedByUser' = approvedByUser
  BY <1>8 DEF memoryTables, Hint, HintIds
<1>13. Learned(curator[c])' /\ Current(curator[c])'
  BY <1>2, <1>3, <1>4, <1>6, <1>7, <1>9, <1>11, <1>12 DEF Learned, Current, Forgetting, HintSteps
<1> QED
  BY <1>8, <1>10, <1>13, ReadingKeeps

\* Where a command goes on is a place it may be.
LEMMA AfterwardsFacts ==
  ASSUME NEW rec \in CuratorWork
  PROVE  /\ Afterwards(rec) \in CuratorWork
         /\ rec.outcome = 0 => Afterwards(rec) = Away
         /\ rec.outcome # 0 => /\ Afterwards(rec).at = "dreams" /\ Afterwards(rec).outcome = rec.outcome
                               /\ Afterwards(rec).todo = rec.todo
  BY AwayFacts DEF Afterwards, CuratorWork

LEMMA ReadHintKeeps ==
  ASSUME MemoryInv, NEW c \in Curators, ReadHint(c)
  PROVE  MemoryInv'
<1> DEFINE rec == curator[c]
           from == Hint(rec.hint).status
           next == [rec EXCEPT !.at = "write", !.seen = from]
<1>1. rec \in CuratorWork /\ rec.at = "read" /\ rec # Away
  BY AwayFacts DEF MemoryInv, CuratorsTyped, ReadHint
<1>2. Learned(rec)
  BY DEF MemoryInv, CuratorsLearned
<1>3. /\ rec.hint \in HintIds /\ from # "none" /\ rec.target \in HintStatuses /\ rec.target # "candidate"
      /\ rec.outcome # 0 => /\ rec.outcome \in Outcomes /\ raw[rec.outcome] = "gone"
                            /\ rec.todo \subseteq DOMAIN dreams /\ rec.hint # 0 /\ rec.target = "tombstoned"
  BY <1>1, <1>2 DEF Learned, Forgetting, HintSteps
<1>4. from \in HintStatuses
  BY <1>3, RowFacts DEF MemoryInv, TablesInv, HintRow
<1>5. UNCHANGED memoryTables /\ UNCHANGED <<approvedByUser, forgot>>
  BY DEF ReadHint
<1>6. /\ next \in CuratorWork /\ next.at = "write" /\ next.seen = from /\ next.hint = rec.hint
      /\ next.target = rec.target /\ next.outcome = rec.outcome /\ next.todo = rec.todo
  BY <1>1, <1>4 DEF CuratorWork, HintSteps
<1>7. CASE from = rec.target
  <2>1. Moved(c, Afterwards(rec)) /\ Told(rec)
    BY <1>7 DEF ReadHint
  <2>2. MovesTo(c, Afterwards(rec))
    BY <1>1, <2>1, AfterwardsFacts DEF Moved, MovesTo
  <2>3. curator'[c] = Afterwards(rec) /\ (~overlappedMemory' => ~overlappedMemory)
    BY <2>2, MoveEffect DEF MemoryInv
  <2>4. CASE rec.outcome = 0
    <3>1. Learned(curator[c])' /\ Current(curator[c])'
      BY <1>1, <2>3, <2>4, AfterwardsFacts, AwayIsFree
    <3> QED
      BY <1>3, <1>5, <1>7, <2>1, <2>2, <3>1, ReadingKeeps DEF Told
  <2>5. CASE rec.outcome # 0
    <3>1. /\ curator'[c].at = "dreams" /\ curator'[c].outcome = rec.outcome /\ curator'[c].todo = rec.todo
      BY <1>1, <2>3, <2>5, AfterwardsFacts
    <3>2. ~overlappedMemory' => \A d \in DreamsOn(rec.outcome) \ rec.todo : Silenced(d)
      BY <1>1, <1>3, <1>7, <2>3, <2>5 DEF MemoryInv, NothingChanged, Current, Silenced, Hint, HintSteps
    <3>3. raw' = raw /\ dreams' = dreams /\ hints' = hints
      BY <1>5 DEF memoryTables
    <3>4. Learned(curator[c])' /\ (~overlappedMemory' => Current(curator[c])')
      BY <1>3, <2>5, <3>1, <3>2, <3>3 DEF Learned, Current, Forgetting, HintSteps, DreamsOn, Silenced
    <3> QED
      BY <1>3, <1>5, <1>7, <2>1, <2>2, <3>4, ReadingKeeps DEF Told
  <2> QED
    BY <2>4, <2>5
<1>8. CASE from # rec.target /\ ValidTransition(from, rec.target)
  <2>1. Moved(c, next) /\ tombstonedByUser' = tombstonedByUser
    BY <1>8 DEF ReadHint
  <2>2. MovesTo(c, next)
    BY <1>1, <1>6, <2>1 DEF Moved, MovesTo
  <2>3. curator'[c] = next /\ (~overlappedMemory' => ~overlappedMemory)
    BY <2>2, MoveEffect DEF MemoryInv
  <2>4. from # "tombstoned"
    BY <1>8 DEF ValidTransition, ActiveStatuses
  <2>5. /\ (\A h \in HintIds : Hint(h)' = Hint(h)) /\ HintIds' = HintIds /\ raw' = raw /\ dreams' = dreams
        /\ hints' = hints /\ approvedByUser' = approvedByUser
    BY <1>5 DEF memoryTables, Hint, HintIds
  <2>6. rec.hint # 0 /\ from \in Endorsed => rec.hint \in approvedByUser
    BY <1>3 DEF MemoryInv, TablesInv, ApprovedOnly, HintIds, Hint
  <2>7. rec.target \in Endorsed => from \in Endorsed \/ rec.target = "approved"
    BY <1>8 DEF ValidTransition, Endorsed, ActiveStatuses
  <2> HIDE DEF next
  <2>8. Learned(curator[c])'
    BY <1>3, <1>4, <1>6, <2>3, <2>5, <2>6, <2>7 DEF Learned, Forgetting, HintSteps
  <2>9. ~overlappedMemory' => Current(curator[c])'
    BY <1>1, <1>3, <1>6, <2>3, <2>4, <2>5 DEF MemoryInv, NothingChanged, Current, HintSteps, DreamsOn, Silenced
  <2> QED
    BY <1>5, <2>1, <2>2, <2>8, <2>9, ReadingKeeps
<1>9. CASE from # rec.target /\ ~ValidTransition(from, rec.target)
  <2>1. Moved(c, Away) /\ tombstonedByUser' = tombstonedByUser
    BY <1>9 DEF ReadHint
  <2>2. MovesTo(c, Away)
    BY <1>1, <2>1, AwayFacts DEF Moved, MovesTo
  <2>3. Learned(curator[c])' /\ Current(curator[c])'
    BY <2>2, MoveEffect, AwayIsFree DEF MemoryInv
  <2> QED
    BY <1>5, <2>1, <2>2, <2>3, ReadingKeeps
<1> QED
  BY <1>7, <1>8, <1>9

LEMMA SetHintEffect ==
  ASSUME TablesTyped, NEW h \in HintIds, NEW new \in HintRow, SetHint(h, new)
  PROVE  /\ hints' \in Seq(HintRow) /\ control' \in HintRow /\ Len(hints') = Len(hints)
         /\ DOMAIN hints' = DOMAIN hints /\ HintIds' = HintIds
         /\ Hint(h)' = new /\ \A k \in HintIds : k # h => Hint(k)' = Hint(k)
<1>1. CASE h = 0
  BY <1>1, RowFacts DEF SetHint, TablesTyped, Hint, HintIds
<1>2. CASE h # 0
  <2>1. hints' = [hints EXCEPT ![h] = new] /\ control' = control
    BY <1>2 DEF SetHint
  <2>2. h \in 1..Len(hints) /\ DOMAIN hints = 1..Len(hints) /\ hints \in Seq(HintRow)
    BY <1>2, RowFacts DEF HintIds, TablesTyped
  <2>3. /\ hints' \in Seq(HintRow) /\ Len(hints') = Len(hints) /\ DOMAIN hints' = DOMAIN hints
        /\ hints'[h] = new /\ \A k \in DOMAIN hints : k # h => hints'[k] = hints[k]
    BY <2>1, <2>2, ExceptSeq
  <2> QED
    BY <1>2, <2>1, <2>2, <2>3 DEF HintIds, Hint, TablesTyped
<1> QED
  BY <1>1, <1>2

LEMMA WriteHintKeeps ==
  ASSUME MemoryInv, NEW c \in Curators, WriteHint(c)
  PROVE  MemoryInv'
<1> DEFINE rec == curator[c]
           h == rec.hint
           new == [Hint(h) EXCEPT !.status = rec.target]
           next == [rec EXCEPT !.at = "change"]
<1> USE DEF MemoryInv, TablesInv
<1>1. rec \in CuratorWork /\ rec.at = "write" /\ rec # Away
  BY AwayFacts DEF CuratorsTyped, WriteHint
<1>2. Learned(rec) /\ (~overlappedMemory => Current(rec))
  BY DEF CuratorsLearned, NothingChanged
<1>3. /\ h \in HintIds /\ Hint(h) \in HintRow /\ Hint(h).status # "none"
      /\ rec.target \in HintStatuses /\ rec.target # "none" /\ rec.seen \in HintStatuses
      /\ ~overlappedMemory => Hint(h).status # "tombstoned"
  BY <1>1, <1>2, RowFacts DEF Learned, Current, HintSteps, HintStatuses, ActiveStatuses
<1>4. new \in HintRow /\ new.status = rec.target /\ new.before = Hint(h).before
  BY <1>3 DEF HintRow
<1>5. /\ next \in CuratorWork /\ next.at = "change" /\ next.hint = h /\ next.target = rec.target
      /\ next.seen = rec.seen /\ next.outcome = rec.outcome /\ next.todo = rec.todo
  BY <1>1 DEF CuratorWork, HintSteps
<1>6. /\ SetHint(h, new) /\ Moved(c, next) /\ raw' = raw /\ node' = node /\ dreams' = dreams
      /\ tombstonedByUser' = tombstonedByUser /\ forgot' = forgot
      /\ approvedByUser' = IF rec.target = "approved" THEN approvedByUser \cup {h} ELSE approvedByUser
  BY DEF WriteHint
<1> HIDE DEF new, next
<1>7. /\ hints' \in Seq(HintRow) /\ control' \in HintRow /\ Len(hints') = Len(hints)
      /\ DOMAIN hints' = DOMAIN hints /\ HintIds' = HintIds
      /\ \A k \in HintIds : Hint(k)' = IF k = h THEN new ELSE Hint(k)
  BY <1>3, <1>4, <1>6, SetHintEffect
<1>8. MovesTo(c, next)
  BY <1>1, <1>5, <1>6 DEF Moved, MovesTo
<1>9. curator'[c] = next /\ (~overlappedMemory' => ~overlappedMemory)
  BY <1>8, MoveEffect
<1>10. Grown
  BY <1>3, <1>4, <1>6, <1>7 DEF Grown
<1>11. TablesTyped'
  BY <1>3, <1>6, <1>7, RowFacts DEF TablesTyped
<1>12. NewIsNew'
  BY <1>3, <1>4, <1>7 DEF NewIsNew
<1>13. \A k \in DOMAIN hints : hints'[k] = IF k = h THEN new ELSE hints[k]
  BY <1>7, RowFacts DEF HintIds, Hint
<1>14. h # 0 => Hint(h) = hints[h] /\ h \in DOMAIN hints
  BY <1>3 DEF HintIds, Hint
<1>15. h # 0 /\ rec.target \in Endorsed => h \in approvedByUser'
  BY <1>1, <1>2, <1>6 DEF Learned
<1>16. ApprovedOnly'
  BY <1>4, <1>6, <1>7, <1>13, <1>14, <1>15, RowFacts DEF ApprovedOnly
<1>17. TombstonesStay'
  BY <1>3, <1>6, <1>7, <1>9 DEF PromisesInv, TombstonesStay, TablesTyped
<1>18. ForgottenIsSilent'
  BY <1>3, <1>6, <1>7, <1>9, <1>13, <1>14, RowFacts DEF PromisesInv, ForgottenIsSilent, DreamsOn, Silenced
<1>19. ForgottenIsGone'
  BY <1>6 DEF ForgottenIsGone
<1>20. Learned(curator[c])'
  BY <1>1, <1>2, <1>3, <1>4, <1>5, <1>6, <1>7, <1>9, <1>15 DEF Learned, Forgetting, HintSteps
<1>21. ~overlappedMemory' => Current(curator[c])'
  BY <1>1, <1>2, <1>3, <1>4, <1>5, <1>6, <1>7, <1>9, <1>13, RowFacts DEF Current, DreamsOn, Silenced, HintSteps
<1> QED
  BY <1>8, <1>10, <1>11, <1>12, <1>16, <1>17, <1>18, <1>19, <1>20, <1>21, Assembled DEF PromisesInv

LEMMA RecordChangeKeeps ==
  ASSUME MemoryInv, NEW c \in Curators, RecordChange(c)
  PROVE  MemoryInv'
<1> DEFINE rec == curator[c]
           h == rec.hint
           new == [Hint(h) EXCEPT !.before = Append(@, rec.seen)]
           next == Afterwards(rec)
<1> USE DEF MemoryInv, TablesInv
<1>1. rec \in CuratorWork /\ rec.at = "change" /\ rec # Away
  BY AwayFacts DEF CuratorsTyped, RecordChange
<1>2. Learned(rec) /\ (~overlappedMemory => Current(rec))
  BY DEF CuratorsLearned, NothingChanged
<1>3. /\ h \in HintIds /\ Hint(h) \in HintRow /\ Hint(h).status # "none"
      /\ rec.target \in HintStatuses /\ rec.seen \in HintStatuses
      /\ ~overlappedMemory => Hint(h).status = rec.target
      /\ h # 0 /\ rec.seen \in Endorsed => h \in approvedByUser
  BY <1>1, <1>2, RowFacts DEF Learned, Current, HintSteps
<1>4. /\ Hint(h).before \in Seq(HintStatuses)
      /\ Append(Hint(h).before, rec.seen) \in Seq(HintStatuses)
      /\ \A i \in DOMAIN Append(Hint(h).before, rec.seen) :
           \/ Append(Hint(h).before, rec.seen)[i] = rec.seen
           \/ i \in DOMAIN Hint(h).before /\ Append(Hint(h).before, rec.seen)[i] = Hint(h).before[i]
  BY <1>3 DEF HintRow
<1>5. /\ new \in HintRow /\ new.status = Hint(h).status
      /\ new.before = Append(Hint(h).before, rec.seen)
  BY <1>3, <1>4 DEF HintRow
<1>6. /\ SetHint(h, new) /\ Moved(c, next) /\ raw' = raw /\ node' = node /\ dreams' = dreams
      /\ Told(rec) /\ forgot' = forgot /\ approvedByUser' = approvedByUser
  BY DEF RecordChange
<1>7. /\ next \in CuratorWork /\ (rec.outcome = 0 => next = Away)
      /\ rec.outcome # 0 => next.at = "dreams" /\ next.outcome = rec.outcome /\ next.todo = rec.todo
  BY <1>1, AfterwardsFacts
<1> HIDE DEF new, next
<1>8. /\ hints' \in Seq(HintRow) /\ control' \in HintRow /\ Len(hints') = Len(hints)
      /\ DOMAIN hints' = DOMAIN hints /\ HintIds' = HintIds
      /\ \A k \in HintIds : Hint(k)' = IF k = h THEN new ELSE Hint(k)
  BY <1>3, <1>5, <1>6, SetHintEffect
<1>9. MovesTo(c, next)
  BY <1>1, <1>6, <1>7 DEF Moved, MovesTo
<1>10. curator'[c] = next /\ (~overlappedMemory' => ~overlappedMemory)
  BY <1>9, MoveEffect
<1>11. \A k \in HintIds : Hint(k)'.status = Hint(k).status
  BY <1>5, <1>8
<1>12. Grown
  BY <1>6, <1>8, <1>11 DEF Grown
<1>13. TablesTyped'
  BY <1>3, <1>6, <1>8, RowFacts DEF TablesTyped, Told
<1>14. NewIsNew'
  BY <1>3, <1>5, <1>8 DEF NewIsNew
<1>15. \A k \in DOMAIN hints : hints'[k] = IF k = h THEN new ELSE hints[k]
  BY <1>8, RowFacts DEF HintIds, Hint
<1>16. h # 0 => Hint(h) = hints[h] /\ h \in DOMAIN hints
  BY <1>3 DEF HintIds, Hint
<1>17. ApprovedOnly'
  <2>1. ASSUME NEW k \in DOMAIN hints, k = h
        PROVE  /\ new.status \in Endorsed => k \in approvedByUser
               /\ \A i \in DOMAIN new.before : new.before[i] \in Endorsed => k \in approvedByUser
    <3>1. k # 0
      BY RowFacts
    <3> QED
      BY <1>3, <1>4, <1>5, <1>16, <2>1, <3>1 DEF ApprovedOnly
  <2> QED
    BY <1>6, <1>8, <1>15, <2>1 DEF ApprovedOnly
<1>18. TombstonesStay'
  BY <1>3, <1>6, <1>10, <1>11 DEF PromisesInv, TombstonesStay, TablesTyped, Told
<1>19. \A d \in DOMAIN hints : hints'[d].status = hints[d].status
  BY <1>5, <1>15, <1>16, RowFacts
<1>20. ForgottenIsSilent'
  BY <1>6, <1>10, <1>19, RowFacts DEF PromisesInv, ForgottenIsSilent, DreamsOn, Silenced
<1>21. ForgottenIsGone'
  BY <1>6 DEF ForgottenIsGone
<1>22. Learned(curator[c])' /\ (~overlappedMemory' => Current(curator[c])')
  <2>1. CASE rec.outcome = 0
    BY <1>7, <1>10, <2>1, AwayIsFree
  <2>2. CASE rec.outcome # 0
    <3>1. rec.outcome \in Outcomes /\ raw[rec.outcome] = "gone" /\ rec.todo \subseteq DOMAIN dreams
          /\ h # 0 /\ rec.target = "tombstoned"
      BY <1>1, <1>2, <2>2 DEF Learned, Forgetting, HintSteps
    <3>2. ~overlappedMemory' => \A d \in DreamsOn(rec.outcome) \ rec.todo : Silenced(d)
      BY <1>1, <1>2, <1>3, <1>10, <1>16, <2>2, <3>1 DEF Current, Silenced, HintSteps
    <3>3. /\ curator'[c].at = "dreams" /\ curator'[c].outcome = rec.outcome /\ curator'[c].todo = rec.todo
      BY <1>7, <1>10, <2>2
    <3> QED
      BY <1>6, <1>19, <3>1, <3>2, <3>3, RowFacts DEF Learned, Current, Forgetting, HintSteps, DreamsOn, Silenced
  <2> QED
    BY <2>1, <2>2
<1> QED
  BY <1>9, <1>12, <1>13, <1>14, <1>17, <1>18, <1>20, <1>21, <1>22, Assembled DEF PromisesInv

LEMMA SuppressScopeKeeps ==
  ASSUME MemoryInv, NEW c \in Curators, SuppressScope(c)
  PROVE  MemoryInv'
<1> USE DEF MemoryInv, TablesInv
<1>1. /\ raw' = raw /\ node' = node /\ dreams' = dreams /\ hints' = hints /\ curator' = curator
      /\ approvedByUser' = approvedByUser /\ tombstonedByUser' = tombstonedByUser /\ forgot' = forgot
      /\ overlappedMemory' = overlappedMemory
  BY DEF SuppressScope
<1>2. /\ control' \in HintRow /\ control'.status # "none"
      /\ control.status # "none" => control' = control
  <2>1. CASE control = NoHint
    <3>1. control' = [NoHint EXCEPT !.status = "suppressed"]
      BY <2>1 DEF SuppressScope
    <3> QED
      BY <2>1, <3>1, AwayFacts DEF HintRow, HintStatuses
  <2>2. CASE control # NoHint
    <3>1. control' = control
      BY <2>2 DEF SuppressScope
    <3>2. control.status # "none"
      <4>1. Hint(0) = control /\ 0 \in HintIds
        BY DEF Hint, HintIds
      <4>2. control.status = "none" => control = NoHint
        BY <4>1 DEF NewIsNew, TablesTyped, HintRow, NoHint
      <4> QED
        BY <2>2, <4>2
    <3> QED
      BY <3>1, <3>2 DEF TablesTyped
  <2> QED
    BY <2>1, <2>2
<1>3. HintIds' = HintIds /\ \A h \in HintIds : Hint(h).status # "none" => Hint(h)' = Hint(h)
  BY <1>1, <1>2 DEF HintIds, Hint
<1>4. \A h \in HintIds : h # 0 => Hint(h)' = Hint(h)
  BY <1>1 DEF Hint
<1>5. Grown
  BY <1>1, <1>3 DEF Grown
<1>6. TablesTyped'
  BY <1>1, <1>2, <1>3 DEF TablesTyped
<1>7. NewIsNew'
  BY <1>2, <1>3, <1>4 DEF NewIsNew, Hint
<1>8. ApprovedOnly' /\ ForgottenIsGone' /\ ForgottenIsSilent'
  BY <1>1 DEF ApprovedOnly, ForgottenIsGone, PromisesInv, ForgottenIsSilent, DreamsOn, Silenced
<1>9. TombstonesStay'
  BY <1>1, <1>3 DEF PromisesInv, TombstonesStay, TablesTyped
<1>10. CuratorsLearned'
  BY <1>1, <1>5, OthersLearned DEF CuratorsLearned
<1>11. CuratorsTyped' /\ OneCurator'
  BY <1>1 DEF CuratorsTyped, OneCurator
<1>12. NothingChanged'
  <2>1. ASSUME NEW d \in Curators, ~overlappedMemory PROVE Current(curator[d])'
    <3>1. Current(curator[d]) /\ Learned(curator[d])
      BY <2>1 DEF NothingChanged, CuratorsLearned
    <3> QED
      BY <1>1, <1>3, <3>1 DEF Current, Learned, HintSteps, DreamsOn, Silenced
  <2> QED
    BY <1>1, <2>1 DEF NothingChanged
<1> QED
  BY <1>6, <1>7, <1>8, <1>9, <1>10, <1>11, <1>12 DEF PromisesInv
-----------------------------------------------------------------------------
\* The steps of a dream.
LEMMA DreamKeeps ==
  ASSUME MemoryInv, NEW c \in Curators, Dream(c)
  PROVE  MemoryInv'
<1> DEFINE rec == [Away EXCEPT !.at = "sync", !.todo = Outcomes]
<1>1. rec \in CuratorWork /\ rec.at = "sync" /\ rec.outcome = 0
  BY DEF Away, CuratorWork
<1>2. Began(c, rec) /\ UNCHANGED memoryTables /\ UNCHANGED <<approvedByUser, tombstonedByUser, forgot>>
  BY DEF Dream, NoHistory
<1> HIDE DEF rec
<1>3. MovesTo(c, rec)
  BY <1>1, <1>2 DEF MovesTo, Began
<1>4. curator'[c] = rec
  BY <1>3, MoveEffect DEF MemoryInv
<1>5. Learned(curator[c])' /\ Current(curator[c])'
  BY <1>1, <1>4 DEF Learned, Current, Forgetting, HintSteps
<1> QED
  BY <1>2, <1>3, <1>5, ReadingKeeps

\* The rows of an outcome: an event, then its node.
LEMMA SyncKeeps ==
  ASSUME MemoryInv, NEW c \in Curators, NEW o \in Outcomes, SyncRaw(c, o) \/ SyncNode(c)
  PROVE  MemoryInv'
<1> DEFINE rec == curator[c]
           first == [rec EXCEPT !.at = "node", !.outcome = o, !.todo = @ \ {o}]
           second == [rec EXCEPT !.at = "sync", !.outcome = 0]
<1> USE DEF MemoryInv, TablesInv
<1>1. rec \in CuratorWork /\ rec # Away
  BY AwayFacts DEF CuratorsTyped, SyncRaw, SyncNode
<1>2. first \in CuratorWork /\ first.at = "node" /\ first.outcome = o
  BY <1>1 DEF CuratorWork
<1>3. second \in CuratorWork /\ second.at = "sync"
  BY <1>1 DEF CuratorWork
<1>4. /\ dreams' = dreams /\ hints' = hints /\ control' = control
      /\ approvedByUser' = approvedByUser /\ tombstonedByUser' = tombstonedByUser /\ forgot' = forgot
      /\ Moved(c, first) \/ Moved(c, second)
  BY DEF SyncRaw, SyncNode, NoHistory
<1>5. /\ raw' \in [Outcomes -> Kept] /\ node' \in [Outcomes -> Kept]
      /\ \A p \in Outcomes : raw[p] = "gone" => raw'[p] = "gone"
  <2>1. CASE SyncRaw(c, o)
    <3>1. raw' = [raw EXCEPT ![o] = IF @ = "none" THEN "kept" ELSE @] /\ node' = node
      BY <2>1 DEF SyncRaw
    <3> QED
      BY <3>1 DEF TablesTyped, Kept
  <2>2. CASE SyncNode(c)
    <3>1. raw' = raw /\ node' = [node EXCEPT ![rec.outcome] = IF @ = "none" THEN "kept" ELSE @]
      BY <2>2 DEF SyncNode
    <3> QED
      BY <3>1 DEF TablesTyped, Kept
  <2> QED
    BY <2>1, <2>2
<1> HIDE DEF first, second
<1>6. PICK next : next \in {first, second} /\ MovesTo(c, next)
  BY <1>1, <1>2, <1>3, <1>4 DEF Moved, MovesTo
<1>7. curator'[c] = next /\ (~overlappedMemory' => ~overlappedMemory)
  BY <1>6, MoveEffect
<1>8. Grown
  BY <1>4, <1>5 DEF Grown, HintIds, Hint
<1>9. TablesInv'
  BY <1>4, <1>5 DEF TablesTyped, NewIsNew, ApprovedOnly, ForgottenIsGone, HintIds, Hint
<1>10. PromisesInv'
  BY <1>4, <1>7 DEF PromisesInv, TombstonesStay, ForgottenIsSilent, DreamsOn, Silenced, Hint
<1>11. Learned(curator[c])' /\ Current(curator[c])'
  BY <1>2, <1>3, <1>6, <1>7 DEF Learned, Current, Forgetting, HintSteps
<1> QED
  BY <1>6, <1>8, <1>9, <1>10, <1>11, Assembled

LEMMA CollectEvidenceKeeps ==
  ASSUME MemoryInv, NEW c \in Curators, CollectEvidence(c)
  PROVE  MemoryInv'
<1> DEFINE kept == {o \in Outcomes : raw[o] = "kept"}
           next == IF kept = {} THEN Away ELSE [Away EXCEPT !.at = "dream", !.evidence = kept]
<1>1. /\ next \in CuratorWork
      /\ next = Away \/ (next.at = "dream" /\ next.evidence = kept)
  <2>1. [Away EXCEPT !.at = "dream", !.evidence = kept] \in CuratorWork
    BY DEF Away, CuratorWork
  <2> QED
    BY <2>1, AwayFacts DEF Away
<1>2. /\ Moved(c, next) /\ UNCHANGED memoryTables /\ UNCHANGED <<approvedByUser, tombstonedByUser, forgot>>
      /\ curator[c] # Away /\ raw' = raw
  BY AwayFacts DEF CollectEvidence, NoHistory, memoryTables
<1> HIDE DEF next
<1>3. MovesTo(c, next)
  BY <1>1, <1>2 DEF MovesTo, Moved
<1>4. curator'[c] = next
  BY <1>3, MoveEffect DEF MemoryInv
<1>5. CASE next = Away
  BY <1>2, <1>3, <1>4, <1>5, AwayIsFree, ReadingKeeps
<1>6. CASE next.at = "dream" /\ next.evidence = kept
  <2>1. Learned(curator[c])' /\ Current(curator[c])'
    BY <1>2, <1>4, <1>6 DEF Learned, Current, Forgetting, HintSteps
  <2> QED
    BY <1>2, <1>3, <2>1, ReadingKeeps
<1> QED
  BY <1>1, <1>5, <1>6

LEMMA InsertDreamKeeps ==
  ASSUME MemoryInv, NEW c \in Curators, InsertDream(c)
  PROVE  MemoryInv'
<1> DEFINE rec == curator[c]
           row == [evidence |-> rec.evidence, status |-> "candidate"]
           n == Len(hints) + 1
           next == [Away EXCEPT !.at = "hint", !.hint = n]
<1> USE DEF MemoryInv, TablesInv
<1>1. rec \in CuratorWork /\ rec.at = "dream" /\ rec # Away /\ Len(hints) \in Nat
  BY AwayFacts, RowFacts DEF CuratorsTyped, InsertDream
<1>2. ~overlappedMemory => \A o \in rec.evidence : raw[o] = "kept"
  BY <1>1 DEF NothingChanged, Current
<1>3. row \in DreamRow /\ row.evidence = rec.evidence
  BY <1>1 DEF DreamRow, CuratorWork
<1>4. next \in CuratorWork /\ next.at = "hint" /\ next.hint = n /\ n \in Nat
  <2>1. n \in Nat
    BY <1>1
  <2> HIDE DEF n
  <2> QED
    BY <2>1 DEF CuratorWork, Away
<1>5. /\ dreams' = Append(dreams, row) /\ hints' = Append(hints, NoHint) /\ Moved(c, next)
      /\ raw' = raw /\ node' = node /\ control' = control
      /\ approvedByUser' = approvedByUser /\ tombstonedByUser' = tombstonedByUser /\ forgot' = forgot
  BY DEF InsertDream, NoHistory, TablesTyped
<1> HIDE DEF row, next
<1>6. /\ dreams' \in Seq(DreamRow) /\ hints' \in Seq(HintRow) /\ Len(hints') = Len(dreams')
      /\ DOMAIN hints' = 1..n /\ DOMAIN dreams' = 1..n /\ DOMAIN hints = 1 .. n - 1 /\ DOMAIN dreams = 1 .. n - 1
      /\ hints'[n] = NoHint /\ dreams'[n] = row
      /\ \A d \in DOMAIN hints : hints'[d] = hints[d] /\ dreams'[d] = dreams[d]
  <2>1. NoHint \in HintRow
    BY AwayFacts
  <2>2. dreams \in Seq(DreamRow) /\ hints \in Seq(HintRow) /\ Len(hints) = Len(dreams)
    BY DEF TablesTyped
  <2> QED
    BY <1>1, <1>3, <1>5, <2>1, <2>2
<1>7. /\ HintIds' = HintIds \cup {n} /\ n \notin HintIds /\ (\A k \in {n} : Hint(k)' = NoHint)
      /\ \A h \in HintIds : Hint(h)' = Hint(h)
  BY <1>1, <1>5, <1>6 DEF HintIds, Hint
<1>8. MovesTo(c, next)
  BY <1>1, <1>4, <1>5 DEF MovesTo, Moved
<1>9. curator'[c] = next /\ (~overlappedMemory' => ~overlappedMemory)
  BY <1>8, MoveEffect
<1>10. Grown
  BY <1>1, <1>5, <1>6, <1>7 DEF Grown
<1>11. TablesTyped'
  BY <1>5, <1>6, <1>7 DEF TablesTyped
<1>12. NewIsNew'
  BY <1>7, AwayFacts DEF NewIsNew
<1>13. ApprovedOnly'
  <2>1. NoHint.status \notin Endorsed /\ DOMAIN NoHint.before = {}
    BY DEF NoHint, Endorsed, ActiveStatuses
  <2> QED
    BY <1>1, <1>5, <1>6, <2>1 DEF ApprovedOnly
<1>14. ForgottenIsGone'
  BY <1>5 DEF ForgottenIsGone
<1>15. TombstonesStay'
  BY <1>5, <1>7, <1>9 DEF PromisesInv, TombstonesStay, TablesTyped
<1>16. ForgottenIsSilent'
  BY <1>1, <1>5, <1>6, <1>9, AwayFacts DEF PromisesInv, ForgottenIsSilent, DreamsOn, Silenced
<1>17. Learned(curator[c])' /\ (~overlappedMemory' => Current(curator[c])')
  BY <1>1, <1>2, <1>3, <1>4, <1>5, <1>6, <1>9, AwayFacts DEF Learned, Current, Forgetting, HintSteps
<1> QED
  BY <1>8, <1>10, <1>11, <1>12, <1>13, <1>14, <1>15, <1>16, <1>17, Assembled DEF PromisesInv

LEMMA InsertHintKeeps ==
  ASSUME MemoryInv, NEW c \in Curators, InsertHint(c)
  PROVE  MemoryInv'
<1> DEFINE h == curator[c].hint
           new == [hints[h] EXCEPT !.status = "candidate"]
<1> USE DEF MemoryInv, TablesInv
<1>1. /\ curator[c].at = "hint" /\ curator[c] # Away /\ h \in DOMAIN hints /\ h # 0 /\ h \in HintIds
      /\ ~overlappedMemory =>
           hints[h].status = "none" /\ \A o \in dreams[h].evidence : raw[o] = "kept"
  BY AwayFacts, RowFacts DEF InsertHint, CuratorsLearned, Learned, NothingChanged, Current, HintIds
<1>2. hints[h] \in HintRow /\ Hint(h) = hints[h]
  BY <1>1, RowFacts DEF Hint
<1>3. new \in HintRow /\ new.status = "candidate" /\ new.before = hints[h].before
  BY <1>2 DEF HintRow, HintStatuses
<1>4. /\ hints' = [hints EXCEPT ![h] = new] /\ Moved(c, Away) /\ raw' = raw /\ node' = node /\ dreams' = dreams
      /\ control' = control
      /\ approvedByUser' = approvedByUser /\ tombstonedByUser' = tombstonedByUser /\ forgot' = forgot
  BY DEF InsertHint, NoHistory
<1> HIDE DEF new
<1>5. SetHint(h, new)
  BY <1>1, <1>4 DEF SetHint
<1>6. /\ hints' \in Seq(HintRow) /\ Len(hints') = Len(hints) /\ DOMAIN hints' = DOMAIN hints /\ HintIds' = HintIds
      /\ \A k \in HintIds : Hint(k)' = IF k = h THEN new ELSE Hint(k)
  BY <1>1, <1>3, <1>5, SetHintEffect
<1>7. MovesTo(c, Away)
  BY <1>1, <1>4, AwayFacts DEF MovesTo, Moved
<1>8. Learned(curator[c])' /\ Current(curator[c])' /\ (~overlappedMemory' => ~overlappedMemory)
  BY <1>7, MoveEffect, AwayIsFree
<1>9. \A k \in DOMAIN hints : hints'[k] = IF k = h THEN new ELSE hints[k]
  BY <1>6, RowFacts DEF HintIds, Hint
<1>10. Grown
  BY <1>3, <1>4, <1>6 DEF Grown
<1>11. TablesTyped' /\ NewIsNew'
  BY <1>3, <1>4, <1>6 DEF TablesTyped, NewIsNew
<1>12. ApprovedOnly'
  BY <1>1, <1>3, <1>4, <1>6, <1>9 DEF ApprovedOnly, Endorsed, ActiveStatuses
<1>13. ForgottenIsGone'
  BY <1>4 DEF ForgottenIsGone
<1>14. TombstonesStay'
  BY <1>1, <1>2, <1>4, <1>6, <1>8 DEF PromisesInv, TombstonesStay, TablesTyped
<1>15. ForgottenIsSilent'
  <2>1. ASSUME NEW o \in forgot, ~overlappedMemory PROVE h \notin DreamsOn(o)
    BY <1>1, <2>1 DEF DreamsOn, ForgottenIsGone
  <2> QED
    BY <1>4, <1>8, <1>9, <2>1, RowFacts DEF PromisesInv, ForgottenIsSilent, DreamsOn, Silenced
<1> QED
  BY <1>7, <1>8, <1>10, <1>11, <1>12, <1>13, <1>14, <1>15, Assembled DEF PromisesInv
-----------------------------------------------------------------------------
\* The steps of forgetting.
LEMMA TombstoneKeeps ==
  ASSUME MemoryInv, NEW c \in Curators, NEW o \in Outcomes, Tombstone(c, o)
  PROVE  MemoryInv'
<1> DEFINE rec == [Away EXCEPT !.at = "forget", !.outcome = o]
<1>1. rec \in CuratorWork /\ rec.at = "forget" /\ rec.outcome = o
  BY DEF Away, CuratorWork
<1>2. Began(c, rec) /\ UNCHANGED memoryTables /\ UNCHANGED <<approvedByUser, tombstonedByUser, forgot>>
  BY DEF Tombstone, NoHistory
<1> HIDE DEF rec
<1>3. MovesTo(c, rec)
  BY <1>1, <1>2 DEF MovesTo, Began
<1>4. curator'[c] = rec
  BY <1>3, MoveEffect DEF MemoryInv
<1>5. Learned(curator[c])' /\ Current(curator[c])'
  BY <1>1, <1>4 DEF Learned, Current, Forgetting, HintSteps
<1> QED
  BY <1>2, <1>3, <1>5, ReadingKeeps

LEMMA TombstoneRowsKeep ==
  ASSUME MemoryInv, NEW c \in Curators, TombstoneRaw(c) \/ TombstoneNodes(c)
  PROVE  MemoryInv'
<1> DEFINE rec == curator[c]
           o == rec.outcome
           first == [rec EXCEPT !.at = "nodes"]
           second == [rec EXCEPT !.at = "dreams", !.todo = DreamsOn(o)]
<1> USE DEF MemoryInv, TablesInv
<1>1. rec \in CuratorWork /\ rec # Away /\ o \in Outcomes
  BY AwayFacts DEF CuratorsTyped, CuratorsLearned, Learned, TombstoneRaw, TombstoneNodes
<1>2. DreamsOn(o) \subseteq DOMAIN dreams /\ DOMAIN dreams \subseteq Nat
  BY RowFacts DEF DreamsOn
<1>3. first \in CuratorWork /\ first.at = "nodes" /\ first.outcome = o
  BY <1>1 DEF CuratorWork
<1>4. second \in CuratorWork /\ second.at = "dreams" /\ second.outcome = o /\ second.todo = DreamsOn(o)
  BY <1>1, <1>2 DEF CuratorWork
<1>5. /\ dreams' = dreams /\ hints' = hints /\ control' = control
      /\ approvedByUser' = approvedByUser /\ tombstonedByUser' = tombstonedByUser /\ forgot' = forgot
  BY DEF TombstoneRaw, TombstoneNodes, NoHistory
<1>6. /\ raw' \in [Outcomes -> Kept] /\ node' \in [Outcomes -> Kept] /\ raw'[o] = "gone"
      /\ \A p \in Outcomes : raw[p] = "gone" => raw'[p] = "gone"
  <2>1. CASE TombstoneRaw(c)
    <3>1. raw' = [raw EXCEPT ![o] = "gone"] /\ node' = node
      BY <2>1 DEF TombstoneRaw
    <3> QED
      BY <1>1, <3>1 DEF TablesTyped, Kept
  <2>2. CASE TombstoneNodes(c)
    <3>1. raw' = raw /\ node' = [node EXCEPT ![o] = IF @ = "none" THEN @ ELSE "gone"]
      BY <2>2 DEF TombstoneNodes
    <3>2. raw[o] = "gone"
      BY <2>2 DEF TombstoneNodes, CuratorsLearned, Learned, Forgetting
    <3> QED
      BY <3>1, <3>2 DEF TablesTyped, Kept
  <2> QED
    BY <2>1, <2>2
<1>7. Moved(c, first) \/ Moved(c, second)
  BY DEF TombstoneRaw, TombstoneNodes
<1> HIDE DEF first, second
<1>8. PICK next : next \in {first, second} /\ MovesTo(c, next)
  BY <1>1, <1>3, <1>4, <1>7 DEF Moved, MovesTo
<1>9. curator'[c] = next /\ (~overlappedMemory' => ~overlappedMemory)
  BY <1>8, MoveEffect
<1>10. Grown
  BY <1>5, <1>6 DEF Grown, HintIds, Hint
<1>11. TablesInv'
  BY <1>5, <1>6 DEF TablesTyped, NewIsNew, ApprovedOnly, ForgottenIsGone, HintIds, Hint
<1>12. PromisesInv'
  BY <1>5, <1>9 DEF PromisesInv, TombstonesStay, ForgottenIsSilent, DreamsOn, Silenced, Hint
<1>13. Learned(curator[c])' /\ Current(curator[c])'
  BY <1>1, <1>2, <1>3, <1>4, <1>5, <1>6, <1>8, <1>9 DEF Learned, Current, Forgetting, HintSteps, DreamsOn
<1> QED
  BY <1>8, <1>10, <1>11, <1>12, <1>13, Assembled

LEMMA TombstoneDreamKeeps ==
  ASSUME MemoryInv, NEW c \in Curators, NEW d \in DOMAIN dreams, TombstoneDream(c, d)
  PROVE  MemoryInv'
<1> DEFINE rec == curator[c]
           row == [dreams[d] EXCEPT !.status = "tombstoned"]
           next == [rec EXCEPT !.todo = @ \ {d}, !.hint = d, !.target = "tombstoned",
                               !.at = IF hints[d] = NoHint THEN "dreams" ELSE "read"]
<1> USE DEF MemoryInv, TablesInv
<1>1. rec \in CuratorWork /\ rec.at = "dreams" /\ rec # Away
  BY AwayFacts DEF CuratorsTyped, TombstoneDream
<1>2. /\ rec.outcome \in Outcomes /\ raw[rec.outcome] = "gone" /\ rec.todo \subseteq DOMAIN dreams
      /\ ~overlappedMemory => \A k \in DreamsOn(rec.outcome) \ rec.todo : Silenced(k)
  BY <1>1 DEF CuratorsLearned, Learned, Forgetting, NothingChanged, Current
<1>3. d \in Nat /\ d # 0 /\ d \in DOMAIN hints /\ d \in HintIds /\ dreams[d] \in DreamRow /\ Hint(d) = hints[d]
  BY RowFacts DEF HintIds, Hint
<1>4. row \in DreamRow /\ row.evidence = dreams[d].evidence
  BY <1>3 DEF DreamRow
<1>5. /\ next \in CuratorWork /\ next.outcome = rec.outcome /\ next.todo = rec.todo \ {d} /\ next.hint = d
      /\ next.target = "tombstoned" /\ next.at = IF hints[d] = NoHint THEN "dreams" ELSE "read"
  BY <1>1, <1>3 DEF CuratorWork, HintSteps, HintStatuses
<1>6. /\ dreams' = [dreams EXCEPT ![d] = row] /\ Moved(c, next) /\ raw' = raw /\ node' = node /\ hints' = hints
      /\ control' = control
      /\ approvedByUser' = approvedByUser /\ tombstonedByUser' = tombstonedByUser /\ forgot' = forgot
  BY DEF TombstoneDream, NoHistory
<1> HIDE DEF row, next
<1>7. /\ dreams' \in Seq(DreamRow) /\ Len(dreams') = Len(dreams) /\ DOMAIN dreams' = DOMAIN dreams
      /\ \A k \in DOMAIN dreams : dreams'[k].evidence = dreams[k].evidence
  <2>1. dreams \in Seq(DreamRow) /\ d \in 1..Len(dreams) /\ DOMAIN dreams = 1..Len(dreams)
    BY RowFacts DEF TablesTyped
  <2> QED
    BY <1>4, <1>6, <2>1, ExceptSeq
<1>8. MovesTo(c, next)
  BY <1>1, <1>5, <1>6 DEF MovesTo, Moved
<1>9. curator'[c] = next /\ (~overlappedMemory' => ~overlappedMemory)
  BY <1>8, MoveEffect
<1>10. Grown
  BY <1>6, <1>7 DEF Grown, HintIds, Hint
<1>11. TablesInv'
  BY <1>6, <1>7 DEF TablesTyped, NewIsNew, ApprovedOnly, ForgottenIsGone, HintIds, Hint
<1>12. PromisesInv'
  BY <1>6, <1>7, <1>9 DEF PromisesInv, TombstonesStay, ForgottenIsSilent, DreamsOn, Silenced, Hint
<1>13. hints[d] # NoHint => hints[d].status # "none"
  <2>1. hints[d] \in HintRow
    BY <1>3, RowFacts
  <2> QED
    BY <1>3, <2>1 DEF NewIsNew, HintRow, NoHint
<1>14. Learned(curator[c])'
  BY <1>2, <1>3, <1>5, <1>6, <1>7, <1>9, <1>13 DEF Learned, Forgetting, HintSteps, HintIds, Hint, HintStatuses
<1>15. ~overlappedMemory' => Current(curator[c])'
  <2>1. CASE hints[d] = NoHint
    <3>1. Silenced(d)
      BY <2>1, AwayFacts DEF Silenced
    <3> QED
      BY <1>2, <1>5, <1>6, <1>7, <1>9, <2>1, <3>1 DEF Current, HintSteps, DreamsOn, Silenced
  <2>2. CASE hints[d] # NoHint
    BY <1>2, <1>5, <1>6, <1>7, <1>9, <2>2 DEF Current, HintSteps, DreamsOn, Silenced
  <2> QED
    BY <2>1, <2>2
<1> QED
  BY <1>8, <1>10, <1>11, <1>12, <1>14, <1>15, Assembled

LEMMA FinishTombstoneKeeps ==
  ASSUME MemoryInv, NEW c \in Curators, FinishTombstone(c)
  PROVE  MemoryInv'
<1> DEFINE o == curator[c].outcome
<1> USE DEF MemoryInv, TablesInv
<1>1. /\ curator[c].at = "dreams" /\ curator[c].todo = {} /\ curator[c] # Away
      /\ forgot' = forgot \cup {o} /\ Moved(c, Away)
      /\ raw' = raw /\ node' = node /\ dreams' = dreams /\ hints' = hints /\ control' = control
      /\ approvedByUser' = approvedByUser /\ tombstonedByUser' = tombstonedByUser
  BY AwayFacts DEF FinishTombstone, memoryTables
<1>2. /\ o \in Outcomes /\ raw[o] = "gone"
      /\ ~overlappedMemory => \A d \in DreamsOn(o) : Silenced(d)
  BY <1>1 DEF CuratorsLearned, Learned, Forgetting, NothingChanged, Current
<1>3. MovesTo(c, Away)
  BY <1>1, AwayFacts DEF MovesTo, Moved
<1>4. Learned(curator[c])' /\ Current(curator[c])' /\ (~overlappedMemory' => ~overlappedMemory)
  BY <1>3, MoveEffect, AwayIsFree
<1>5. Grown
  BY <1>1 DEF Grown, HintIds, Hint
<1>6. TablesInv'
  BY <1>1, <1>2 DEF TablesTyped, NewIsNew, ApprovedOnly, ForgottenIsGone, HintIds, Hint
<1>7. TombstonesStay'
  BY <1>1, <1>4 DEF PromisesInv, TombstonesStay, Hint
<1>8. ForgottenIsSilent'
  BY <1>1, <1>2, <1>4 DEF PromisesInv, ForgottenIsSilent, DreamsOn, Silenced
<1> QED
  BY <1>3, <1>4, <1>5, <1>6, <1>7, <1>8, Assembled DEF PromisesInv

LEMMA KilledKeeps ==
  ASSUME MemoryInv, NEW c \in Curators, Killed(c)
  PROVE  MemoryInv'
<1>1. /\ curator[c] # Away /\ Moved(c, Away) /\ UNCHANGED memoryTables
      /\ UNCHANGED <<approvedByUser, tombstonedByUser, forgot>>
  BY DEF Killed, NoHistory
<1>2. MovesTo(c, Away)
  BY <1>1, AwayFacts DEF MovesTo, Moved
<1>3. Learned(curator[c])' /\ Current(curator[c])'
  BY <1>2, MoveEffect, AwayIsFree DEF MemoryInv
<1> QED
  BY <1>1, <1>2, <1>3, ReadingKeeps
-----------------------------------------------------------------------------
THEOREM MemoryInvInit == MemoryInit => MemoryInv
<1> SUFFICES ASSUME MemoryInit PROVE MemoryInv
  OBVIOUS
<1>1. /\ raw \in [Outcomes -> Kept] /\ node \in [Outcomes -> Kept]
      /\ dreams = <<>> /\ hints = <<>> /\ control = NoHint
      /\ approvedByUser = {} /\ tombstonedByUser = {} /\ forgot = {} /\ overlappedMemory = FALSE
      /\ curator \in [Curators -> CuratorWork] /\ \A c \in Curators : curator[c] = Away
  BY AwayFacts DEF MemoryInit, Kept
<1>2. HintIds = {0} /\ Hint(0) = NoHint /\ DOMAIN hints = {} /\ DOMAIN dreams = {}
  BY <1>1 DEF HintIds, Hint
<1>3. TablesTyped
  <2>1. <<>> \in Seq(DreamRow) /\ <<>> \in Seq(HintRow)
    OBVIOUS
  <2>2. {} \subseteq Nat /\ {} \subseteq HintIds /\ {} \subseteq Outcomes
    OBVIOUS
  <2> QED
    BY <1>1, <2>1, <2>2, AwayFacts, Zenon DEF TablesTyped
<1>4. NewIsNew /\ ApprovedOnly /\ ForgottenIsGone /\ TombstonesStay /\ ForgottenIsSilent
  BY <1>1, <1>2, AwayFacts DEF NewIsNew, ApprovedOnly, ForgottenIsGone, TombstonesStay, ForgottenIsSilent
<1>5. CuratorsTyped /\ OneCurator
  BY <1>1 DEF CuratorsTyped, OneCurator
<1>6. CuratorsLearned /\ NothingChanged
  BY <1>1 DEF CuratorsLearned, NothingChanged, Learned, Current, Forgetting, Away, HintSteps
<1> QED
  BY <1>3, <1>4, <1>5, <1>6 DEF MemoryInv, TablesInv, PromisesInv

THEOREM MemoryInvNext == MemoryInv /\ [MemoryNext]_memoryVars => MemoryInv'
<1> SUFFICES ASSUME MemoryInv, [MemoryNext]_memoryVars PROVE MemoryInv'
  OBVIOUS
<1>1. CASE UNCHANGED memoryVars
  <2>1. /\ raw' = raw /\ node' = node /\ dreams' = dreams /\ hints' = hints /\ control' = control
        /\ curator' = curator /\ approvedByUser' = approvedByUser /\ tombstonedByUser' = tombstonedByUser
        /\ forgot' = forgot /\ overlappedMemory' = overlappedMemory
    BY <1>1 DEF memoryVars, memoryTables
  <2>2. TablesInv'
    BY <2>1 DEF MemoryInv, TablesInv, TablesTyped, NewIsNew, ApprovedOnly, ForgottenIsGone, HintIds, Hint
  <2>3. PromisesInv' /\ CuratorsTyped' /\ OneCurator'
    BY <2>1 DEF MemoryInv, PromisesInv, TombstonesStay, ForgottenIsSilent, DreamsOn, Silenced, Hint,
                CuratorsTyped, OneCurator
  <2>4. Grown
    BY <2>1 DEF Grown, HintIds, Hint
  <2>5. CuratorsLearned'
    BY <2>1, <2>4, OthersLearned DEF MemoryInv, TablesInv, CuratorsLearned
  <2>6. NothingChanged'
    BY <2>1 DEF MemoryInv, NothingChanged, Current, DreamsOn, Silenced, Hint
  <2> QED
    BY <2>2, <2>3, <2>5, <2>6 DEF MemoryInv
<1>2. ASSUME NEW c \in Curators, SyncNode(c) PROVE MemoryInv'
  <2>1. curator[c].outcome \in Outcomes
    BY <1>2 DEF SyncNode, MemoryInv, CuratorsLearned, Learned
  <2> QED
    BY <1>2, <2>1, SyncKeeps
<1> QED
  BY <1>1, <1>2, UpdateHintKeeps, RestoreHintKeeps, ReadHintKeeps, WriteHintKeeps, RecordChangeKeeps,
     SuppressScopeKeeps, DreamKeeps, SyncKeeps, CollectEvidenceKeeps, InsertDreamKeeps, InsertHintKeeps,
     TombstoneKeeps, TombstoneRowsKeep, TombstoneDreamKeeps, FinishTombstoneKeeps, KilledKeeps
  DEF MemoryNext

THEOREM MemoryInvariant == MemorySpec => []MemoryInv
  BY MemoryInvInit, MemoryInvNext, PTL DEF MemorySpec

\* What the user said about the memory holds: no hint without an approval is in
\* force, a tombstoned one stays so, and what is forgotten has no say.
THEOREM HintsObey == MemorySpec => []HintsFollowTheUser
<1>1. MemoryInv => InForceWasApproved
  BY RowFacts DEF MemoryInv, TablesInv, ApprovedOnly, Endorsed, InForceWasApproved, InForce, HintIds, Hint
<1>2. MemoryInv => ForgottenHasNoSay
  <2>1. ASSUME MemoryInv, ~overlappedMemory, NEW h \in InForce \ {0}, NEW o \in dreams[h].evidence \cap forgot
        PROVE  FALSE
    <3>1. h \in DOMAIN hints /\ h \in DOMAIN dreams /\ hints[h].status \in ActiveStatuses
      BY <2>1, RowFacts DEF InForce, HintIds, Hint, MemoryInv, TablesInv
    <3>2. Silenced(h)
      BY <2>1, <3>1 DEF MemoryInv, PromisesInv, ForgottenIsSilent, DreamsOn
    <3> QED
      BY <3>1, <3>2 DEF Silenced, ActiveStatuses
  <2> QED
    BY <2>1 DEF ForgottenHasNoSay
<1>3. MemoryInv => HintsFollowTheUser
  BY <1>1, <1>2 DEF MemoryInv, PromisesInv, HintsFollowTheUser
<1> QED
  BY <1>3, MemoryInvariant, PTL
-----------------------------------------------------------------------------
(* What is final.                                                            *)

\* While the commands of each store run one after another, none of them undoes what an
\* earlier one decided or filed for good, whichever fails or dies half-way: a rejected
\* comment, a decided export, a settled task, an item of the index, a forgotten memory.
THEOREM RecordsStayFinal == Spec /\ PackageSpec /\ HomeSpec /\ RecallSpec => RecordsAreFinal
  BY RejectionsStick, SendsStayDecided, ImportsKeepTheStatus, HomeItemsAreKept, ForgottenStaysAsItWas
  DEF RecordsAreFinal
=============================================================================
