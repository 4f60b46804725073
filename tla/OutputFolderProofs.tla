------------------------- MODULE OutputFolderProofs -------------------------
(***************************************************************************)
(* What a reader of the output folder finds, for any number of files and   *)
(* runs.  A run that has cleared the folder is alone in it because         *)
(* directory_iterator lists all that is there (Listing), nothing of an     *)
(* earlier run that is open escapes unnoticed (LockedPresent), and no file *)
(* is opened before the folder is clear (NotBefore).  A run that has not   *)
(* tells its files from older ones by their numbers (Numbered).            *)
(***************************************************************************)
EXTENDS OutputFolder, TLAPS

Clearing == {"report", "sample", "list", "remove"}

TypeOK ==
  /\ made \in SUBSET Folders
  /\ files \in [Folders -> [Parts -> {Absent} \cup Nat]]
  /\ locked \in SUBSET Parts /\ listing \in SUBSET Parts /\ opened \in SUBSET Parts
  /\ denied \in SUBSET Parts
  /\ s_report_folder \in Folders
  /\ result \in BOOLEAN
  /\ pc \in Clearing \cup {"off", "started"}
  /\ run \in Nat /\ m_file_nums \in 0..MaxParts

\* A part that a reader has open is there.
LockedPresent == locked \subseteq Present("sample")

\* A folder that does not exist holds no files.
NoFolderNoFiles == "sample" \notin made => Present("sample") = {}

\* Once its name has been reached the outputs go to the sample folder, which
\* exists when it is listed.
Target ==
  /\ pc \in {"sample", "list", "remove"} => s_report_folder = "sample"
  /\ pc \in {"list", "remove"} => "sample" \in made

\* What is left to be removed is what is left in the folder.
Listing == pc = "remove" => listing = Present("sample")

\* No file is opened, and no result known, before Initialize is done.
NotBefore ==
  pc \in Clearing => m_file_nums = 0 /\ opened = {} /\ denied = {} /\ ~result

\* The folder of a run whose Initialize returned true holds what it wrote.
Alone ==
  result =>
    /\ s_report_folder = "sample" /\ "sample" \in made
    /\ opened = 1..m_file_nums
    /\ \A p \in Parts :
         files["sample"][p] = IF p <= m_file_nums THEN run ELSE Absent

\* A file holds this run's number only if this run opened it, and comes to each
\* part once.
Numbered ==
  /\ \A p \in denied : p <= m_file_nums
  /\ \A p \in Present("sample") :
       /\ files["sample"][p] <= run
       /\ files["sample"][p] = run => p <= m_file_nums /\ p \notin denied

\* The parts this run has come to were opened, but for those a reader had.
CameTo ==
  pc = "started" /\ s_report_folder = "sample" =>
    \A p \in Present("sample") :
      p <= m_file_nums /\ p \notin denied => files["sample"][p] = run

IInv ==
  /\ TypeOK /\ LockedPresent /\ NoFolderNoFiles /\ Target /\ Listing
  /\ NotBefore /\ Alone /\ Numbered /\ CameTo

\* The invariant holds of every disk the tool may find.
LEMMA InitInvariant == Init => IInv
<1> SUFFICES ASSUME Init PROVE IInv
  OBVIOUS
<1> USE OutputFolderAssumption DEF Init, Parts, Folders, Empty, Present
<1>1. TypeOK
  <2>1. files \in [Folders -> [Parts -> {Absent} \cup Nat]]
    OBVIOUS
  <2>2. made \in SUBSET Folders /\ m_file_nums \in 0..MaxParts
    OBVIOUS
  <2>3. locked \in SUBSET Parts /\ listing \in SUBSET Parts /\ opened \in SUBSET Parts
    OBVIOUS
  <2>5. denied \in SUBSET Parts
    OBVIOUS
  <2>4. /\ s_report_folder \in Folders /\ result \in BOOLEAN
        /\ pc \in Clearing \cup {"off", "started"} /\ run \in Nat
    BY DEF Clearing
  <2> QED BY <2>1, <2>2, <2>3, <2>4, <2>5, Zenon DEF TypeOK
<1>2. Present("sample") = {}
  OBVIOUS
<1> QED
  BY <1>1, <1>2 DEF IInv, LockedPresent, NoFolderNoFiles, Target, Listing,
     NotBefore, Alone, Numbered, CameTo, Clearing

\* Every step of the tool, of a reader and of the disk keeps the invariant.
LEMMA StepInvariant == IInv /\ [Next]_vars => IInv'
<1> SUFFICES ASSUME IInv, [Next]_vars PROVE IInv'
  OBVIOUS
<1> USE OutputFolderAssumption
<1> USE DEF IInv, TypeOK, LockedPresent, NoFolderNoFiles, Target, Listing,
            NotBefore, Alone, Numbered, CameTo, Clearing, Folders, Present
<1>1. CASE Start
  <2>1. /\ pc' = "report" /\ s_report_folder' = "report" /\ run' = run + 1
        /\ m_file_nums' = 0 /\ opened' = {} /\ denied' = {} /\ ~result'
        /\ UNCHANGED <<made, files, locked, listing>>
    BY <1>1 DEF Start, disk
  <2>2. result' \in BOOLEAN
    BY <1>1, Zenon DEF Start
  <2>3. m_file_nums' \in 0..MaxParts /\ run' \in Nat
    BY <2>1
  <2>4. opened' \in SUBSET Parts /\ denied' \in SUBSET Parts
    BY <2>1
  <2>5. TypeOK'
    BY <2>1, <2>2, <2>3, <2>4
  <2>6. Present("sample")' = Present("sample")
    BY <2>1
  <2>7. Numbered'
    <3>1. \A p \in Present("sample") : files["sample"][p] < run + 1
      BY DEF Parts
    <3> QED BY <2>1, <2>6, <3>1
  <2> QED BY <2>1, <2>2, <2>5, <2>6, <2>7
<1>2. CASE Throw
  <2>1. /\ pc \in Clearing /\ pc' = "started"
        /\ UNCHANGED <<made, files, locked, s_report_folder, listing, result, run,
                       m_file_nums, opened, denied>>
    BY <1>2 DEF Throw, disk
  <2>2. ~result' /\ m_file_nums' = 0
    BY <2>1
  <2>3. CameTo'
    BY <2>2 DEF Parts
  <2> QED BY <2>1, <2>2, <2>3
<1>3. CASE MakeReportFolder
  <2>1. /\ pc = "report" /\ pc' = "sample" /\ s_report_folder' = "sample"
        /\ made' = made \cup {"report"}
        /\ UNCHANGED <<files, locked, listing, result, run, m_file_nums, opened,
                       denied>>
    BY <1>3 DEF MakeReportFolder
  <2>2. TypeOK'
    BY <2>1
  <2>3. Present("sample")' = Present("sample") /\ ("sample" \in made' <=> "sample" \in made)
    BY <2>1
  <2>4. ~result'
    BY <2>1
  <2>5. LockedPresent' /\ NoFolderNoFiles'
    BY <2>1, <2>3
  <2>6. Target' /\ Listing' /\ NotBefore'
    BY <2>1
  <2>7. Alone' /\ CameTo'
    BY <2>1, <2>4
  <2>8. Numbered'
    BY <2>1, <2>3
  <2> QED BY <2>2, <2>5, <2>6, <2>7, <2>8
<1>4. CASE MakeSampleFolder
  BY <1>4 DEF MakeSampleFolder
<1>5. CASE List
  BY <1>5 DEF List, disk
<1>6. CASE Remove
  <2>1. PICK p \in listing \ locked :
           /\ files' = [files EXCEPT !["sample"][p] = Absent]
           /\ listing' = listing \ {p}
    BY <1>6 DEF Remove
  <2>2. UNCHANGED <<made, locked, s_report_folder, result, pc, run, m_file_nums,
                   opened, denied>>
    BY <1>6 DEF Remove
  <2>3. files' \in [Folders -> [Parts -> {Absent} \cup Nat]]
    BY <2>1
  <2>4. \A q \in Parts : files'["sample"][q] = IF q = p THEN Absent ELSE files["sample"][q]
    BY <2>1
  <2>5. Present("sample")' = Present("sample") \ {p}
    BY <2>4
  <2> QED BY <1>6, <2>1, <2>2, <2>3, <2>4, <2>5 DEF Remove
<1>7. CASE Cleared
  <2>1. \A p \in Parts : files["sample"][p] = Absent
    BY <1>7 DEF Cleared
  <2> QED BY <1>7, <2>1 DEF Cleared, disk, Parts
<1>8. CASE OpenPart
  <2> DEFINE part == m_file_nums + 1
  <2>1. /\ part \in Parts /\ m_file_nums' = part
        /\ denied' = denied \cup ({part} \cap locked)
        /\ UNCHANGED <<made, locked, s_report_folder, listing, result, pc, run>>
        /\ pc = "started"
    BY <1>8 DEF OpenPart
  <2>4. /\ denied' \in SUBSET Parts /\ \A p \in denied' : p <= part
        /\ m_file_nums' \in 0..MaxParts /\ part \notin denied
    BY <2>1 DEF Parts
  <2>2. CASE s_report_folder \in made /\ ~(s_report_folder = "sample" /\ part \in locked)
    <3>1. /\ files' = [files EXCEPT ![s_report_folder][part] = run]
          /\ opened' = opened \cup {part}
      BY <1>8, <2>1, <2>2 DEF OpenPart
    <3>2. files' \in [Folders -> [Parts -> {Absent} \cup Nat]]
      BY <2>1, <3>1
    <3>3. TypeOK'
      BY <2>1, <3>1, <3>2 DEF Parts
    <3>4. \A q \in Parts : files'["sample"][q] =
            IF q = part /\ s_report_folder = "sample" THEN run ELSE files["sample"][q]
      BY <2>1, <3>1
    <3>5. /\ Present("sample") \subseteq Present("sample")'
          /\ s_report_folder = "report" => Present("sample")' = Present("sample")
      BY <3>4
    <3>6. Alone'
      BY <2>1, <3>1, <3>4 DEF Parts
    <3>7. CameTo'
      BY <2>1, <2>2, <3>3, <3>4 DEF Parts
    <3>8. Numbered'
      <4> SUFFICES ASSUME NEW p \in Present("sample")'
                   PROVE  /\ files'["sample"][p] <= run
                          /\ files'["sample"][p] = run => p <= part /\ p \notin denied'
        BY <2>1, <2>4
      <4>1. CASE p = part /\ s_report_folder = "sample"
        BY <2>1, <2>2, <2>4, <3>4, <4>1 DEF Parts
      <4>2. CASE ~(p = part /\ s_report_folder = "sample")
        <5>1. p \in Present("sample") /\ files'["sample"][p] = files["sample"][p]
          BY <3>4, <4>2
        <5>2. files["sample"][p] = run => p <= m_file_nums /\ p \notin denied
          BY <5>1
        <5> QED BY <2>1, <2>4, <5>1, <5>2 DEF Parts
      <4> QED BY <4>1, <4>2
    <3>9. LockedPresent' /\ NoFolderNoFiles'
      BY <2>1, <2>2, <3>5
    <3> QED BY <2>1, <3>3, <3>6, <3>7, <3>8, <3>9
  <2>3. CASE ~(s_report_folder \in made /\ ~(s_report_folder = "sample" /\ part \in locked))
    <3>1. UNCHANGED <<files, opened>>
      BY <1>8, <2>1, <2>3 DEF OpenPart
    <3>2. ~result
      BY <2>1, <2>3 DEF Parts
    <3>3. CameTo'
      BY <2>1, <2>3, <3>1 DEF Parts
    <3>4. Present("sample")' = Present("sample")
      BY <3>1
    <3>5. Numbered'
      <4> SUFFICES ASSUME NEW p \in Present("sample")
                   PROVE  /\ files["sample"][p] <= run
                          /\ files["sample"][p] = run => p <= part /\ p \notin denied'
        BY <2>1, <2>4, <3>1, <3>4
      <4>1. files["sample"][p] = run => p <= m_file_nums /\ p \notin denied
        OBVIOUS
      <4> QED BY <2>1, <4>1 DEF Parts
    <3>6. TypeOK'
      BY <2>1, <2>4, <3>1
    <3> QED BY <2>1, <3>1, <3>2, <3>3, <3>4, <3>5, <3>6
  <2> QED BY <2>2, <2>3
<1>9. CASE Stop
  BY <1>9 DEF Stop, disk
<1>10. CASE Reader
  BY <1>10 DEF Reader, disk
<1>11. CASE UNCHANGED vars
  BY <1>11 DEF vars, disk
<1> QED
  BY <1>1, <1>2, <1>3, <1>4, <1>5, <1>6, <1>7, <1>8, <1>9, <1>10, <1>11
  DEF Next, Initialize

\* The invariant holds of every reachable state, for any number of parts and
\* runs (Config.cpp:56-119, Logger.cpp:61-69).
THEOREM Invariance == Spec => []IInv
BY InitInvariant, StepInvariant, PTL DEF Spec

\* After a run whose Initialize returned true someone who reads the parts in
\* order reads all of this run and nothing else (Config.cpp:82-97).
THEOREM ReaderCorrect == Spec => []ReaderSeesOneRun
<1>1. IInv => ReaderSeesOneRun
  <2> SUFFICES ASSUME IInv, result PROVE ReaderSeesOneRun
    BY DEF ReaderSeesOneRun
  <2> USE OutputFolderAssumption DEF IInv, TypeOK, Parts
  <2>1. \A p \in Parts : p \in Present("sample") <=> p <= m_file_nums
    BY DEF Alone, Present
  <2>2. Readable = 1..m_file_nums
    BY <2>1 DEF Readable
  <2>3. \A p \in Present("sample") : files["sample"][p] = run
    BY DEF Alone, Present
  <2> QED BY <2>2, <2>3 DEF ReaderSeesOneRun, Alone
<1> QED BY <1>1, Invariance, PTL

\* What is stale lies behind what a run wrote, or a reader had it open when the run
\* came to it (Config.cpp:92, 109-115).
THEOREM StaleCorrect == Spec => []StaleOnlyBehind
<1>1. IInv => StaleOnlyBehind
  <2> SUFFICES ASSUME IInv, pc = "started", s_report_folder = "sample",
                      NEW p \in Present("sample")
               PROVE  files["sample"][p] # run <=> p > m_file_nums \/ p \in denied
    BY DEF StaleOnlyBehind
  <2>1. p \in Nat /\ m_file_nums \in Nat
    BY OutputFolderAssumption DEF IInv, TypeOK, Parts, Present
  <2> QED BY <2>1 DEF IInv, Numbered, CameTo
<1> QED BY <1>1, Invariance, PTL

\* Nothing is removed from the report folder (Config.cpp:56-71, 83-97).
THEOREM ReportFolderCorrect == Spec => ReportFolderKept
<1> DEFINE Kept == \A p \in Parts : files["report"][p] # files'["report"][p]
                     => files'["report"][p] = run /\ s_report_folder = "report"
<1>1. ASSUME IInv, [Next]_vars PROVE [Kept]_vars
  <2> USE <1>1 DEF IInv, TypeOK, Folders
  <2>1. CASE Remove
    <3>1. s_report_folder = "sample"
      BY <2>1 DEF Remove, Target
    <3>2. files'["report"] = files["report"]
      BY <2>1, <3>1 DEF Remove
    <3> QED BY <3>2
  <2>2. CASE OpenPart
    BY <2>2 DEF OpenPart
  <2>3. CASE UNCHANGED vars
    BY <2>3
  <2>4. CASE Start \/ Throw \/ MakeReportFolder \/ MakeSampleFolder \/ List
             \/ Cleared \/ Stop \/ Reader
    <3>1. files' = files
      BY <2>4 DEF Start, Throw, MakeReportFolder, MakeSampleFolder, List, Cleared,
         Stop, Reader, disk
    <3> QED BY <3>1
  <2> QED BY <2>1, <2>2, <2>3, <2>4 DEF Next, Initialize
<1>2. IInv /\ [Next]_vars => [Kept]_vars
  BY <1>1
<1> QED BY <1>2, Invariance, PTL DEF Spec, ReportFolderKept
=============================================================================
