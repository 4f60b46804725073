---------------------------- MODULE OutputFolder ----------------------------
(***************************************************************************)
(* Config::Initialize (replay/Config.cpp) and the files of an output, over *)
(* several runs of the tool: before the program starts the report folder   *)
(* and, in it, the sample folder are made, and the files that an earlier   *)
(* run left in the sample folder are removed one by one.  Any step may     *)
(* throw; main() does not look at the result, and the Logger opens         *)
(* name_001.clg, name_002.clg, ... where s_report_folder then points.      *)
(*                                                                         *)
(* A file is the number of its part and holds the number of the run that   *)
(* opened it last; a reader may keep a file open, and then it can neither  *)
(* be removed nor be opened for writing.                                   *)
(***************************************************************************)
EXTENDS Naturals, FiniteSets

CONSTANTS
  Absent,    \* no such file
  MaxParts,  \* bound: the files a run opens
  MaxRuns    \* bound: the runs of the tool

ASSUME OutputFolderAssumption ==
  Absent \notin Nat /\ MaxParts \in Nat /\ MaxRuns \in Nat

Parts == 1..MaxParts

Folders == {"report", "sample"}
Empty   == [p \in Parts |-> Absent]

VARIABLES
  made,            \* the folders that exist
  files,           \* folder -> part -> Absent or the run that wrote it
  locked,          \* the parts of the sample folder that a reader has open
  s_report_folder, \* the folder the outputs go to
  listing,         \* the files directory_iterator has still to come to
  result,          \* did Initialize return true?
  pc,              \* "off", "report", "sample", "list", "remove", "started"
  run, m_file_nums, \* the number of this run, the parts its Logger has opened
  opened,          \* history: the parts this run could open
  denied           \* history: the parts a reader had open when this run came to them

disk == <<made, files>>
vars == <<disk, locked, s_report_folder, listing, result, pc, run, m_file_nums,
          opened, denied>>

Present(folder) == {p \in Parts : files[folder][p] # Absent}

\* A disk that the tool may find: the folders are there or not, with files
\* that others left in the report folder.
Init ==
  /\ made \in {{}, {"report"}, Folders}
  /\ files \in {[report |-> r, sample |-> Empty] :
                  r \in {Empty} \cup (IF "report" \in made
                                      THEN {[p \in Parts |-> 0]} ELSE {})}
  /\ locked = {} /\ listing = {}
  /\ s_report_folder = "report" /\ result = FALSE
  /\ pc = "off" /\ run = 0 /\ m_file_nums = 0 /\ opened = {} /\ denied = {}

\* The tool is started; s_report_folder = filename.
Start ==
  /\ pc = "off" /\ run < MaxRuns
  /\ run' = run + 1 /\ m_file_nums' = 0 /\ opened' = {} /\ denied' = {}
  /\ s_report_folder' = "report" /\ result' = FALSE
  /\ pc' = "report"
  /\ UNCHANGED <<disk, locked, listing>>

\* Mutant: an exception of remove is caught in the loop.
ThrowGoesOn ==
  /\ pc \in {"report", "sample", "list", "remove"}
  /\ result' = (pc = "remove") /\ pc' = "started"
  /\ UNCHANGED <<disk, locked, s_report_folder, listing, run, m_file_nums, opened,
                 denied>>

\* An operation of boost::filesystem throws: Initialize prints what happened
\* and returns false, and main() goes on all the same.
Throw ==
  /\ pc \in {"report", "sample", "list", "remove"}
  /\ pc' = "started"
  /\ UNCHANGED <<disk, locked, s_report_folder, listing, result, run, m_file_nums,
                 opened, denied>>

\* The report folder is made if it does not exist, and s_report_folder moves on
\* to the sample folder.
MakeReportFolder ==
  /\ pc = "report"
  /\ made' = made \cup {"report"}
  /\ s_report_folder' = "sample"
  /\ pc' = "sample"
  /\ UNCHANGED <<files, locked, listing, result, run, m_file_nums, opened,
                 denied>>

MakeSampleFolder ==
  /\ pc = "sample"
  /\ made' = made \cup {"sample"}
  /\ pc' = "list"
  /\ UNCHANGED <<files, locked, s_report_folder, listing, result, run, m_file_nums,
                 opened, denied>>

\* Mutant: the folder that is listed is the report folder.
ListReportFolder ==
  /\ pc = "list"
  /\ listing' = Present("report")
  /\ pc' = "remove"
  /\ UNCHANGED <<disk, locked, s_report_folder, result, run, m_file_nums, opened,
                 denied>>

\* directory_iterator(sample_folder_path).
List ==
  /\ pc = "list"
  /\ listing' = Present(s_report_folder)
  /\ pc' = "remove"
  /\ UNCHANGED <<disk, locked, s_report_folder, result, run, m_file_nums, opened,
                 denied>>

\* Mutant: the file is removed from the report folder.
RemoveFromReport ==
  /\ pc = "remove"
  /\ \E p \in listing :
       /\ files' = [files EXCEPT !["report"][p] = Absent]
       /\ listing' = listing \ {p}
  /\ UNCHANGED <<made, locked, s_report_folder, result, pc, run, m_file_nums, opened,
                 denied>>

\* One file is removed.  That of a reader cannot be: remove throws.
Remove ==
  /\ pc = "remove"
  /\ \E p \in listing \ locked :
       /\ files' = [files EXCEPT ![s_report_folder][p] = Absent]
       /\ listing' = listing \ {p}
  /\ UNCHANGED <<made, locked, s_report_folder, result, pc, run, m_file_nums, opened,
                 denied>>

\* The loop is done, Initialize returns true, and main() starts the program.
Cleared ==
  /\ pc = "remove" /\ listing = {}
  /\ result' = TRUE /\ pc' = "started"
  /\ UNCHANGED <<disk, locked, s_report_folder, listing, run, m_file_nums, opened,
                 denied>>

\* Mutant: the file is opened to append.
OpenPartAppends ==
  /\ pc = "started" /\ m_file_nums + 1 \in Parts
  /\ m_file_nums' = m_file_nums + 1
  /\ IF s_report_folder \in made /\ files[s_report_folder][m_file_nums'] = Absent
     THEN /\ files' = [files EXCEPT ![s_report_folder][m_file_nums'] = run]
          /\ opened' = opened \cup {m_file_nums'}
     ELSE UNCHANGED <<files, opened>>
  /\ UNCHANGED <<made, locked, s_report_folder, listing, result, pc, run, denied>>

\* The Logger opens its next file (its constructor, SplitFile); whether that
\* went well it does not ask.  In a folder that does not exist, or when a reader
\* has the file, nothing is opened.
OpenPart ==
  /\ pc = "started" /\ m_file_nums + 1 \in Parts
  /\ m_file_nums' = m_file_nums + 1
  /\ denied' = denied \cup ({m_file_nums'} \cap locked)
  /\ IF s_report_folder \in made /\ ~(s_report_folder = "sample" /\ m_file_nums' \in locked)
     THEN /\ files' = [files EXCEPT ![s_report_folder][m_file_nums'] = run]
          /\ opened' = opened \cup {m_file_nums'}
     ELSE UNCHANGED <<files, opened>>
  /\ UNCHANGED <<made, locked, s_report_folder, listing, result, pc, run>>

\* The tool ends, cleanly or not, during Initialize too.
Stop ==
  /\ pc # "off"
  /\ pc' = "off" /\ listing' = {}
  /\ UNCHANGED <<disk, locked, s_report_folder, result, run, m_file_nums, opened,
                 denied>>

\* Someone opens a file of this run or of an earlier one, or is done with it, at
\* any time, while the tool clears the folder and writes to it too.
Reader ==
  /\ \E p \in Present("sample") :
       locked' = IF p \in locked THEN locked \ {p} ELSE locked \cup {p}
  /\ UNCHANGED <<disk, s_report_folder, listing, result, pc, run, m_file_nums, opened,
                 denied>>

Initialize == \/ Throw \/ MakeReportFolder \/ MakeSampleFolder
              \/ List \/ Remove \/ Cleared

Next == Start \/ Initialize \/ OpenPart \/ Stop \/ Reader

Spec == Init /\ [][Next]_vars
-----------------------------------------------------------------------------
\* What someone reads who opens the parts one after the other.
Readable == {p \in Parts : \A q \in 1..p : q \in Present("sample")}

\* After a run whose Initialize returned true the files that are read are those
\* this run wrote, all of them and no other's, whatever earlier runs left, and
\* wherever those were stopped (Config.cpp:82-97, Logger.cpp:23-25, 61-69).
ReaderSeesOneRun ==
  result =>
    /\ Readable = 1..m_file_nums /\ opened = 1..m_file_nums
    /\ \A p \in Present("sample") : files["sample"][p] = run

\* Files of two runs stand side by side only when a run was not cleared for, or
\* was stopped before: what is stale lies behind what that run wrote, or a reader
\* had it open at the moment the run came to it, whatever readers did before and
\* after; and nothing but this run's rows is in a file that it could open
\* (Config.cpp:92, 109-115, Logger.cpp:61-69).
StaleOnlyBehind ==
  pc = "started" /\ s_report_folder = "sample" =>
    \A p \in Present("sample") :
      files["sample"][p] # run <=> p > m_file_nums \/ p \in denied

\* What others have in the report folder is never removed; it is overwritten
\* only when the sample folder's name was never reached (Config.cpp:56-71, 83-97).
ReportFolderKept ==
  [][\A p \in Parts : files["report"][p] # files'["report"][p]
        => files'["report"][p] = run /\ s_report_folder = "report"]_vars
=============================================================================
