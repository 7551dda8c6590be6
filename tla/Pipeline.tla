------------------------------ MODULE Pipeline ------------------------------
(***************************************************************************)
(* The upstream verification of a cut snapshot (src/upstream.rs, and       *)
(* upstream_verify of src/machine.rs): export the snapshot to a history    *)
(* log, import the log into a checkpoint, compare the two, bind the boot   *)
(* files to the checkpoint.  The files stay in the work directory when an  *)
(* attempt fails or its agent dies, and so may a tool.  Abstractions:      *)
(*  - a file is the snapshot it comes from and whether it is whole; the    *)
(*    snapshots here are of one block, so only the hash gate tells them;   *)
(*  - the export writes its manifest last and keeps to the directory it    *)
(*    was started in; an export can outlive its command (its container     *)
(*    does), other tools die with their process group;                     *)
(*  - compare and fingerprint only read; the fork audit, the scan and the  *)
(*    protocol schedule can only make an attempt fail.                     *)
(***************************************************************************)
CONSTANTS
  Snapshot,   \* snapshots of the cut block
  Cut,        \* the one this ceremony journaled
  Nothing     \* no file

ASSUME PipelineAssumption == Cut \in Snapshot /\ Nothing \notin [of : Snapshot, whole : BOOLEAN]

VARIABLES
  work,    \* the work directory: log, env (manifest.env), checkpoint, boot
  tool,    \* the recorded process group of a tool, with the log an import reads
  box,     \* an export container runs on without its command
  stage    \* where this process's verification is

pipeline == <<work, tool, box, stage>>

File == [of : Snapshot, whole : BOOLEAN] \cup {Nothing}
Whole(s) == [of |-> s, whole |-> TRUE]
Part(s)  == [of |-> s, whole |-> FALSE]
NoTool == [kind |-> "none", reads |-> Nothing]

\* Files of an earlier ceremony at this height, or none.
PipelineInit ==
  /\ \E log \in File, env \in BOOLEAN :
       /\ env => log # Nothing /\ log.whole
       /\ work = [log |-> log, env |-> env, checkpoint |-> Nothing, boot |-> Nothing]
  /\ tool = NoTool /\ box = FALSE /\ stage = "off"

Running == tool.kind # "none"

\* (mutant) a log is enough.
ReusableLog == work.log # Nothing

\* Only the log and the manifest together are a completed export.
Reusable == work.log # Nothing /\ work.env

\* A tool does not start while the recorded group runs; the files it would have
\* written are gone by then.
Starts(kind, log) ==
  IF Running THEN UNCHANGED tool /\ stage' = "failed"
  ELSE tool' = [kind |-> kind, reads |-> log] /\ stage' = kind

\* Reuse a completed export, or clear the directory and export again.  A writer
\* of the cleared directory is cut off from it.
Export ==
  /\ stage = "begin"
  /\ IF Reusable THEN stage' = "exported" /\ UNCHANGED <<work, tool, box>>
     ELSE /\ work' = [work EXCEPT !.log = IF Running THEN Nothing ELSE Part(Cut), !.env = FALSE]
          /\ box' = FALSE
          /\ IF tool.kind = "export"
             THEN tool' = [tool EXCEPT !.kind = "severed"] /\ stage' = "failed"
             ELSE Starts("export", Nothing)

\* (mutant) whatever snapshot the export read.
ImportAny ==
  /\ stage = "exported" /\ work.log # Nothing
  /\ work' = [work EXCEPT !.checkpoint = IF Running THEN Nothing ELSE Part(work.log.of)]
  /\ Starts("import", work.log) /\ UNCHANGED box

\* The manifest names the cut snapshot; the old checkpoint goes first.
Import ==
  /\ stage = "exported" /\ work.log # Nothing /\ work.log.of = Cut
  /\ work' = [work EXCEPT !.checkpoint = IF Running THEN Nothing ELSE Part(Cut)]
  /\ Starts("import", work.log) /\ UNCHANGED box

\* The tool of this stage ended; what it should have written must be there.
StepEnds ==
  /\ stage \in {"export", "import"} /\ ~Running
  /\ \/ stage = "export" /\ Reusable /\ stage' = "exported"
     \/ stage = "import" /\ work.checkpoint # Nothing /\ stage' = "imported"
  /\ UNCHANGED <<work, tool, box>>

\* Every table of the log and of the checkpoint agrees.
Compare ==
  /\ stage = "imported" /\ work.checkpoint = work.log
  /\ stage' = "compared" /\ UNCHANGED <<work, tool, box>>

\* The boot files name the checkpoint.
BuildBoot ==
  /\ stage = "compared"
  /\ work' = [work EXCEPT !.boot = work.checkpoint] /\ stage' = "ok"
  /\ UNCHANGED <<tool, box>>

\* A gate refuses, a tool fails, times out or is stopped by an abort.
StepFails ==
  /\ stage \in {"begin", "export", "exported", "import", "imported",
                 "compared"}
  /\ stage' = "failed" /\ UNCHANGED work
  /\ IF stage \in {"export", "import"}
     THEN tool' = NoTool /\ box' \in {box, box \/ tool.kind = "export"}
     ELSE UNCHANGED <<tool, box>>

\* What the tools do meanwhile, watched or not: finish, or give up.
ToolWorks ==
  /\ \/ /\ tool.kind = "export" /\ tool' = NoTool /\ UNCHANGED box
        /\ work' \in {work, [work EXCEPT !.log = Whole(Cut), !.env = TRUE]}
     \/ /\ tool.kind = "import" /\ tool' = NoTool /\ UNCHANGED box
        /\ work' \in {work, [work EXCEPT !.checkpoint = tool.reads]}
     \/ tool.kind = "severed" /\ tool' = NoTool /\ UNCHANGED <<work, box>>
     \/ /\ box /\ box' = FALSE /\ UNCHANGED tool
        /\ work' \in {work, [work EXCEPT !.log = Whole(Cut), !.env = TRUE]}
  /\ UNCHANGED stage

\* kill_orphan_hooks: the recorded group of a dead agent is stopped.
Killed == tool' = NoTool /\ box' \in {box, box \/ tool.kind = "export"}

\* The agent dies: its tool may run on.
Dies == stage' = "off" /\ (Killed \/ UNCHANGED <<tool, box>>)

PipelineStep == Export \/ Import \/ StepEnds \/ Compare \/ BuildBoot \/ StepFails
=============================================================================
