----------------------------- MODULE CommandLine -----------------------------
(***************************************************************************)
(* The command line (main.rs): options settled in order, one proof or a    *)
(* directory of them verified, and the verdict as an exit code.            *)
(*                                                                         *)
(* The directory is walked one directory at a time and its files are read  *)
(* afterwards one by one, while others may add, replace and remove files.  *)
(* Nodes of the file system are numbered in the order of their paths.      *)
(***************************************************************************)
EXTENDS Optional, Integers, FiniteSets, SequencesExt

CONSTANTS
  Parent,       \* per node the directory it is in; the root is 0
  Commands,     \* what is run: "verify", "batch", "none"
  Targets,      \* the directories a batch is run over
  Manifests,    \* --trust-chain: "none", "unusable" (not loaded, not pinned),
                \* "unverified", "verified"
  Records,      \* --customer-activity: "none", "unreadable", "readable"
  MaxChanges    \* bound: changes of the file system while the program runs

ASSUME ParentAssumption ==
  /\ Parent \in Seq(Nat)
  /\ \A n \in DOMAIN Parent : Parent[n] \in 0 .. n - 1
ASSUME ExitAssumption == NoValue \notin 0 .. 3
ASSUME TargetsAssumption == Targets \subseteq DOMAIN Parent \cup {0}
ASSUME MaxChangesAssumption == MaxChanges \in Nat

VARIABLES
  fs,        \* per node what is there
  touched,   \* history: nodes changed, or below one, since the start
  changes,   \* changes so far
  command, target, manifest, record,   \* the command line
  phase,     \* "manifest", "record", "dispatch", "walk", "files", "done"
  stack,     \* directories to be read
  pending,   \* what is left of the directory that is being read
  files,     \* the files collected, then sorted
  entries,   \* the report: [node, stage, valid], the documents read
  ioError,   \* history: an I/O error occurred
  exit       \* the exit code, NoValue before

program == <<phase, stack, pending, files, entries, ioError, exit>>
given == <<command, target, manifest, record>>
programVars == <<fs, touched, changes, given, program>>

FileNodes == DOMAIN Parent

\* The directories a node is in, and the node.
Ancestors(n) ==
  LET up[m \in FileNodes \cup {0}] == IF m = 0 THEN {0} ELSE {m} \cup up[Parent[m]]
  IN  up[n]

Documents == {"genuine", "unsigned", "altered", "foreign"}

\* A file that matches the extension is a document or no JSON or cannot be
\* read; "other" is a file that does not match, or neither file nor directory.
Files == Documents \cup {"garbage", "unreadable"}
Kinds == Files \cup {"directory", "other", "missing"}

\* The root is one as long as the program runs.
IsDirectory(n) == n = 0 \/ (n \in FileNodes /\ fs[n] = "directory")

WellFormed(f) == \A n \in FileNodes : f[n] # "missing" /\ Parent[n] # 0 => f[Parent[n]] = "directory"

-----------------------------------------------------------------------------
(* Verdicts, as the ladder gives them: "foreign" is signed with a key the  *)
(* manifest does not know.                                                 *)

Stage(document) ==
  CASE document = "altered" -> 4
    [] document = "unsigned" -> 4
    [] document = "foreign" -> IF manifest = "verified" THEN 6 ELSE 7
    [] document = "genuine" -> IF manifest = "verified" THEN 8 ELSE 7

Valid(document) ==
  document # "altered" /\ ~(document = "foreign" /\ manifest = "verified")

\* Mutant: valid is enough.
ExitOfValid(stage, valid) == IF valid THEN 0 ELSE 1

\* verify_path: the exit code of one document.
ExitOf(stage, valid) == IF ~valid THEN 1 ELSE IF stage < 7 THEN 3 ELSE 0

-----------------------------------------------------------------------------
(* main: options in order, then the command.                               *)

ProgramInit ==
  /\ fs \in {f \in [FileNodes -> Kinds] : WellFormed(f)}
  /\ touched = {}
  /\ changes = 0
  /\ command \in Commands /\ manifest \in Manifests /\ record \in Records
  /\ target \in IF command = "batch" THEN Targets ELSE FileNodes
  /\ phase = "manifest"
  /\ stack = <<>> /\ pending = {} /\ files = <<>> /\ entries = <<>>
  /\ ioError = FALSE
  /\ exit = NoValue

Exit(code) == exit' = code /\ phase' = "done"

\* An error that main returns is an exit with 1.
FailWith(error) ==
  /\ Exit(1)
  /\ ioError' = (ioError \/ error)

Outside == <<fs, touched, changes, given>>

SettleTrustRoot ==
  /\ phase = "manifest"
  /\ \/ manifest \in {"none", "verified"} /\ phase' = "record" /\ UNCHANGED <<ioError, exit>>
     \/ manifest = "unusable" /\ FailWith(TRUE)
     \/ manifest = "unverified" /\ Exit(2) /\ UNCHANGED ioError
  /\ UNCHANGED <<Outside, stack, pending, files, entries>>

\* A record belongs to one proof; a batch refuses it unread.
ReadRecord ==
  /\ phase = "record"
  /\ \/ record = "none" /\ phase' = "dispatch" /\ UNCHANGED <<ioError, exit>>
     \/ record # "none" /\ command = "batch" /\ Exit(2) /\ UNCHANGED ioError
     \/ record = "unreadable" /\ command # "batch" /\ FailWith(TRUE)
     \/ record = "readable" /\ command # "batch" /\ phase' = "dispatch" /\ UNCHANGED <<ioError, exit>>
  /\ UNCHANGED <<Outside, stack, pending, files, entries>>

\* Neither a command nor a proof: the help text.
Help ==
  /\ phase = "dispatch" /\ command = "none"
  /\ Exit(2)
  /\ UNCHANGED <<Outside, stack, pending, files, entries, ioError>>

Entry(n) ==
  IF fs[n] \in Documents THEN [node |-> n, stage |-> Stage(fs[n]), valid |-> Valid(fs[n])]
  ELSE [node |-> n, stage |-> 0, valid |-> FALSE]

\* verify_path, also as the shortcut without a command.
VerifyPath ==
  /\ phase = "dispatch" /\ command = "verify"
  /\ IF fs[target] \in Documents
       THEN /\ entries' = <<Entry(target)>>
            /\ Exit(ExitOf(Stage(fs[target]), Valid(fs[target])))
            /\ UNCHANGED ioError
       ELSE FailWith(fs[target] \notin {"garbage", "other"}) /\ UNCHANGED entries
  /\ UNCHANGED <<Outside, stack, pending, files>>

-----------------------------------------------------------------------------
(* verify_batch.                                                           *)

StartBatch ==
  /\ phase = "dispatch" /\ command = "batch"
  /\ IF IsDirectory(target)
       THEN phase' = "walk" /\ stack' = <<target>> /\ UNCHANGED <<ioError, exit>>
       ELSE FailWith(TRUE) /\ UNCHANGED stack
  /\ UNCHANGED <<Outside, pending, files, entries>>

\* collect_proof_files: the next directory is opened.
OpenDirectory ==
  /\ phase = "walk" /\ pending = {} /\ stack # <<>>
  /\ LET d == Last(stack)
     IN  IF IsDirectory(d)
           THEN /\ stack' = Front(stack)
                /\ pending' = {<<n, fs[n]>> : n \in {m \in FileNodes : Parent[m] = d /\ fs[m] # "missing"}}
                /\ UNCHANGED <<phase, ioError, exit>>
           ELSE FailWith(TRUE) /\ UNCHANGED <<stack, pending>>
  /\ UNCHANGED <<Outside, files, entries>>

\* Mutant: a directory takes the place of those that wait.
ReadEntryKeepingOne(e) ==
  /\ phase = "walk" /\ e \in pending
  /\ pending' = pending \ {e}
  /\ stack' = IF e[2] = "directory" THEN <<e[1]>> ELSE stack
  /\ files' = IF e[2] \in Files THEN Append(files, e[1]) ELSE files
  /\ UNCHANGED <<Outside, phase, entries, ioError, exit>>

\* Mutant: a directory puts back the one it is in, in place of those that wait.
ReadEntryAgain(e) ==
  /\ phase = "walk" /\ e \in pending
  /\ pending' = pending \ {e}
  /\ stack' = IF e[2] = "directory" THEN <<Parent[e[1]]>> ELSE stack
  /\ files' = files
  /\ UNCHANGED <<Outside, phase, entries, ioError, exit>>

\* The entries of a directory come in any order.
ReadEntry(e) ==
  /\ phase = "walk" /\ e \in pending
  /\ pending' = pending \ {e}
  /\ stack' = IF e[2] = "directory" THEN Append(stack, e[1]) ELSE stack
  /\ files' = IF e[2] \in Files THEN Append(files, e[1]) ELSE files
  /\ UNCHANGED <<Outside, phase, entries, ioError, exit>>

\* A stable sort: each path goes to the place that its rank gives it.
InOrder(paths) ==
  LET rank == [i \in DOMAIN paths |->
                 1 + Cardinality({j \in DOMAIN paths :
                       paths[j] < paths[i] \/ (paths[j] = paths[i] /\ j < i)})]
  IN  [k \in DOMAIN paths |-> paths[CHOOSE i \in DOMAIN paths : rank[i] = k]]

SortFiles ==
  /\ phase = "walk" /\ pending = {} /\ stack = <<>>
  /\ phase' = "files"
  /\ files' = InOrder(files)
  /\ UNCHANGED <<Outside, stack, pending, entries, ioError, exit>>

\* verify_one_for_batch: what cannot be read or parsed is a failed entry.
VerifyOneForBatch ==
  /\ phase = "files" /\ files # <<>>
  /\ files' = Tail(files)
  /\ entries' = Append(entries, Entry(Head(files)))
  /\ UNCHANGED <<Outside, phase, stack, pending, ioError, exit>>

\* Nothing found is no failure.
FinishBatch ==
  /\ phase = "files" /\ files = <<>>
  /\ Exit(IF \E i \in DOMAIN entries : ~entries[i].valid THEN 1 ELSE 0)
  /\ UNCHANGED <<Outside, stack, pending, files, entries, ioError>>

-----------------------------------------------------------------------------
(* Others on the file system, and the whole.                               *)

Below(n) == {m \in FileNodes : n \in Ancestors(m)}

ChangeNode(n, kind) ==
  /\ exit = NoValue
  /\ changes < MaxChanges
  /\ changes' = changes + 1
  /\ fs' = [m \in FileNodes |-> IF m = n THEN kind
                            ELSE IF m \in Below(n) THEN "missing" ELSE fs[m]]
  /\ WellFormed(fs')
  /\ touched' = touched \cup Below(n)
  /\ UNCHANGED <<given, program>>

Run ==
  \/ SettleTrustRoot \/ ReadRecord \/ Help \/ VerifyPath \/ StartBatch \/ OpenDirectory
  \/ \E e \in pending : ReadEntry(e)
  \/ SortFiles \/ VerifyOneForBatch \/ FinishBatch

ProgramNext ==
  \/ Run
  \/ \E n \in FileNodes, kind \in Kinds : ChangeNode(n, kind)
  \/ exit # NoValue /\ UNCHANGED programVars

ProgramSpec == ProgramInit /\ [][ProgramNext]_programVars /\ WF_programVars(Run)

-----------------------------------------------------------------------------
(* Properties.                                                             *)

Finished == exit # NoValue
BatchReported == command = "batch" /\ exit \in {0, 1} /\ ~ioError

\* The files that were there, in directories that were there, all the time.
Steady == {n \in FileNodes \ touched : fs[n] \in Files /\ target \in Ancestors(n)}

\* 383-398, 622-624: whatever happens to other files while the batch runs, and
\* in whatever order directories are read, a file nobody touches is in the
\* report, once, with the verdict it has, and the report is in path order.
NothingSteadyIsMissed ==
  /\ BatchReported => \A n \in Steady : \E i \in DOMAIN entries : entries[i] = Entry(n)
  /\ \A i, j \in DOMAIN entries : i < j => entries[i].node < entries[j].node

\* 570-573: exit code 0 of a batch vouches for every file nobody touched, though
\* for no more than that it was not refused: unsigned documents count as well.
BatchZeroIsEarned == BatchReported /\ exit = 0 => \A n \in Steady : Entry(n).valid

\* 670-680: exit code 0 of one proof means a checked signature, under a manifest
\* one of its keys; 3 is what an unsigned one ends in.
SingleZeroIsEarned ==
  command = "verify" /\ Finished =>
    /\ exit = 0 => entries[1].stage >= (IF manifest = "verified" THEN 8 ELSE 7)
    /\ exit = 3 <=> entries # <<>> /\ entries[1].valid /\ entries[1].stage < 7

\* What a caller who looks at the exit code alone may conclude.
ZeroIsEarned == BatchZeroIsEarned /\ SingleZeroIsEarned

\* The program ends, also when the tree under it changes.
RunEnds == <>Finished
=============================================================================
