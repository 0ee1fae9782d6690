-------------------------------- MODULE Tools --------------------------------
(* What a tool call of an agent does to the task's workspace, and what the  *)
(* policy lets an agent call.  A workspace maps every file to its content:  *)
(* "good" and "bad" parse, "broken" is refused by the syntax check, "none"  *)
(* is a file that does not exist.  A call is a record                       *)
(*   tool     its name                                                      *)
(*   path     the "path" argument, "" when it has none                      *)
(*   entries  what it writes: a sequence of [file, content]                 *)
(*   shape    the form of the "files" argument of write_files: list or map  *)
(*   found    the text an edit or a hunk replaces is in the file            *)
(*   command  the binary run_tests is asked to run, "" for the default      *)
(*   package  the file whose test run_tests is asked for, "" for all        *)
EXTENDS Naturals, Sequences, SequencesExt, FiniteSets

CONSTANTS Files,           \* the files of the workspace the calls name
          TestFiles,       \* those isProductionFile refuses
          Excluded,        \* paths of the holdout, of .git and of the excluded directories
          ForbiddenContent \* contents a forbidden pattern matches

ASSUME ToolsAssumption == TestFiles \subseteq Files /\ Excluded \cap Files = {}

Workspaces == [Files -> {"good", "bad", "none"}]

-----------------------------------------------------------------------------
(* The registry and the two predicates on tool names. *)

IsMutatingTool(tool) == tool \in {"write_file", "write_files", "edit_file", "apply_patch", "delete_file"}

IsFileDependentTool(tool) == tool \in {"read_file", "list_directory", "find_files", "grep_search", "run_tests", "run_linter"}

\* defaultRoleProfiles, for the two roles that run a turn loop.
AllowedTools(role) ==
    {"read_file", "write_file", "write_files", "edit_file", "apply_patch", "delete_file", "list_directory",
     "find_files", "grep_search", "run_tests", "run_e2e_tests", "run_linter", "noop"}
    \union (IF role = "generator" THEN {"request_test_fix"} ELSE {})

\* The arguments a tool requires are there.
HasArguments(call) ==
    /\ call.tool \in {"write_file", "edit_file", "read_file", "delete_file"} => call.path # ""
    /\ call.tool = "write_files" => call.entries # <<>>

\* No path the call names is excluded: the paths of write_files, or the "path" argument (a
\* patch without one is checked as ".", which is not excluded, whatever files it changes).
PathsAllowed(call) ==
    IF call.tool = "write_files" THEN \A i \in DOMAIN call.entries : call.entries[i].file \notin Excluded
    ELSE call.tool \in {"write_file", "edit_file", "apply_patch", "read_file", "delete_file"} => call.path \notin Excluded

\* findForbiddenPattern on what the call writes; a patch is not read.
ContentAllowed(call) ==
    call.tool \in {"write_file", "write_files", "edit_file"} =>
        \A i \in DOMAIN call.entries : call.entries[i].content \notin ForbiddenContent

\* The binary of a test command is one of the allowed commands.
CommandAllowed(call, allowedCommands) ==
    call.tool \in {"run_tests", "run_e2e_tests"} => call.command \in {""} \union allowedCommands

\* PolicyValidator.Validate.
Validate(role, call, allowedCommands) ==
    /\ call.tool \in AllowedTools(role)
    /\ HasArguments(call) /\ PathsAllowed(call) /\ ContentAllowed(call) /\ CommandAllowed(call, allowedCommands)

-----------------------------------------------------------------------------
(* Snapshots: what a file was before a call touched it. *)

snapshotFile(ws, file) == [path |-> file, content |-> ws[file]]

rollback(ws, snap) == [ws EXCEPT ![snap.path] = snap.content]

\* The mutant of rollbackAll that undoes them in the order they were taken.
rollbackForward(ws, snapshots) ==
    LET undone[k \in 0..Len(snapshots)] ==
          IF k = 0 THEN ws ELSE rollback(undone[k - 1], snapshots[k])
    IN  undone[Len(snapshots)]

\* The snapshots are undone in reverse order: a file written twice by one call goes back
\* to the first of its snapshots.
rollbackAll(ws, snapshots) ==
    LET undone[k \in 0..Len(snapshots)] ==
          IF k = 0 THEN ws ELSE rollback(undone[k - 1], snapshots[Len(snapshots) + 1 - k])
    IN  undone[Len(snapshots)]

-----------------------------------------------------------------------------
(* The tools that write.  Each yields the workspace and whether it succeeded. *)

\* One file of a call: its snapshot, the write, the syntax check.  After a failure the
\* remaining files are not touched.
WriteOne(acc, entry) ==
    IF ~acc.ok THEN acc
    ELSE [ws |-> [acc.ws EXCEPT ![entry.file] = entry.content],
          snaps |-> Append(acc.snaps, snapshotFile(acc.ws, entry.file)),
          ok |-> entry.content # "broken"]

\* applyFileDiff: one file of a patch, against what the diffs before it left.  A deletion and
\* a new file need no context; a hunk whose context is nowhere in the file fails the patch.
applyFileDiff(acc, entry, found) ==
    IF acc.ok /\ entry.content # "none" /\ ~found /\ acc.ws[entry.file] # "none"
    THEN [ws |-> acc.ws, snaps |-> Append(acc.snaps, snapshotFile(acc.ws, entry.file)), ok |-> FALSE]
    ELSE WriteOne(acc, entry)

\* The files of a call one after another; all of them or none.
Applied(ws, entries, found) ==
    LET acc[k \in 0..Len(entries)] ==
          IF k = 0 THEN [ws |-> ws, snaps |-> <<>>, ok |-> TRUE]
          ELSE applyFileDiff(acc[k - 1], entries[k], found)
        end == acc[Len(entries)]
    IN  [ok |-> end.ok, ws |-> IF end.ok THEN end.ws ELSE rollbackAll(end.ws, end.snaps)]

\* ApplyPatchTool.Execute; and WriteFilesTool.Execute, whose files need no context.
ApplyPatch(ws, call) == Applied(ws, call.entries, call.found)
WriteFiles(ws, call) == Applied(ws, call.entries, TRUE)

\* WriteFileTool.Execute and DeleteFileTool.Execute.
WriteFile(ws, call) == WriteFiles(ws, call)
DeleteFile(ws, call) == [ok |-> TRUE, ws |-> [ws EXCEPT ![call.path] = "none"]]

\* ApplyFileEdits finds the text in the given range, around it, once in the file, or by
\* lines whose blanks differ; the edit fails when none of these finds it.
ApplyFileEdits(call) == call.found

\* EditFileTool.Execute: the file must exist and hold the text.
EditFile(ws, call) ==
    IF ws[call.path] = "none" \/ ~ApplyFileEdits(call) THEN [ok |-> FALSE, ws |-> ws]
    ELSE WriteFiles(ws, call)

Mutate(ws, call) ==
    CASE call.tool = "write_file"  -> WriteFile(ws, call)
      [] call.tool = "write_files" -> WriteFiles(ws, call)
      [] call.tool = "apply_patch" -> ApplyPatch(ws, call)
      [] call.tool = "edit_file"   -> EditFile(ws, call)
      [] OTHER                     -> DeleteFile(ws, call)

\* What RecordAction reads of a mutating call: the path, or else the paths of a list of
\* files; a map of files and a patch without a path tell it nothing.
Touched(call) ==
    LET kind(file) == IF file \in TestFiles THEN "test" ELSE "prod"
    IN  IF call.path # "" THEN kind(call.path)
        ELSE IF call.tool = "write_files" /\ call.shape = "list"
             THEN (IF \E i \in DOMAIN call.entries : kind(call.entries[i].file) = "prod" THEN "prod" ELSE "test")
        ELSE "none"

-----------------------------------------------------------------------------
(* run_tests: a suite of one test per file. *)

Failures(ws, suite) == Cardinality({f \in suite : ws[f] # "good"})
Passed(ws, suite) == Cardinality({f \in suite : ws[f] = "good"})

\* The tests a call asks for: those of its package, or all of them.
Suite(call) == IF call.package \in Files THEN {call.package} ELSE Files

\* HostSandbox.RunCommand: the default command exits with the verdict of the suite, one the
\* model has made up with any; either may be killed after the idle timeout.
RunCommand(ws, call) ==
    {"killed"} \union (IF call.command # "" THEN {"exit0", "exit1"}
                      ELSE IF Failures(ws, Suite(call)) = 0 THEN {"exit0"} ELSE {"exit1"})

\* DetectFalseZeroExit: a command that exited with 0 may have printed a crash.
DetectFalseZeroExit(exit) == IF exit = "exit0" THEN {exit, "crashed"} ELSE {exit}

\* ParseTestOutput: the counts of a suite that ran to its end, none otherwise.
ParseTestOutput(ws, call, exit) ==
    LET complete == exit \in {"exit0", "exit1"} /\ call.command = ""
    IN  [ok |-> exit = "exit0", failed |-> IF complete THEN Failures(ws, Suite(call)) ELSE 0,
         passed |-> IF complete THEN Passed(ws, Suite(call)) ELSE 0]

\* RunTestsTool.Execute: the results a run may have.
TestRuns(ws, call) ==
    {ParseTestOutput(ws, call, exit) : exit \in UNION {DetectFalseZeroExit(e) : e \in RunCommand(ws, call)}}

\* RunLinterTool.Execute: the issues are within the tolerance or not.
LinterRuns == BOOLEAN

-----------------------------------------------------------------------------
(* TaskDiagnosticCache: the last suite and linter results and what was read. *)

\* buildArgsKey: a tool and its arguments.
buildArgsKey(call) == <<call.tool, call.path, call.package, call.command>>

\* SeedReadFiles: the files of the prompt count as read.
NewTaskDiagnosticCache(seeded) ==
    [dirty |-> FALSE, test |-> "none", lint |-> "none", reads |-> {<<"read_file", f, "", "">> : f \in seeded}]

\* OnToolExecuted.  Only these four tools make the results dirty, and every run and every
\* read makes them clean again.
OnToolExecuted(cache, call, ok) ==
    CASE call.tool \in {"write_file", "edit_file", "delete_file"} -> [cache EXCEPT !.dirty = TRUE, !.reads = {}]
      [] call.tool = "run_tests"  -> [cache EXCEPT !.dirty = FALSE, !.test = IF ok THEN "pass" ELSE "fail"]
      [] call.tool = "run_linter" -> [cache EXCEPT !.dirty = FALSE, !.lint = IF ok THEN "pass" ELSE "fail"]
      [] call.tool \in {"read_file", "list_directory", "find_files", "grep_search"} /\ ok ->
            [cache EXCEPT !.dirty = FALSE, !.reads = @ \union {buildArgsKey(call)}]
      [] OTHER -> cache

\* TryGetCachedResult.
HasCachedResult(cache, call) ==
    /\ ~cache.dirty
    /\ \/ call.tool = "run_tests" /\ cache.test # "none"
       \/ call.tool = "run_linter" /\ cache.lint # "none"

\* TryGetCachedInspection of any of the tools that read; for read_file the checksum of the
\* file on disk must match too.
HasCachedInspection(cache, call, match) ==
    ~cache.dirty /\ buildArgsKey(call) \in cache.reads /\ (match \/ call.tool # "read_file")

\* It drops the entry of a file whose checksum does not match.
AfterLookup(cache, call, match) ==
    IF ~cache.dirty /\ ~match /\ call.tool = "read_file" THEN [cache EXCEPT !.reads = @ \ {buildArgsKey(call)}]
    ELSE cache
=============================================================================
