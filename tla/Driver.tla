------------------------------- MODULE Driver -------------------------------
(***************************************************************************)
(* driver_run_pipeline and process_exec: klang writes assembly, has fasm   *)
(* assemble it and gcc link it, with temporary files in between.           *)
(*                                                                         *)
(* Several runs work in one directory.  A step is one system call of a     *)
(* run, or one of the program it has started, which outlives a run that is *)
(* killed.  A path is <<directory, name, extension, process>>; only        *)
(* temporary files have a process other than 0 in their name.              *)
(***************************************************************************)
EXTENDS Integers

CONSTANTS
  Jobs,          \* runs of klang, by process id
  Configs,       \* what the runs may be asked: functions from Jobs to DriverConfig
  Erroneous,     \* sources that do not compile
  Unlucky,       \* the runs that may be killed, or find the disk full
  Leftovers,     \* sets of files that a killed run may have left
  PipeCapacity,  \* chunks of output a pipe holds
  Chatter        \* chunks the programs of each run print, if they print

\* A path somebody may give on the command line.
Path == STRING \X STRING \X STRING \X {0}

DriverConfig ==
  [input_path : Path, output_path : Path, phase : {"exe", "obj", "asm", "shared"},
   dump_ir : BOOLEAN, save_temps : BOOLEAN, verbose : BOOLEAN, sigchld_ignored : BOOLEAN]

ASSUME DriverAssumption ==
  /\ 0 \notin Jobs /\ Unlucky \subseteq Jobs
  /\ Configs \subseteq [Jobs -> DriverConfig]
  /\ PipeCapacity \in Nat \ {0} /\ Chatter \in [Jobs -> Nat]

VARIABLES
  config,     \* the DriverConfig of each run, and whether it ignores SIGCHLD
  files,      \* the contents of each path
  pc,         \* where each run is
  program,    \* the source it has read
  status,     \* result of its last process_exec, then its exit status
  tool,       \* the program it started
  pipe,       \* chunks in the pipe from that program
  delivered,  \* history: what it last wrote to its output
  lost        \* history: assembly was lost on a full disk

vars == <<config, files, pc, program, status, tool, pipe, delivered, lost>>

NoPath == <<"", "", "", 0>>
Absent == [kind |-> "none", of |-> NoPath, by |-> 0, whole |-> FALSE]
NoTool == [name |-> "none", step |-> "none", input |-> Absent, output |-> NoPath, left |-> 0, status |-> 0]

-----------------------------------------------------------------------------
(* Names of files. *)

\* A name without a dot is its own stem.
extract_file_stem(path) == path[2]

Named(j, ext) == <<".", extract_file_stem(config[j].input_path), ext, 0>>

\* Faulty: names of temporary files without the process.
SharedTemporary(j, ext) == <<".", extract_file_stem(config[j].input_path), ext, 1>>

Temporary(j, ext) == <<".", extract_file_stem(config[j].input_path), ext, j>>

Extension(phase) ==
  CASE phase = "asm" -> ".asm" [] phase = "obj" -> ".o" [] phase = "shared" -> ".so" [] phase = "exe" -> ""

resolve_default_output_name(j) ==
  IF config[j].output_path # NoPath THEN config[j].output_path ELSE Named(j, Extension(config[j].phase))

Intermediate(j, ext) == IF config[j].save_temps THEN Named(j, ext) ELSE Temporary(j, ext)

asm_path(j) ==
  IF config[j].phase = "asm" THEN resolve_default_output_name(j) ELSE Intermediate(j, ".asm")
obj_path(j) ==
  IF config[j].phase = "obj" THEN resolve_default_output_name(j) ELSE Intermediate(j, ".o")

cleanup_asm(j) == config[j].phase # "asm" /\ ~config[j].save_temps
cleanup_obj(j) == config[j].phase \notin {"asm", "obj"} /\ ~config[j].save_temps

\* The paths a run may use.
Around(conf) ==
  {conf.input_path, conf.output_path} \cup
  {<<".", conf.input_path[2], ext, p>> : ext \in {".asm", ".o", ".so", ""}, p \in Jobs \cup {0}}

Paths(configs) == UNION {Around(configs[j]) : j \in Jobs}

-----------------------------------------------------------------------------
Source(path) == [kind |-> "source", of |-> path, by |-> 0, whole |-> TRUE]
Stale(path) == [kind |-> "obj", of |-> NoPath, by |-> 0, whole |-> FALSE]

Init ==
  /\ config \in Configs
  /\ \E left \in Leftovers :
       files = [path \in Paths(config) |->
                  IF path \in {config[j].input_path : j \in Jobs} THEN Source(path)
                  ELSE IF path \in left THEN Stale(path) ELSE Absent]
  /\ pc = [j \in Jobs |-> "read"]
  /\ program = [j \in Jobs |-> NoPath]
  /\ status = [j \in Jobs |-> 0]
  /\ tool = [j \in Jobs |-> NoTool]
  /\ pipe = [j \in Jobs |-> 0]
  /\ delivered = [j \in Jobs |-> Absent]
  /\ lost = [j \in Jobs |-> FALSE]

Goto(j, place) == pc' = [pc EXCEPT ![j] = place]
Exit(j, code) == Goto(j, "exited") /\ status' = [status EXCEPT ![j] = code]

\* What is written to the output is remembered.
Write(j, path, contents) ==
  /\ files' = [files EXCEPT ![path] = contents]
  /\ delivered' = [delivered EXCEPT ![j] = IF path = resolve_default_output_name(j) THEN contents ELSE @]

\* The files after the removal of path, if it is to be removed.
Unlinked(path, wanted) == IF wanted THEN [files EXCEPT ![path] = Absent] ELSE files

-----------------------------------------------------------------------------
(* The compiler. *)

\* From reading the source to the last pass: no file is written.
Compile(j) ==
  /\ pc[j] = "read"
  /\ LET text == files[config[j].input_path]
     IN IF text.kind # "source" \/ text.of \in Erroneous
        THEN Exit(j, 1) /\ UNCHANGED program
        ELSE /\ program' = [program EXCEPT ![j] = text.of]
             /\ IF config[j].dump_ir THEN Exit(j, 0) ELSE Goto(j, "codegen") /\ UNCHANGED status
  /\ UNCHANGED <<config, files, tool, pipe, delivered, lost>>

Assembly(j, all) == [kind |-> "asm", of |-> program[j], by |-> j, whole |-> all]

codegen_generate_file(j) ==
  /\ pc[j] = "codegen"
  /\ \/ Exit(j, 1) /\ UNCHANGED <<files, delivered>>
     \/ Write(j, asm_path(j), Assembly(j, FALSE)) /\ Goto(j, "emit") /\ UNCHANGED status
  /\ UNCHANGED <<config, program, tool, pipe, lost>>

\* Neither fprintf nor fclose is asked whether the text was written.
codegen_emit_fasm(j) ==
  /\ pc[j] = "emit"
  /\ \E all \in IF j \in Unlucky THEN BOOLEAN ELSE {TRUE} :
       /\ Write(j, asm_path(j), Assembly(j, all))
       /\ lost' = [lost EXCEPT ![j] = ~all]
  /\ IF config[j].phase = "asm" THEN Exit(j, 0) ELSE Goto(j, "assembler") /\ UNCHANGED status
  /\ UNCHANGED <<config, program, tool, pipe>>

-----------------------------------------------------------------------------
(* process_exec. *)

After(j) == IF tool[j].name = "fasm" THEN "assembled" ELSE "linked"

Launched(j) ==
  IF pc[j] = "assembler"
  THEN [NoTool EXCEPT !.name = "fasm", !.step = "exec", !.output = obj_path(j)]
  ELSE [NoTool EXCEPT !.name = "gcc", !.step = "exec", !.output = resolve_default_output_name(j)]

\* Faulty: the child is waited for before what it prints is read.
WaitFirst(j) == "wait"

\* A verbose run lets the child print by itself.
FirstWait(j) == IF config[j].verbose THEN "wait" ELSE "drain"

\* run_assembler and run_linker: the program is not found, or there is no
\* pipe, or no process; or a child is forked.
Launch(j) ==
  /\ pc[j] \in {"assembler", "linker"}
  /\ \/ /\ status' = [status EXCEPT ![j] = -1]
        /\ Goto(j, IF pc[j] = "assembler" THEN "assembled" ELSE "linked")
        /\ UNCHANGED tool
     \/ /\ tool' = [tool EXCEPT ![j] = Launched(j)]
        /\ Goto(j, FirstWait(j))
        /\ UNCHANGED status
  /\ UNCHANGED <<config, files, program, pipe, delivered, lost>>

Alive(j) == tool[j].step \notin {"none", "dead"}

\* read returns what the child has printed, or end-of-file when it has ended.
Drain(j) ==
  /\ pc[j] = "drain"
  /\ \/ pipe[j] > 0 /\ pipe' = [pipe EXCEPT ![j] = @ - 1] /\ UNCHANGED pc
     \/ pipe[j] = 0 /\ ~Alive(j) /\ Goto(j, "wait") /\ UNCHANGED pipe
  /\ UNCHANGED <<config, files, program, status, tool, delivered, lost>>

\* The child's exit status.  If SIGCHLD is ignored there is none to wait for.
ExitCode(j) == IF config[j].sigchld_ignored THEN -1 ELSE tool[j].status

waitpid(j) ==
  /\ pc[j] = "wait" /\ ~Alive(j)
  /\ status' = [status EXCEPT ![j] = ExitCode(j)]
  /\ Goto(j, After(j))
  /\ tool' = [tool EXCEPT ![j] = NoTool]
  /\ UNCHANGED <<config, files, program, pipe, delivered, lost>>

-----------------------------------------------------------------------------
(* After the programs. *)

\* Faulty: the assembly goes only if it was assembled.
AssembledKeepsOnFailure(j) ==
  /\ pc[j] = "assembled"
  /\ files' = Unlinked(asm_path(j), cleanup_asm(j) /\ status[j] = 0)
  /\ Goto(j, "check")
  /\ UNCHANGED <<config, program, status, tool, pipe, delivered, lost>>

Assembled(j) ==
  /\ pc[j] = "assembled"
  /\ files' = Unlinked(asm_path(j), cleanup_asm(j))
  /\ Goto(j, "check")
  /\ UNCHANGED <<config, program, status, tool, pipe, delivered, lost>>

CheckAssembler(j) ==
  /\ pc[j] = "check"
  /\ IF status[j] # 0 \/ config[j].phase = "obj"
     THEN Exit(j, status[j]) /\ files' = Unlinked(obj_path(j), status[j] # 0 /\ cleanup_obj(j))
     ELSE Goto(j, "linker") /\ UNCHANGED <<files, status>>
  /\ UNCHANGED <<config, program, tool, pipe, delivered, lost>>

Linked(j) ==
  /\ pc[j] = "linked"
  /\ files' = Unlinked(obj_path(j), cleanup_obj(j))
  /\ Exit(j, status[j])
  /\ UNCHANGED <<config, program, tool, pipe, delivered, lost>>

\* A signal ends the run, but not the program it has started.
Kill(j) ==
  /\ j \in Unlucky /\ pc[j] \notin {"exited", "killed"}
  /\ Goto(j, "killed")
  /\ UNCHANGED <<config, files, program, status, tool, pipe, delivered, lost>>

-----------------------------------------------------------------------------
(* fasm and gcc: they read one file, write another and print a little. *)

Step(j, next) == tool' = [tool EXCEPT ![j].step = next]
Die(j, code) == tool' = [tool EXCEPT ![j].step = "dead", ![j].status = code]

ToolInput(j) == files[IF tool[j].name = "fasm" THEN asm_path(j) ELSE obj_path(j)]
ToolAccepts(contents, name) == contents.kind = (IF name = "fasm" THEN "asm" ELSE "obj")

\* What a program makes of its input is whole if the input is.
ToolProduct(j, all) ==
  [kind |-> IF tool[j].name = "fasm" THEN "obj" ELSE "exe",
   of |-> tool[j].input.of, by |-> j, whole |-> all /\ tool[j].input.whole]

\* execvp fails, or the program begins: it will print nothing or much, and
\* reads its input, or fails because that is not what it expects.
ToolBegins(j) ==
  /\ tool[j].step = "exec"
  /\ \/ Die(j, 127)
     \/ \E n \in {0, Chatter[j]} :
          tool' = [tool EXCEPT ![j].left = n, ![j].input = ToolInput(j),
                               ![j].step = IF ToolAccepts(ToolInput(j), tool[j].name) THEN "open" ELSE "exit",
                               ![j].status = IF ToolAccepts(ToolInput(j), tool[j].name) THEN 0 ELSE 1]
  /\ UNCHANGED <<config, files, pc, program, status, pipe, delivered, lost>>

ToolOpens(j) ==
  /\ tool[j].step = "open"
  /\ Write(j, tool[j].output, ToolProduct(j, FALSE))
  /\ Step(j, "write")
  /\ UNCHANGED <<config, pc, program, status, pipe, lost>>

\* It fails half-way, or its output becomes whole.
ToolWrites(j) ==
  /\ tool[j].step = "write"
  /\ \/ tool' = [tool EXCEPT ![j].step = "exit", ![j].status = 1] /\ UNCHANGED <<files, delivered>>
     \/ Write(j, tool[j].output, ToolProduct(j, TRUE)) /\ Step(j, "exit")
  /\ UNCHANGED <<config, pc, program, status, pipe, lost>>

\* It prints before it exits, and blocks while the pipe is full.
ToolPrints(j) ==
  /\ tool[j].step = "exit" /\ tool[j].left > 0
  /\ config[j].verbose \/ pipe[j] < PipeCapacity
  /\ tool' = [tool EXCEPT ![j].left = @ - 1]
  /\ pipe' = [pipe EXCEPT ![j] = IF config[j].verbose THEN @ ELSE @ + 1]
  /\ UNCHANGED <<config, files, pc, program, status, delivered, lost>>

ToolExits(j) ==
  /\ tool[j].step = "exit" /\ tool[j].left = 0
  /\ Die(j, tool[j].status)
  /\ UNCHANGED <<config, files, pc, program, status, pipe, delivered, lost>>

\* A signal, 9 say: among others when it prints and its klang is no more.
ToolKilled(j) ==
  /\ tool[j].step \in {"open", "write", "exit"}
  /\ Die(j, 128 + 9)
  /\ UNCHANGED <<config, files, pc, program, status, pipe, delivered, lost>>

-----------------------------------------------------------------------------
Run(j) ==
  \/ Compile(j) \/ codegen_generate_file(j) \/ codegen_emit_fasm(j)
  \/ Launch(j) \/ Drain(j) \/ waitpid(j)
  \/ Assembled(j) \/ CheckAssembler(j) \/ Linked(j)

Tool(j) ==
  ToolBegins(j) \/ ToolOpens(j) \/ ToolWrites(j) \/ ToolPrints(j) \/ ToolExits(j)

Next == \E j \in Jobs : Run(j) \/ Tool(j) \/ Kill(j) \/ ToolKilled(j)

\* A run is scheduled, and so is the program it has started.
Fairness == \A j \in Jobs : WF_vars(Run(j)) /\ WF_vars(Tool(j))

Spec == Init /\ [][Next]_vars /\ Fairness

-----------------------------------------------------------------------------
outcome ==
  [j \in Jobs |-> CASE pc[j] = "killed" -> "killed"
                    [] pc[j] = "exited" -> IF status[j] = 0 THEN "succeeded" ELSE "failed"
                    [] OTHER -> "running"]

Product(phase) == IF phase \in {"asm", "obj"} THEN phase ELSE "exe"

Made(j) ==
  IF delivered[j] = Absent THEN "nothing"
  ELSE IF delivered[j].kind = Product(config[j].phase) /\ delivered[j].whole THEN "complete" ELSE "partial"

Litters(j) == \E path \in DOMAIN files : path[4] = j /\ files[path].by = j

Intermediates(j) == {asm_path(j), obj_path(j)} \ {resolve_default_output_name(j)}

\* No other run makes a file this one works with.
Undisturbed(j) ==
  \A k \in Jobs \ {j} :
    ({asm_path(j), obj_path(j), resolve_default_output_name(j)}
       \cap {asm_path(k), obj_path(k), resolve_default_output_name(k)}) \subseteq
    (IF config[j].save_temps \/ config[k].save_temps THEN {} ELSE Intermediates(j))

Compilations ==
  INSTANCE Compilation WITH
    dumping <- {j \in Jobs : config[j].dump_ir},
    made <- [j \in Jobs |-> Made(j)],
    litter <- [j \in Jobs |-> Litters(j)],
    excused <- [j \in Jobs |-> lost[j] \/ ~Undisturbed(j)]

\* Every way driver_run_pipeline takes to exit keeps the promise of
\* Compilation: status 0 only with a whole output, and no temporary file left,
\* whichever program or system call fails, and whatever a killed run left.
\* Excused are runs that lost assembly on a full disk, which nobody notices, and
\* those that share a file with another run, which -save-temps may make them do.
KeepsPromise == Compilations!Spec

\* Two compilations of files with one stem in one directory do not use each
\* other's intermediate files: a run that exits 0 has made its output from the
\* source it has read.  With -save-temps, or one output for both, they may.
MadeFromOwnSource ==
  \A j \in Jobs : outcome[j] = "succeeded" /\ ~config[j].dump_ir /\ Undisturbed(j)
                  => delivered[j].of = program[j]

\* A run ends, however much the programs it starts print: process_exec reads
\* what they print before it waits for them.
Terminates == \A j \in Jobs : <>(pc[j] \in {"exited", "killed"})
=============================================================================
