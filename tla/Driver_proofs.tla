---------------------------- MODULE Driver_proofs ----------------------------
(***************************************************************************)
(* Proofs about Driver, for any number of runs, whatever they are asked,   *)
(* and whatever files others have left.                                    *)
(*                                                                         *)
(* The invariant follows each run by itself: a step of another run changes *)
(* nothing of it but files, and only those that the other one uses.        *)
(***************************************************************************)
EXTENDS Driver, TLAPS

Known == {NoPath} \cup UNION {Paths(configs) : configs \in Configs}
Contents ==
  [kind : {"none", "source", "asm", "obj", "exe"}, of : Known, by : Jobs \cup {0}, whole : BOOLEAN]
ToolSteps == {"none", "exec", "open", "write", "exit", "dead"}
Tools ==
  [name : {"none", "fasm", "gcc"}, step : ToolSteps, input : Contents, output : Known,
   left : Int, status : Int]
Places ==
  {"read", "codegen", "emit", "assembler", "drain", "wait", "assembled", "check", "linker",
   "linked", "exited", "killed"}

Typed ==
  /\ config \in Configs
  /\ files \in [Paths(config) -> Contents]
  /\ pc \in [Jobs -> Places]
  /\ program \in [Jobs -> Known]
  /\ status \in [Jobs -> Int]
  /\ tool \in [Jobs -> Tools]
  /\ delivered \in [Jobs -> Contents]
  /\ lost \in [Jobs -> BOOLEAN]

Out(j) == resolve_default_output_name(j)
Used(j) == {asm_path(j), obj_path(j), Out(j)}

\* The run has forked and not yet waited.
Forked(j) == pc[j] \in {"drain", "wait"}

Assembling(j) == pc[j] \in {"assembler", "assembled", "check"} \/ (Forked(j) /\ tool[j].name = "fasm")
Linking(j) == pc[j] \in {"linker", "linked"} \/ (Forked(j) /\ tool[j].name = "gcc")

\* A program has been started exactly where a run waits for one, or was killed;
\* what it writes is what the run goes on with.
Control(j) ==
  /\ Forked(j) => tool[j].step # "none"
  /\ pc[j] # "killed" /\ ~Forked(j) => tool[j] = NoTool
  /\ tool[j].step # "none" =>
       /\ tool[j].name \in {"fasm", "gcc"}
       /\ tool[j].output = IF tool[j].name = "fasm" THEN obj_path(j) ELSE Out(j)
  /\ Assembling(j) => config[j].phase # "asm"
  /\ Linking(j) => config[j].phase \notin {"asm", "obj"}

\* The temporary files a run may have at each place.
Remaining(j) ==
  IF pc[j] = "killed" THEN Used(j)
  ELSE {path \in {asm_path(j)} : pc[j] \in {"emit", "assembler", "assembled"} \/ (Forked(j) /\ Assembling(j))}
         \cup {path \in {obj_path(j)} : pc[j] \in {"assembled", "check"} \/ Forked(j) \/ Linking(j)}

Tidy(j) == \A path \in DOMAIN files : path[4] = j /\ files[path].by = j => path \in Remaining(j)

\* What the run has made of the source it read.
Result(j, kind) == [kind |-> kind, of |-> program[j], by |-> j, whole |-> ~lost[j]]

ObjectMade(j) ==
  files[obj_path(j)] = Result(j, "obj") /\ (config[j].phase = "obj" => delivered[j] = Result(j, "obj"))
OutputMade(j) == delivered[j] = Result(j, "exe")

\* Each stage has the result of the one before it, if no other run interferes,
\* and if the programs so far have reported success.
Chain(j) ==
  /\ pc[j] = "assembler" \/ (Forked(j) /\ tool[j].name = "fasm" /\ tool[j].step = "exec")
       => files[asm_path(j)] = Result(j, "asm")
  /\ Forked(j) /\ tool[j].name = "fasm" =>
       /\ tool[j].step \in {"open", "write"} => tool[j].input = Result(j, "asm")
       /\ tool[j].step \in {"exit", "dead"} /\ tool[j].status = 0 => ObjectMade(j)
  /\ pc[j] \in {"assembled", "check"} /\ status[j] = 0 => ObjectMade(j)
  /\ pc[j] = "linker" \/ (Forked(j) /\ tool[j].name = "gcc" /\ tool[j].step = "exec")
       => files[obj_path(j)] = Result(j, "obj")
  /\ Forked(j) /\ tool[j].name = "gcc" =>
       /\ tool[j].step \in {"open", "write"} => tool[j].input = Result(j, "obj")
       /\ tool[j].step \in {"exit", "dead"} /\ tool[j].status = 0 => OutputMade(j)
  /\ pc[j] = "linked" /\ status[j] = 0 => OutputMade(j)
  /\ pc[j] = "exited" /\ status[j] = 0 /\ ~config[j].dump_ir
       => delivered[j] = Result(j, Product(config[j].phase))

JobInv(j) == Control(j) /\ Tidy(j) /\ (Undisturbed(j) => Chain(j))

Inv == Typed /\ \A j \in Jobs : JobInv(j)

-----------------------------------------------------------------------------
(* Names of files. *)

\* Where the files of a run are, and which of them have its process in the name.
LEMMA Names ==
  ASSUME config \in Configs, NEW j \in Jobs
  PROVE  /\ Used(j) \subseteq Paths(config)
         /\ config[j].input_path \in Paths(config) /\ config[j].input_path[4] = 0
         /\ Out(j)[4] = 0
         /\ asm_path(j)[4] \in {0, j} /\ (asm_path(j)[4] = j <=> cleanup_asm(j))
         /\ obj_path(j)[4] \in {0, j}
         /\ config[j].phase # "asm" => (obj_path(j)[4] = j <=> cleanup_obj(j))
         /\ config[j].phase = "asm" => asm_path(j) = Out(j)
         /\ config[j].phase = "obj" => obj_path(j) = Out(j)
         /\ cleanup_asm(j) => asm_path(j) # obj_path(j)
<1> DEFINE conf == config[j]
           Exts == {".asm", ".o", ".so", ""}
           Ids == Jobs \cup {0}
<1>1. conf \in DriverConfig
  BY DriverAssumption
<1>2. Around(conf) \subseteq Paths(config)
  BY DEF Paths
<1>3. /\ conf.input_path \in Path /\ conf.output_path \in Path
      /\ conf.phase \in {"exe", "obj", "asm", "shared"} /\ conf.save_temps \in BOOLEAN
  BY <1>1 DEF DriverConfig
<1>4. /\ \A ext \in Exts, p \in Ids : <<".", conf.input_path[2], ext, p>> \in Around(conf)
      /\ conf.input_path \in Around(conf) /\ conf.output_path \in Around(conf)
  <2> HIDE DEF Exts, Ids
  <2>1. Around(conf) = {conf.input_path, conf.output_path} \cup
                       {<<".", conf.input_path[2], ext, p>> : ext \in Exts, p \in Ids}
    BY DEF Around, Exts, Ids
  <2>2. \A ext \in Exts, p \in Ids :
          <<".", conf.input_path[2], ext, p>> \in {<<".", conf.input_path[2], e, q>> : e \in Exts, q \in Ids}
    OBVIOUS
  <2>3. QED
    BY <2>1, <2>2
<1>5. \A path \in Path : path[4] = 0
  BY DEF Path
<1>6. ASSUME NEW ext \in Exts
      PROVE  /\ Named(j, ext) \in Around(conf) /\ Named(j, ext)[4] = 0
             /\ Temporary(j, ext) \in Around(conf) /\ Temporary(j, ext)[4] = j
             /\ Temporary(j, ext)[3] = ext
  BY <1>4 DEF Named, Temporary, extract_file_stem
<1>7. Extension(conf.phase) \in Exts
  BY <1>3 DEF Extension
<1>8. Out(j) \in Around(conf) /\ Out(j)[4] = 0
  BY <1>3, <1>4, <1>5, <1>6, <1>7 DEF Out, resolve_default_output_name
<1>9. ASSUME NEW ext \in {".asm", ".o"}
      PROVE  /\ Intermediate(j, ext) \in Around(conf)
             /\ Intermediate(j, ext)[4] = IF conf.save_temps THEN 0 ELSE j
             /\ ~conf.save_temps => Intermediate(j, ext)[3] = ext
  BY <1>6 DEF Intermediate
<1>10. /\ asm_path(j) \in Around(conf)
       /\ asm_path(j)[4] \in {0, j} /\ (asm_path(j)[4] = j <=> cleanup_asm(j))
       /\ cleanup_asm(j) => asm_path(j)[3] = ".asm"
  BY <1>3, <1>8, <1>9, DriverAssumption DEF asm_path, Out, cleanup_asm
<1>11. /\ obj_path(j) \in Around(conf)
       /\ obj_path(j)[4] \in {0, j}
       /\ conf.phase # "asm" => (obj_path(j)[4] = j <=> cleanup_obj(j))
       /\ obj_path(j)[4] = j => obj_path(j)[3] = ".o"
  BY <1>3, <1>8, <1>9, DriverAssumption DEF obj_path, Out, cleanup_obj
<1>12. cleanup_asm(j) => asm_path(j) # obj_path(j)
  BY <1>10, <1>11
<1>13. /\ conf.phase = "asm" => asm_path(j) = Out(j)
       /\ conf.phase = "obj" => obj_path(j) = Out(j)
  BY DEF asm_path, obj_path, Out
<1>14. Used(j) \subseteq Around(conf)
  BY <1>8, <1>10, <1>11 DEF Used
<1>15. QED
  BY <1>2, <1>3, <1>4, <1>5, <1>8, <1>10, <1>11, <1>12, <1>13, <1>14

\* A run that is undisturbed shares no file with any other.
LEMMA Apart ==
  ASSUME config \in Configs, NEW j \in Jobs, Undisturbed(j), NEW k \in Jobs, k # j
  PROVE  Used(j) \cap Used(k) = {}
<1>1. Used(j) \cap Used(k) \subseteq Intermediates(j)
  BY DEF Undisturbed, Used, Out
<1>2. \A path \in Used(j) \cap Used(k) : path[4] = 0
  BY Names, DriverAssumption DEF Used
<1>3. ~config[j].save_temps => \A path \in Intermediates(j) : path[4] = j
  BY Names DEF Intermediates, asm_path, obj_path, Out, Intermediate, Temporary
<1>4. QED
  BY <1>1, <1>2, <1>3, DriverAssumption DEF Undisturbed, Used, Out
-----------------------------------------------------------------------------
(* What a step of one run leaves alone. *)

Moves(k) == Run(k) \/ Tool(k) \/ Kill(k) \/ ToolKilled(k)

Frame(k) ==
  /\ config' = config
  /\ \A j \in Jobs \ {k} :
       /\ pc'[j] = pc[j] /\ program'[j] = program[j] /\ status'[j] = status[j]
       /\ tool'[j] = tool[j] /\ delivered'[j] = delivered[j] /\ lost'[j] = lost[j]
  /\ \A path \in DOMAIN files \ Used(k) : files'[path] = files[path]

\* What is written is typed, and to a path in use.
LEMMA WriteTyped ==
  ASSUME Typed, config' = config, NEW k \in Jobs, NEW path \in Used(k), NEW contents \in Contents,
         Write(k, path, contents)
  PROVE  /\ files' \in [Paths(config) -> Contents] /\ delivered' \in [Jobs -> Contents]
         /\ \A j \in Jobs \ {k} : delivered'[j] = delivered[j]
         /\ \A p \in DOMAIN files \ Used(k) : files'[p] = files[p]
  BY Names DEF Typed, Write

LEMMA UnlinkTyped ==
  ASSUME Typed, NEW k \in Jobs, NEW path \in Used(k), NEW wanted \in BOOLEAN,
         files' = Unlinked(path, wanted)
  PROVE  /\ files' \in [Paths(config) -> Contents]
         /\ \A p \in DOMAIN files \ Used(k) : files'[p] = files[p]
<1>1. Absent \in Contents
  BY DEF Absent, Contents, Known
<1>2. QED
  BY <1>1, Names DEF Typed, Unlinked

LEMMA Constants ==
  ASSUME Typed
  PROVE  /\ NoPath \in Known /\ Paths(config) \subseteq Known
         /\ Absent \in Contents /\ NoTool \in Tools
<1>1. NoPath \in Known /\ Paths(config) \subseteq Known
  BY DEF Typed, Known
<1>2. Absent \in Contents
  BY <1>1 DEF Absent, Contents
<1>3. QED
  BY <1>1, <1>2 DEF NoTool, Tools, ToolSteps

\* The fields of a program's record after its steps.
Ends(k, next, code) == tool' = [tool EXCEPT ![k].step = next, ![k].status = code]

LEMMA EndTyped ==
  ASSUME Typed, NEW k \in Jobs, NEW next \in ToolSteps, NEW code \in Int, Ends(k, next, code)
  PROVE  /\ tool' \in [Jobs -> Tools] /\ \A j \in Jobs \ {k} : tool'[j] = tool[j]
         /\ tool'[k].step = next /\ tool'[k].status = code
         /\ tool'[k].name = tool[k].name /\ tool'[k].output = tool[k].output
<1>1. tool[k] \in Tools
  BY DEF Typed
<1>2. tool' = [tool EXCEPT ![k] = [[tool[k] EXCEPT !.step = next] EXCEPT !.status = code]]
  BY DEF Typed, Ends
<1>3. [[tool[k] EXCEPT !.step = next] EXCEPT !.status = code] \in Tools
  BY <1>1 DEF Tools
<1>4. QED
  BY <1>1, <1>2, <1>3 DEF Typed, Tools

LEMMA DieTyped ==
  ASSUME Typed, NEW k \in Jobs, NEW code \in Int, Die(k, code)
  PROVE  /\ tool' \in [Jobs -> Tools] /\ \A j \in Jobs \ {k} : tool'[j] = tool[j]
         /\ tool'[k].step = "dead" /\ tool'[k].status = code
         /\ tool'[k].name = tool[k].name /\ tool'[k].output = tool[k].output
<1>1. "dead" \in ToolSteps /\ Ends(k, "dead", code)
  BY DEF Die, Ends, ToolSteps
<1>2. QED
  BY <1>1, EndTyped

LEMMA StepTyped ==
  ASSUME Typed, NEW k \in Jobs, NEW next \in ToolSteps, Step(k, next)
  PROVE  /\ tool' \in [Jobs -> Tools] /\ \A j \in Jobs \ {k} : tool'[j] = tool[j]
         /\ tool'[k] = [tool[k] EXCEPT !.step = next]
<1>1. tool[k] \in Tools
  BY DEF Typed
<1>2. [tool[k] EXCEPT !.step = next] \in Tools
  BY <1>1 DEF Tools
<1>3. QED
  BY <1>1, <1>2 DEF Typed, Step

Begun(k, n) ==
  [name |-> tool[k].name, output |-> tool[k].output, left |-> n, input |-> ToolInput(k),
   step |-> IF ToolAccepts(ToolInput(k), tool[k].name) THEN "open" ELSE "exit",
   status |-> IF ToolAccepts(ToolInput(k), tool[k].name) THEN 0 ELSE 1]

LEMMA BeginTyped ==
  ASSUME Typed, NEW k \in Jobs, ToolBegins(k)
  PROVE  \/ Die(k, 127)
         \/ \E n \in {0, Chatter[k]} :
              /\ tool' \in [Jobs -> Tools] /\ \A j \in Jobs \ {k} : tool'[j] = tool[j]
              /\ tool'[k] = Begun(k, n)
<1> SUFFICES ASSUME ~Die(k, 127)
             PROVE \E n \in {0, Chatter[k]} :
                      /\ tool' \in [Jobs -> Tools] /\ \A j \in Jobs \ {k} : tool'[j] = tool[j]
                      /\ tool'[k] = Begun(k, n)
  OBVIOUS
<1>1. tool[k] \in Tools /\ ToolInput(k) \in Contents
  BY Names DEF Typed, ToolInput, Used
<1>2. PICK n \in {0, Chatter[k]} :
        tool' = [tool EXCEPT ![k].left = n, ![k].input = ToolInput(k),
                             ![k].step = IF ToolAccepts(ToolInput(k), tool[k].name) THEN "open" ELSE "exit",
                             ![k].status = IF ToolAccepts(ToolInput(k), tool[k].name) THEN 0 ELSE 1]
  BY DEF ToolBegins
<1>3. n \in Int
  BY DriverAssumption
<1>4. Begun(k, n) \in Tools
  BY <1>1, <1>3 DEF Begun, Tools, ToolSteps
<1>5. tool'[k] = Begun(k, n)
  BY <1>1, <1>2 DEF Begun, Typed, Tools
<1>6. tool' = [tool EXCEPT ![k] = Begun(k, n)]
  BY <1>1, <1>2, <1>5 DEF Typed
<1>7. QED
  BY <1>4, <1>5, <1>6 DEF Typed

LEMMA Stays ==
  ASSUME Inv, NEW k \in Jobs, Moves(k)
  PROVE  Typed' /\ Frame(k)
<1> USE DEF Frame
<1>0. Typed /\ Control(k) /\ Used(k) \subseteq Known /\ config[k].input_path \in Paths(config)
  BY Names, Constants DEF Inv, JobInv, Typed
<1>1. CASE Compile(k)
  <2>1. files[config[k].input_path].of \in Known
    BY <1>0 DEF Typed, Contents
  <2>2. QED
    BY <1>0, <1>1, <2>1 DEF Compile, Exit, Goto, Typed, Places
<1>2. CASE codegen_generate_file(k)
  <2>1. Assembly(k, FALSE) \in Contents /\ asm_path(k) \in Used(k)
    BY <1>0 DEF Assembly, Contents, Typed, Used
  <2>2. QED
    <3>1. CASE Exit(k, 1) /\ UNCHANGED <<files, delivered>>
      BY <1>0, <1>2, <3>1 DEF codegen_generate_file, Exit, Goto, Typed, Places
    <3>2. CASE Write(k, asm_path(k), Assembly(k, FALSE)) /\ Goto(k, "emit") /\ UNCHANGED status
      <4>1. config' = config
        BY <1>2 DEF codegen_generate_file
      <4>2. QED
        BY <1>0, <1>2, <2>1, <3>2, <4>1, WriteTyped DEF codegen_generate_file, Goto, Typed, Places
    <3>3. QED
      BY <1>2, <3>1, <3>2 DEF codegen_generate_file
<1>3. CASE codegen_emit_fasm(k)
  <2>1. PICK all \in BOOLEAN : Write(k, asm_path(k), Assembly(k, all)) /\ lost' = [lost EXCEPT ![k] = ~all]
    BY <1>3 DEF codegen_emit_fasm
  <2>2. Assembly(k, all) \in Contents /\ asm_path(k) \in Used(k)
    BY <1>0 DEF Assembly, Contents, Typed, Used
  <2>3. QED
    BY <1>0, <1>3, <2>1, <2>2, WriteTyped DEF codegen_emit_fasm, Exit, Goto, Typed, Places
<1>4. CASE Launch(k)
  <2>1. Launched(k) \in Tools
    <3>1. obj_path(k) \in Known /\ resolve_default_output_name(k) \in Known
      BY <1>0 DEF Used, Out
    <3>2. QED
      BY <1>0, <3>1, Constants DEF Launched, Tools, ToolSteps, NoTool
  <2>2. QED
    BY <1>0, <1>4, <2>1 DEF Launch, FirstWait, Goto, Typed, Places
<1>5. CASE Drain(k)
  BY <1>0, <1>5 DEF Drain, Goto, Typed, Places
<1>6. CASE waitpid(k)
  <2>1. NoTool \in Tools /\ ExitCode(k) \in Int
    BY <1>0, Constants DEF ExitCode, Typed, Tools
  <2>2. QED
    BY <1>0, <1>6, <2>1 DEF waitpid, After, Goto, Typed, Places
<1>7. CASE Assembled(k)
  BY <1>0, <1>7, UnlinkTyped DEF Assembled, Goto, Typed, Places, Used, cleanup_asm
<1>8. CASE CheckAssembler(k)
  BY <1>0, <1>8, UnlinkTyped DEF CheckAssembler, Exit, Goto, Typed, Places, Used, cleanup_obj
<1>9. CASE Linked(k)
  BY <1>0, <1>9, UnlinkTyped DEF Linked, Exit, Goto, Typed, Places, Used, cleanup_obj
<1>10. CASE Kill(k)
  BY <1>0, <1>10 DEF Kill, Goto, Typed, Places
<1>11. CASE ToolBegins(k)
  <2>1. tool' \in [Jobs -> Tools] /\ \A j \in Jobs \ {k} : tool'[j] = tool[j]
    BY <1>0, <1>11, BeginTyped, DieTyped
  <2>2. QED
    BY <1>0, <1>11, <2>1 DEF ToolBegins, Typed
<1>12. ASSUME NEW all \in BOOLEAN, tool[k].step # "none" PROVE ToolProduct(k, all) \in Contents /\ tool[k].output \in Used(k)
  BY <1>0, <1>12 DEF ToolProduct, Contents, Typed, Tools, Control, Used
<1>13. CASE ToolOpens(k)
  <2>1. tool' \in [Jobs -> Tools] /\ \A j \in Jobs \ {k} : tool'[j] = tool[j]
    BY <1>0, <1>13, StepTyped DEF ToolOpens, ToolSteps
  <2>2. QED
    BY <1>0, <1>12, <1>13, <2>1, WriteTyped DEF ToolOpens, Typed
<1>14. CASE ToolWrites(k)
  <2>1. CASE Write(k, tool[k].output, ToolProduct(k, TRUE)) /\ Step(k, "exit")
    <3>1. tool' \in [Jobs -> Tools] /\ \A j \in Jobs \ {k} : tool'[j] = tool[j]
      BY <1>0, <2>1, StepTyped DEF ToolSteps
    <3>2. QED
      BY <1>0, <1>12, <1>14, <2>1, <3>1, WriteTyped DEF ToolWrites, Typed
  <2>2. CASE tool' = [tool EXCEPT ![k].step = "exit", ![k].status = 1] /\ UNCHANGED <<files, delivered>>
    <3>1. tool' \in [Jobs -> Tools] /\ \A j \in Jobs \ {k} : tool'[j] = tool[j]
      <4>1. "exit" \in ToolSteps /\ Ends(k, "exit", 1)
        BY <2>2 DEF Ends, ToolSteps
      <4>2. QED
        BY <1>0, <4>1, EndTyped
    <3>2. QED
      BY <1>0, <1>14, <2>2, <3>1 DEF ToolWrites, Typed
  <2>3. QED
    BY <1>14, <2>1, <2>2 DEF ToolWrites
<1>15. CASE ToolPrints(k)
  BY <1>0, <1>15 DEF ToolPrints, Typed, Tools
<1>16. CASE ToolExits(k)
  <2>1. tool[k].status \in Int
    BY <1>0 DEF Typed, Tools
  <2>2. QED
    BY <1>0, <1>16, <2>1, DieTyped DEF ToolExits, Typed
<1>17. CASE ToolKilled(k)
  BY <1>0, <1>17, DieTyped DEF ToolKilled, Typed
<1>18. QED
  BY <1>1, <1>2, <1>3, <1>4, <1>5, <1>6, <1>7, <1>8, <1>9, <1>10, <1>11, <1>13, <1>14, <1>15,
     <1>16, <1>17 DEF Moves, Run, Tool

\* What a run is asked does not change, nor what follows from it.
LEMMA SameNames ==
  ASSUME config' = config, NEW j \in Jobs
  PROVE  /\ asm_path(j)' = asm_path(j) /\ obj_path(j)' = obj_path(j) /\ Out(j)' = Out(j)
         /\ Used(j)' = Used(j) /\ Undisturbed(j)' = Undisturbed(j)
<1>1. \A i \in Jobs : /\ asm_path(i)' = asm_path(i) /\ obj_path(i)' = obj_path(i)
                      /\ resolve_default_output_name(i)' = resolve_default_output_name(i)
  BY DEF asm_path, obj_path, Intermediate, resolve_default_output_name, Named, Temporary, extract_file_stem
<1>2. Intermediates(j)' = Intermediates(j)
  BY <1>1 DEF Intermediates
<1>3. Undisturbed(j)' = Undisturbed(j)
  BY <1>1, <1>2 DEF Undisturbed
<1>4. QED
  BY <1>1, <1>3 DEF Used, Out

\* Another run keeps its part of the invariant.
LEMMA OthersKeep ==
  ASSUME Inv, NEW k \in Jobs, Moves(k), NEW j \in Jobs, j # k
  PROVE  JobInv(j)'
<1>1. Typed /\ Typed' /\ Frame(k) /\ JobInv(j)
  BY Stays DEF Inv
<1>2. /\ config' = config /\ pc'[j] = pc[j] /\ program'[j] = program[j] /\ status'[j] = status[j]
      /\ tool'[j] = tool[j] /\ delivered'[j] = delivered[j] /\ lost'[j] = lost[j]
  BY <1>1 DEF Frame
<1>3. /\ asm_path(j)' = asm_path(j) /\ obj_path(j)' = obj_path(j) /\ Out(j)' = Out(j)
      /\ Used(j)' = Used(j) /\ Undisturbed(j)' = Undisturbed(j)
  BY <1>2, SameNames
<1>4. /\ Forked(j)' = Forked(j) /\ Assembling(j)' = Assembling(j) /\ Linking(j)' = Linking(j)
      /\ \A kind : Result(j, kind)' = Result(j, kind)
  BY <1>2 DEF Forked, Assembling, Linking, Result
<1>5. Control(j)'
  BY <1>1, <1>2, <1>3, <1>4 DEF JobInv, Control
<1>6. Tidy(j)'
  <2>1. Remaining(j)' = Remaining(j)
    BY <1>2, <1>3, <1>4 DEF Remaining
  <2>2. \A path \in Used(k) : path[4] # j
    BY <1>1, Names, DriverAssumption DEF Used, Typed
  <2>3. DOMAIN files' = DOMAIN files
    BY <1>1, <1>2 DEF Typed
  <2>4. QED
    BY <1>1, <2>1, <2>2, <2>3 DEF JobInv, Tidy, Frame
<1>7. ASSUME Undisturbed(j) PROVE Chain(j)'
  <2>1. files'[asm_path(j)] = files[asm_path(j)] /\ files'[obj_path(j)] = files[obj_path(j)]
    BY <1>1, <1>7, Names, Apart DEF Frame, Typed, Used
  <2>2. ObjectMade(j)' = ObjectMade(j) /\ OutputMade(j)' = OutputMade(j)
    BY <1>2, <1>3, <1>4, <2>1 DEF ObjectMade, OutputMade
  <2>3. Chain(j)
    BY <1>1, <1>7 DEF JobInv
  <2>4. QED
    BY <1>2, <1>3, <1>4, <2>1, <2>2, <2>3 DEF Chain
<1>8. QED
  BY <1>3, <1>5, <1>6, <1>7 DEF JobInv

\* Writing changes one path, and is remembered if that is the output.
LEMMA WriteEffect ==
  ASSUME Typed, config' = config, NEW j \in Jobs, NEW path \in Used(j), NEW contents, Write(j, path, contents)
  PROVE  /\ files'[path] = contents
         /\ \A p \in DOMAIN files : p # path => files'[p] = files[p]
         /\ delivered'[j] = IF path = Out(j) THEN contents ELSE delivered[j]
  BY Names DEF Typed, Write, Out

LEMMA UnlinkEffect ==
  ASSUME Typed, NEW j \in Jobs, NEW path \in Used(j), NEW wanted \in BOOLEAN, files' = Unlinked(path, wanted)
  PROVE  /\ files'[path] = IF wanted THEN Absent ELSE files[path]
         /\ \A p \in DOMAIN files : p # path => files'[p] = files[p]
  BY Names DEF Typed, Unlinked

LEMMA OwnKeeps ==
  ASSUME Inv, NEW j \in Jobs, Moves(j)
  PROVE  JobInv(j)'
<1>0. /\ Typed /\ Typed' /\ config' = config /\ DOMAIN files' = DOMAIN files
      /\ Control(j) /\ Tidy(j) /\ (Undisturbed(j) => Chain(j))
      /\ \A path \in DOMAIN files \ Used(j) : files'[path] = files[path]
  BY Stays DEF Inv, JobInv, Frame, Typed
<1>1. /\ asm_path(j)' = asm_path(j) /\ obj_path(j)' = obj_path(j) /\ Out(j)' = Out(j)
      /\ Used(j)' = Used(j) /\ Undisturbed(j)' = Undisturbed(j)
  BY <1>0, SameNames
<1>2. tool[j] \in Tools /\ tool'[j] \in Tools
  BY <1>0 DEF Typed
<1>3. /\ asm_path(j) \in DOMAIN files /\ obj_path(j) \in DOMAIN files /\ Out(j) \in DOMAIN files
      /\ 0 # j /\ Out(j)[4] = 0
      /\ config[j].phase = "asm" => asm_path(j) = Out(j)
      /\ config[j].phase = "obj" => obj_path(j) = Out(j)
  BY <1>0, Names, DriverAssumption DEF Typed, Used
<1>4. CASE Compile(j)
  <2>1. /\ pc[j] = "read" /\ pc'[j] \in {"exited", "codegen"}
        /\ pc'[j] = "exited" => status'[j] = 1 \/ config[j].dump_ir
        /\ tool' = tool /\ files' = files
    BY <1>0, <1>4 DEF Compile, Exit, Goto, Typed
  <2>2. Control(j)'
    BY <1>0, <1>1, <2>1 DEF Control, Forked, Assembling, Linking
  <2>3. Tidy(j)'
    BY <1>0, <2>1 DEF Tidy, Remaining, Forked, Assembling, Linking
  <2>4. Chain(j)'
    BY <1>0, <2>1 DEF Chain, Forked
  <2>5. QED
    BY <2>2, <2>3, <2>4 DEF JobInv
<1>5. CASE codegen_generate_file(j)
  <2>1. /\ pc[j] = "codegen" /\ tool' = tool
        /\ \/ pc'[j] = "exited" /\ status'[j] = 1 /\ files' = files
           \/ pc'[j] = "emit" /\ Write(j, asm_path(j), Assembly(j, FALSE))
    BY <1>0, <1>5 DEF codegen_generate_file, Exit, Goto, Typed
  <2>2. Control(j)'
    BY <1>0, <1>1, <2>1 DEF Control, Forked, Assembling, Linking
  <2>3. Tidy(j)'
    <3>1. CASE files' = files /\ pc'[j] = "exited"
      BY <1>0, <1>1, <2>1, <3>1 DEF Tidy, Remaining, Forked, Assembling, Linking
    <3>2. CASE pc'[j] = "emit" /\ Write(j, asm_path(j), Assembly(j, FALSE))
      <4>1. \A p \in DOMAIN files : p # asm_path(j) => files'[p] = files[p]
        BY <1>0, <3>2, WriteEffect DEF Used
      <4>2. QED
        BY <1>0, <1>1, <2>1, <3>2, <4>1 DEF Tidy, Remaining, Forked, Assembling, Linking
    <3>3. QED
      BY <2>1, <3>1, <3>2
  <2>4. Chain(j)'
    <3>1. (pc'[j] = "exited" /\ status'[j] = 1) \/ pc'[j] = "emit"
      BY <2>1
    <3>2. QED
      BY <3>1 DEF Chain, Forked
  <2>5. QED
    BY <2>2, <2>3, <2>4 DEF JobInv
<1>6. CASE codegen_emit_fasm(j)
  <2>1. PICK all \in BOOLEAN : Write(j, asm_path(j), Assembly(j, all)) /\ lost' = [lost EXCEPT ![j] = ~all]
    BY <1>6 DEF codegen_emit_fasm
  <2>2. /\ pc[j] = "emit" /\ tool' = tool /\ program' = program
        /\ IF config[j].phase = "asm" THEN pc'[j] = "exited" ELSE pc'[j] = "assembler"
    BY <1>0, <1>6 DEF codegen_emit_fasm, Exit, Goto, Typed
  <2>3. /\ files'[asm_path(j)] = Assembly(j, all)
        /\ \A p \in DOMAIN files : p # asm_path(j) => files'[p] = files[p]
        /\ delivered'[j] = IF asm_path(j) = Out(j) THEN Assembly(j, all) ELSE delivered[j]
    BY <1>0, <2>1, WriteEffect DEF Used
  <2>4. Assembly(j, all) = Result(j, "asm")'
    BY <1>0, <2>1, <2>2 DEF Assembly, Result, Typed
  <2>5. Control(j)'
    BY <1>0, <1>1, <2>2 DEF Control, Forked, Assembling, Linking
  <2>6. Tidy(j)'
    BY <1>0, <1>1, <1>3, <2>2, <2>3 DEF Tidy, Remaining, Forked, Assembling, Linking
  <2>7. Chain(j)'
    BY <1>0, <1>1, <1>3, <2>2, <2>3, <2>4 DEF Chain, Forked, Product
  <2>8. QED
    BY <2>5, <2>6, <2>7 DEF JobInv
<1>7. CASE Launch(j)
  <2>1. /\ pc[j] \in {"assembler", "linker"} /\ files' = files /\ delivered' = delivered
        /\ program' = program /\ lost' = lost
        /\ \/ /\ status'[j] = -1 /\ tool' = tool
              /\ pc'[j] = IF pc[j] = "assembler" THEN "assembled" ELSE "linked"
           \/ tool'[j] = Launched(j) /\ pc'[j] \in {"drain", "wait"}
    BY <1>0, <1>7 DEF Launch, FirstWait, Goto, Typed
  <2>2. Launched(j) = [name |-> IF pc[j] = "assembler" THEN "fasm" ELSE "gcc", step |-> "exec",
                       output |-> IF pc[j] = "assembler" THEN obj_path(j) ELSE Out(j),
                       input |-> Absent, left |-> 0, status |-> 0]
    BY DEF Launched, NoTool, Out
  <2>3. Control(j)'
    BY <1>0, <1>1, <2>1, <2>2 DEF Control, Forked, Assembling, Linking
  <2>4. Tidy(j)'
    BY <1>0, <1>1, <2>1, <2>2 DEF Tidy, Remaining, Forked, Assembling, Linking
  <2>5. ASSUME Undisturbed(j) PROVE Chain(j)'
    BY <1>0, <1>1, <2>1, <2>2, <2>5 DEF Chain, Forked, Result
  <2>6. QED
    BY <1>1, <2>3, <2>4, <2>5 DEF JobInv
<1>8. CASE Drain(j)
  <2>1. /\ Forked(j) /\ pc'[j] \in {"drain", "wait"} /\ tool' = tool /\ files' = files
        /\ delivered' = delivered /\ program' = program /\ lost' = lost
    BY <1>0, <1>8 DEF Drain, Goto, Typed, Forked
  <2>2. /\ Forked(j)' /\ Assembling(j)' = Assembling(j) /\ Linking(j)' = Linking(j)
        /\ pc[j] \in {"drain", "wait"}
    BY <2>1 DEF Forked, Assembling, Linking
  <2>3. Control(j)'
    BY <1>0, <1>1, <2>1, <2>2 DEF Control
  <2>4. Tidy(j)'
    BY <1>0, <1>1, <2>1, <2>2 DEF Tidy, Remaining
  <2>5. ASSUME Undisturbed(j) PROVE Chain(j)'
    BY <1>0, <1>1, <2>1, <2>2, <2>5 DEF Chain, Result, ObjectMade, OutputMade
  <2>6. QED
    BY <1>1, <2>3, <2>4, <2>5 DEF JobInv
<1>9. CASE waitpid(j)
  <2>1. /\ Forked(j) /\ pc[j] = "wait" /\ tool[j].step = "dead" /\ tool'[j] = NoTool
        /\ status'[j] = ExitCode(j) /\ files' = files
        /\ delivered' = delivered /\ program' = program /\ lost' = lost
        /\ pc'[j] = IF tool[j].name = "fasm" THEN "assembled" ELSE "linked"
    BY <1>0, <1>9 DEF waitpid, After, Alive, Goto, Typed, Forked, Control
  <2>2. status'[j] = 0 => tool[j].status = 0
    BY <2>1 DEF ExitCode
  <2>3. tool[j].name \in {"fasm", "gcc"}
    BY <1>0, <2>1 DEF Control
  <2>4. Control(j)'
    BY <1>0, <1>1, <2>1, <2>3 DEF Control, Forked, Assembling, Linking, NoTool
  <2>5. Tidy(j)'
    BY <1>0, <1>1, <2>1, <2>3 DEF Tidy, Remaining, Forked, Assembling, Linking
  <2>6. ASSUME Undisturbed(j) PROVE Chain(j)'
    BY <1>0, <1>1, <2>1, <2>2, <2>3, <2>6 DEF Chain, Forked, Result, ObjectMade, OutputMade
  <2>7. QED
    BY <1>1, <2>4, <2>5, <2>6 DEF JobInv
<1>10. CASE Assembled(j)
  <2>1. /\ pc[j] = "assembled" /\ pc'[j] = "check" /\ tool' = tool /\ status' = status
        /\ files' = Unlinked(asm_path(j), cleanup_asm(j))
        /\ delivered' = delivered /\ program' = program /\ lost' = lost
    BY <1>0, <1>10 DEF Assembled, Goto, Typed
  <2>2. /\ files'[asm_path(j)] = IF cleanup_asm(j) THEN Absent ELSE files[asm_path(j)]
        /\ \A p \in DOMAIN files : p # asm_path(j) => files'[p] = files[p]
    BY <1>0, <2>1, UnlinkEffect DEF Used, cleanup_asm
  <2>3. Control(j)'
    BY <1>0, <1>1, <2>1 DEF Control, Forked, Assembling, Linking
  <2>4. Tidy(j)'
    <3>1. Absent.by # j /\ (asm_path(j)[4] = j <=> cleanup_asm(j))
      BY <1>0, <1>3, Names DEF Absent, Typed
    <3>2. QED
      BY <1>0, <1>1, <2>1, <2>2, <3>1 DEF Tidy, Remaining, Forked, Assembling, Linking
  <2>5. ASSUME Undisturbed(j) PROVE Chain(j)'
    <3>1. cleanup_asm(j) => asm_path(j) # obj_path(j)
      BY <1>0, Names DEF Typed
    <3>2. files'[obj_path(j)] = files[obj_path(j)]
      BY <1>3, <2>2, <3>1
    <3>3. QED
      BY <1>0, <1>1, <2>1, <2>5, <3>2 DEF Chain, Forked, Result, ObjectMade
  <2>6. QED
    BY <1>1, <2>3, <2>4, <2>5 DEF JobInv
<1>11. CASE CheckAssembler(j)
  <2>1. /\ pc[j] = "check" /\ tool' = tool /\ status' = status
        /\ delivered' = delivered /\ program' = program /\ lost' = lost
        /\ \/ /\ pc'[j] = "exited" /\ (status[j] # 0 \/ config[j].phase = "obj")
              /\ files' = Unlinked(obj_path(j), status[j] # 0 /\ cleanup_obj(j))
           \/ pc'[j] = "linker" /\ status[j] = 0 /\ config[j].phase # "obj" /\ files' = files
    BY <1>0, <1>11 DEF CheckAssembler, Exit, Goto, Typed
  <2>2. config[j].phase # "asm" /\ (obj_path(j)[4] = j <=> cleanup_obj(j))
    BY <1>0, <2>1, Names DEF Control, Assembling, Typed
  <2>3. Control(j)'
    BY <1>0, <1>1, <2>1, <2>2 DEF Control, Forked, Assembling, Linking
  <2>4. Tidy(j)'
    <3>1. CASE pc'[j] = "linker" /\ files' = files
      BY <1>0, <1>1, <2>1, <3>1 DEF Tidy, Remaining, Forked, Assembling, Linking
    <3>2. CASE /\ pc'[j] = "exited" /\ (status[j] # 0 \/ config[j].phase = "obj")
               /\ files' = Unlinked(obj_path(j), status[j] # 0 /\ cleanup_obj(j))
      <4>1. /\ files'[obj_path(j)] = IF status[j] # 0 /\ cleanup_obj(j) THEN Absent ELSE files[obj_path(j)]
            /\ \A p \in DOMAIN files : p # obj_path(j) => files'[p] = files[p]
        BY <1>0, <3>2, UnlinkEffect DEF Used, cleanup_obj
      <4>2. cleanup_obj(j) => status[j] # 0
        BY <3>2 DEF cleanup_obj
      <4>3. Absent.by # j
        BY <1>3 DEF Absent
      <4>4. QED
        BY <1>0, <1>1, <2>1, <2>2, <3>2, <4>1, <4>2, <4>3 DEF Tidy, Remaining, Forked, Assembling, Linking
    <3>3. QED
      BY <2>1, <3>1, <3>2
  <2>5. ASSUME Undisturbed(j) PROVE Chain(j)'
    BY <1>0, <1>1, <2>1, <2>2, <2>5 DEF Chain, Forked, Result, ObjectMade, Product
  <2>6. QED
    BY <1>1, <2>3, <2>4, <2>5 DEF JobInv
<1>12. CASE Linked(j)
  <2>1. /\ pc[j] = "linked" /\ pc'[j] = "exited" /\ tool' = tool /\ status' = status
        /\ files' = Unlinked(obj_path(j), cleanup_obj(j))
        /\ delivered' = delivered /\ program' = program /\ lost' = lost
    BY <1>0, <1>12 DEF Linked, Exit, Goto, Typed
  <2>2. config[j].phase \notin {"asm", "obj"} /\ (obj_path(j)[4] = j <=> cleanup_obj(j))
    BY <1>0, <2>1, Names DEF Control, Linking, Typed
  <2>3. /\ files'[obj_path(j)] = IF cleanup_obj(j) THEN Absent ELSE files[obj_path(j)]
        /\ \A p \in DOMAIN files : p # obj_path(j) => files'[p] = files[p]
    BY <1>0, <2>1, UnlinkEffect DEF Used, cleanup_obj
  <2>4. Absent.by # j
    BY <1>3 DEF Absent
  <2>5. Control(j)'
    BY <1>0, <1>1, <2>1 DEF Control, Forked, Assembling, Linking
  <2>6. Tidy(j)'
    BY <1>0, <1>1, <2>1, <2>2, <2>3, <2>4 DEF Tidy, Remaining, Forked, Assembling, Linking
  <2>7. ASSUME Undisturbed(j) PROVE Chain(j)'
    BY <1>0, <1>1, <2>1, <2>2, <2>7 DEF Chain, Forked, Result, OutputMade, Product
  <2>8. QED
    BY <1>1, <2>5, <2>6, <2>7 DEF JobInv
<1>13. CASE Kill(j)
  <2>1. /\ pc'[j] = "killed" /\ tool' = tool /\ files' = files
    BY <1>0, <1>13 DEF Kill, Goto, Typed
  <2>2. Control(j)'
    BY <1>0, <1>1, <2>1 DEF Control, Forked, Assembling, Linking
  <2>3. Tidy(j)'
    BY <1>0, <1>1, <2>1 DEF Tidy, Remaining, Used
  <2>4. Chain(j)'
    BY <2>1 DEF Chain, Forked
  <2>5. QED
    BY <2>2, <2>3, <2>4 DEF JobInv
<1>14. CASE ToolBegins(j)
  <2>1. /\ tool[j].step = "exec" /\ pc' = pc /\ status' = status /\ files' = files
        /\ delivered' = delivered /\ program' = program /\ lost' = lost
        /\ \/ Die(j, 127)
           \/ \E n \in {0, Chatter[j]} : tool'[j] = Begun(j, n)
    BY <1>0, <1>14, BeginTyped DEF ToolBegins
  <2>2. /\ tool'[j].name = tool[j].name /\ tool'[j].output = tool[j].output
        /\ \/ tool'[j].step = "dead" /\ tool'[j].status # 0
           \/ tool'[j].step = "exit" /\ tool'[j].status # 0
           \/ tool'[j].step = "open" /\ tool'[j].input = ToolInput(j)
    BY <1>0, <2>1, DieTyped DEF Begun
  <2>3. /\ Forked(j)' = Forked(j) /\ Assembling(j)' = Assembling(j) /\ Linking(j)' = Linking(j)
    BY <2>1, <2>2 DEF Forked, Assembling, Linking
  <2>4. Control(j)'
    BY <1>0, <1>1, <2>1, <2>2, <2>3 DEF Control, NoTool
  <2>5. Tidy(j)'
    BY <1>0, <1>1, <2>1, <2>3 DEF Tidy, Remaining
  <2>6. ASSUME Undisturbed(j) PROVE Chain(j)'
    <3>1. ~Forked(j) => pc[j] = "killed"
      BY <1>0, <2>1 DEF Control, NoTool
    <3>2. \A kind : Result(j, kind)' = Result(j, kind)
      BY <2>1 DEF Result
    <3>3. Forked(j) => ToolInput(j) = Result(j, IF tool[j].name = "fasm" THEN "asm" ELSE "obj")
      BY <1>0, <2>1, <2>6 DEF Chain, Control, ToolInput
    <3>4. QED
      BY <2>1, <2>2, <2>3, <3>1, <3>2, <3>3 DEF Chain, Forked
  <2>7. QED
    BY <1>1, <2>4, <2>5, <2>6 DEF JobInv
<1>15. tool[j].step # "none" => tool[j].output \in Used(j) /\ (pc[j] = "killed" \/ Forked(j))
  BY <1>0 DEF Control, Used, NoTool
<1>16. \A kind : program' = program /\ lost' = lost => Result(j, kind)' = Result(j, kind)
  BY DEF Result
<1>17. CASE ToolOpens(j)
  <2>1. /\ tool[j].step = "open" /\ pc' = pc /\ status' = status /\ program' = program /\ lost' = lost
        /\ Write(j, tool[j].output, ToolProduct(j, FALSE))
    BY <1>17 DEF ToolOpens
  <2>2. /\ tool'[j].step = "write" /\ tool'[j].input = tool[j].input /\ tool'[j].status = tool[j].status
        /\ tool'[j].name = tool[j].name /\ tool'[j].output = tool[j].output
    BY <1>0, <1>2, <1>17, StepTyped DEF ToolOpens, ToolSteps, Tools
  <2>3. \A p \in DOMAIN files : p # tool[j].output => files'[p] = files[p]
    BY <1>0, <1>15, <2>1, WriteEffect
  <2>4. /\ Forked(j)' = Forked(j) /\ Assembling(j)' = Assembling(j) /\ Linking(j)' = Linking(j)
    BY <2>1, <2>2 DEF Forked, Assembling, Linking
  <2>5. Control(j)'
    BY <1>0, <1>1, <2>1, <2>2, <2>4 DEF Control, NoTool
  <2>6. Tidy(j)'
    BY <1>0, <1>1, <1>3, <1>15, <2>1, <2>3, <2>4 DEF Tidy, Remaining, Control, Assembling, Forked
  <2>7. ASSUME Undisturbed(j) PROVE Chain(j)'
    BY <1>0, <1>15, <1>16, <2>1, <2>2, <2>4, <2>7 DEF Chain, Forked
  <2>8. QED
    BY <1>1, <2>5, <2>6, <2>7 DEF JobInv
<1>18. CASE ToolWrites(j)
  <2>1. /\ tool[j].step = "write" /\ pc' = pc /\ status' = status /\ program' = program /\ lost' = lost
    BY <1>18 DEF ToolWrites
  <2>2. /\ tool'[j].step = "exit" /\ tool'[j].name = tool[j].name /\ tool'[j].output = tool[j].output
        /\ tool'[j].status = 0 => Write(j, tool[j].output, ToolProduct(j, TRUE))
        /\ \A p \in DOMAIN files : p # tool[j].output => files'[p] = files[p]
    <3>1. CASE Ends(j, "exit", 1) /\ files' = files
      <4>1. "exit" \in ToolSteps
        BY DEF ToolSteps
      <4>2. /\ tool'[j].step = "exit" /\ tool'[j].name = tool[j].name /\ tool'[j].output = tool[j].output
            /\ tool'[j].status = 1
        BY <1>0, <3>1, <4>1, EndTyped
      <4>3. tool'[j].status # 0
        BY <4>2
      <4>4. QED
        BY <3>1, <4>2, <4>3
    <3>2. CASE Write(j, tool[j].output, ToolProduct(j, TRUE)) /\ Step(j, "exit")
      <4>1. /\ tool'[j].step = "exit" /\ tool'[j].name = tool[j].name /\ tool'[j].output = tool[j].output
        BY <1>0, <1>2, <3>2, StepTyped DEF ToolSteps, Tools
      <4>2. \A p \in DOMAIN files : p # tool[j].output => files'[p] = files[p]
        BY <1>0, <1>15, <2>1, <3>2, WriteEffect
      <4>3. QED
        BY <3>2, <4>1, <4>2
    <3>3. QED
      BY <1>18, <3>1, <3>2 DEF ToolWrites, Ends
  <2>3. \A p \in DOMAIN files : p # tool[j].output => files'[p] = files[p]
    BY <2>2
  <2>4. /\ Forked(j)' = Forked(j) /\ Assembling(j)' = Assembling(j) /\ Linking(j)' = Linking(j)
    BY <2>1, <2>2 DEF Forked, Assembling, Linking
  <2>5. Control(j)'
    BY <1>0, <1>1, <2>1, <2>2, <2>4 DEF Control, NoTool
  <2>6. Tidy(j)'
    BY <1>0, <1>1, <1>3, <1>15, <2>1, <2>3, <2>4 DEF Tidy, Remaining, Control, Assembling, Forked
  <2>7. ASSUME Undisturbed(j), Forked(j), tool'[j].status = 0
        PROVE  IF tool[j].name = "fasm" THEN ObjectMade(j)' ELSE OutputMade(j)'
    <3>1. tool[j].input = Result(j, IF tool[j].name = "fasm" THEN "asm" ELSE "obj")
      BY <1>0, <2>1, <2>7 DEF Chain, Control
    <3>2. ToolProduct(j, TRUE) = Result(j, IF tool[j].name = "fasm" THEN "obj" ELSE "exe")
      <4>1. tool[j].input.whole \in BOOLEAN /\ lost[j] \in BOOLEAN
        BY <1>0, <1>2 DEF Typed, Tools, Contents
      <4>2. tool[j].input.of = program[j] /\ tool[j].input.whole = ~lost[j]
        BY <3>1 DEF Result
      <4>3. QED
        BY <4>1, <4>2 DEF ToolProduct, Result
    <3>3. /\ files'[tool[j].output] = ToolProduct(j, TRUE)
          /\ delivered'[j] = IF tool[j].output = Out(j) THEN ToolProduct(j, TRUE) ELSE delivered[j]
      <4>1. Write(j, tool[j].output, ToolProduct(j, TRUE))
        BY <2>2, <2>7
      <4>2. tool[j].output \in DOMAIN files
        BY <1>0, <1>15, <2>1, Names DEF Typed
      <4>3. QED
        BY <1>0, <4>1, <4>2 DEF Write, Typed, Out
    <3>4. tool[j].output = IF tool[j].name = "fasm" THEN obj_path(j) ELSE Out(j)
      BY <1>0, <2>1 DEF Control
    <3>5. QED
      BY <1>0, <1>1, <1>3, <1>16, <2>1, <3>2, <3>3, <3>4 DEF ObjectMade, OutputMade
  <2>8. ASSUME Undisturbed(j) PROVE Chain(j)'
    BY <1>0, <1>15, <1>16, <2>1, <2>2, <2>4, <2>7, <2>8 DEF Chain, Forked
  <2>9. QED
    BY <1>1, <2>5, <2>6, <2>8 DEF JobInv
<1>19. CASE ToolPrints(j) \/ ToolExits(j) \/ ToolKilled(j)
  <2>1. /\ pc' = pc /\ status' = status /\ program' = program /\ lost' = lost
        /\ files' = files /\ delivered' = delivered
        /\ tool[j].step \in {"open", "write", "exit"}
    BY <1>19 DEF ToolPrints, ToolExits, ToolKilled
  <2>2. /\ tool'[j].name = tool[j].name /\ tool'[j].output = tool[j].output
        /\ tool'[j].step \in {"exit", "dead"}
        /\ tool'[j].status = 0 => tool[j].step = "exit" /\ tool[j].status = 0
    <3>1. CASE ToolPrints(j)
      BY <1>0, <1>2, <3>1 DEF ToolPrints, Typed, Tools
    <3>2. CASE ToolExits(j)
      <4>1. Die(j, tool[j].status) /\ tool[j].status \in Int /\ tool[j].step = "exit"
        BY <1>2, <3>2 DEF ToolExits, Tools
      <4>2. QED
        BY <1>0, <4>1, DieTyped
    <3>3. CASE ToolKilled(j)
      BY <1>0, <3>3, DieTyped DEF ToolKilled
    <3>4. QED
      BY <1>19, <3>1, <3>2, <3>3
  <2>3. /\ Forked(j)' = Forked(j) /\ Assembling(j)' = Assembling(j) /\ Linking(j)' = Linking(j)
        /\ ObjectMade(j)' = ObjectMade(j) /\ OutputMade(j)' = OutputMade(j)
    BY <1>0, <1>1, <1>16, <2>1, <2>2 DEF Forked, Assembling, Linking, ObjectMade, OutputMade
  <2>4. Control(j)'
    BY <1>0, <1>1, <2>1, <2>2, <2>3 DEF Control, NoTool
  <2>5. Tidy(j)'
    BY <1>0, <1>1, <2>1, <2>3 DEF Tidy, Remaining
  <2>6. ASSUME Undisturbed(j) PROVE Chain(j)'
    BY <1>0, <1>15, <2>1, <2>2, <2>3, <2>6 DEF Chain, Forked
  <2>7. QED
    BY <1>1, <2>4, <2>5, <2>6 DEF JobInv
<1>20. QED
  BY <1>4, <1>5, <1>6, <1>7, <1>8, <1>9, <1>10, <1>11, <1>12, <1>13, <1>14, <1>17, <1>18, <1>19
  DEF Moves, Run, Tool

LEMMA InitInv == Init => Inv
<1> SUFFICES ASSUME Init PROVE Inv
  OBVIOUS
<1>1. config \in Configs
  BY DEF Init
<1>2. PICK left \in Leftovers :
        files = [path \in Paths(config) |->
                   IF path \in {config[j].input_path : j \in Jobs} THEN Source(path)
                   ELSE IF path \in left THEN Stale(path) ELSE Absent]
  BY DEF Init
<1>3. /\ NoPath \in Known /\ Absent \in Contents /\ NoTool \in Tools
      /\ \A path \in Paths(config) : Source(path) \in Contents /\ Stale(path) \in Contents
  <2>1. NoPath \in Known /\ Paths(config) \subseteq Known
    BY <1>1 DEF Known
  <2>2. Absent \in Contents /\ \A path \in Paths(config) : Source(path) \in Contents /\ Stale(path) \in Contents
    BY <2>1 DEF Contents, Absent, Source, Stale
  <2>3. QED
    BY <2>1, <2>2 DEF Tools, ToolSteps, NoTool
<1>4. Typed
  <2>1. files \in [Paths(config) -> Contents]
    BY <1>2, <1>3
  <2>2. QED
    BY <1>1, <1>3, <2>1 DEF Init, Typed, Places
<1>5. ASSUME NEW j \in Jobs PROVE JobInv(j)
  <2>1. pc[j] = "read" /\ tool[j] = NoTool
    BY <1>5 DEF Init
  <2>2. Control(j)
    BY <2>1 DEF Control, Forked, Assembling, Linking, NoTool
  <2>3. \A path \in DOMAIN files : files[path].by = 0
    BY <1>2 DEF Source, Stale, Absent
  <2>4. Tidy(j)
    BY <2>3, DriverAssumption DEF Tidy
  <2>5. Chain(j)
    BY <2>1 DEF Chain, Forked
  <2>6. QED
    BY <2>2, <2>4, <2>5 DEF JobInv
<1>6. QED
  BY <1>4, <1>5 DEF Inv

LEMMA NextInv == Inv /\ [Next]_vars => Inv'
<1> SUFFICES ASSUME Inv, [Next]_vars PROVE Inv'
  OBVIOUS
<1>1. ASSUME NEW k \in Jobs, Moves(k) PROVE Inv'
  <2>1. Typed'
    BY <1>1, Stays
  <2>2. ASSUME NEW j \in Jobs PROVE JobInv(j)'
    BY <1>1, OwnKeeps, OthersKeep
  <2>3. QED
    BY <2>1, <2>2 DEF Inv
<1>2. CASE UNCHANGED vars
  <2>1. config' = config
    BY <1>2 DEF vars
  <2>2. Typed'
    BY <1>2 DEF Inv, Typed, vars
  <2>3. ASSUME NEW j \in Jobs PROVE JobInv(j)'
    <3>1. /\ asm_path(j)' = asm_path(j) /\ obj_path(j)' = obj_path(j) /\ Out(j)' = Out(j)
          /\ Used(j)' = Used(j) /\ Undisturbed(j)' = Undisturbed(j)
      BY <2>1, SameNames
    <3>2. /\ Forked(j)' = Forked(j) /\ Assembling(j)' = Assembling(j) /\ Linking(j)' = Linking(j)
          /\ \A kind : Result(j, kind)' = Result(j, kind)
      BY <1>2 DEF vars, Forked, Assembling, Linking, Result
    <3>3. /\ Remaining(j)' = Remaining(j)
          /\ ObjectMade(j)' = ObjectMade(j) /\ OutputMade(j)' = OutputMade(j)
      BY <1>2, <3>1, <3>2 DEF vars, Remaining, ObjectMade, OutputMade
    <3>4. QED
      BY <1>2, <3>1, <3>2, <3>3 DEF vars, Inv, JobInv, Control, Tidy, Chain
  <2>4. QED
    BY <2>2, <2>3 DEF Inv
<1>3. QED
  BY <1>1, <1>2 DEF Next, Moves

LEMMA Invariance == Spec => []Inv
  BY InitInv, NextInv, PTL DEF Spec

\* What a run that has exited 0 wrote to its output.
LEMMA Succeeded ==
  ASSUME Inv, NEW j \in Jobs, outcome[j] = "succeeded", ~config[j].dump_ir, Undisturbed(j)
  PROVE  delivered[j] = Result(j, Product(config[j].phase))
<1>1. pc[j] = "exited" /\ status[j] = 0
  BY DEF outcome
<1>2. QED
  BY <1>1 DEF Inv, JobInv, Chain

\* Runs in one directory do not get each other's intermediate files: the output
\* of a run that exits 0 was made from the source that run has read.
THEOREM DriverMadeFromOwnSource == Spec => []MadeFromOwnSource
<1>1. ASSUME Inv, NEW j \in Jobs, outcome[j] = "succeeded", ~config[j].dump_ir, Undisturbed(j)
      PROVE  delivered[j].of = program[j]
  <2>1. delivered[j] = Result(j, Product(config[j].phase))
    BY <1>1, Succeeded
  <2>2. QED
    BY <2>1 DEF Result
<1>2. Inv => MadeFromOwnSource
  BY <1>1 DEF MadeFromOwnSource
<1>3. QED
  BY Invariance, <1>2, PTL
-----------------------------------------------------------------------------
(* Driver implements Compilation. *)

LEMMA InitRefines == Init => Compilations!Init
<1> SUFFICES ASSUME Init PROVE Compilations!Init
  OBVIOUS
<1>1. Inv
  BY InitInv
<1>2. ASSUME NEW j \in Jobs
      PROVE  outcome[j] = "running" /\ Made(j) = "nothing" /\ Litters(j) = FALSE
  <2>1. pc[j] = "read" /\ delivered[j] = Absent
    BY DEF Init
  <2>2. \A path \in DOMAIN files : ~(path[4] = j /\ files[path].by = j)
    BY <1>1, <2>1 DEF Inv, JobInv, Tidy, Remaining, Forked, Assembling, Linking
  <2>3. QED
    BY <2>1, <2>2 DEF outcome, Made, Litters
<1>3. \A j \in Jobs : (lost[j] \/ ~Undisturbed(j)) \in BOOLEAN
  OBVIOUS
<1>4. QED
  BY <1>2, <1>3 DEF Compilations!Init, outcome

\* What other runs promise is the same after a step.
LEMMA OthersSame ==
  ASSUME Inv, NEW k \in Jobs, Moves(k), NEW j \in Jobs, j # k
  PROVE  /\ outcome'[j] = outcome[j] /\ Made(j)' = Made(j) /\ Litters(j)' = Litters(j)
         /\ (lost[j] \/ ~Undisturbed(j))' = (lost[j] \/ ~Undisturbed(j))
<1>1. Typed /\ Typed' /\ Frame(k) /\ config' = config
  BY Stays DEF Inv, Frame
<1>2. Undisturbed(j)' = Undisturbed(j) /\ DOMAIN files' = DOMAIN files
  BY <1>1, SameNames DEF Typed
<1>3. \A path \in Used(k) : path[4] # j
  BY <1>1, Names, DriverAssumption DEF Used, Typed
<1>4. Litters(j)' = Litters(j)
  BY <1>1, <1>2, <1>3 DEF Litters, Frame
<1>5. Made(j)' = Made(j)
  BY <1>1 DEF Made, Frame
<1>6. outcome'[j] = outcome[j]
  BY <1>1 DEF outcome, Frame
<1>7. QED
  BY <1>1, <1>2, <1>4, <1>5, <1>6 DEF Frame

\* A run that has ended takes no step, and one that is killed stays so.
LEMMA EndedStays ==
  ASSUME Inv, NEW k \in Jobs, Moves(k)
  PROVE  /\ pc[k] # "exited" /\ pc'[k] \in Places
         /\ pc[k] = "killed" => pc'[k] = "killed"
         /\ pc'[k] = "killed" => pc[k] = "killed" \/ Kill(k)
<1>1. Typed /\ Typed' /\ Control(k)
  BY Stays DEF Inv, JobInv
<1>2. CASE Tool(k) \/ ToolKilled(k)
  <2>1. pc' = pc /\ tool[k].step # "none"
    BY <1>2 DEF Tool, ToolBegins, ToolOpens, ToolWrites, ToolPrints, ToolExits, ToolKilled
  <2>2. QED
    BY <1>1, <2>1 DEF Control, NoTool, Forked, Typed
<1>3. CASE Run(k)
  <2>1. pc[k] \notin {"exited", "killed"} /\ pc'[k] # "killed"
    BY <1>1, <1>3 DEF Run, Compile, codegen_generate_file, codegen_emit_fasm, Launch, FirstWait, Drain, waitpid,
         After, Assembled, CheckAssembler, Linked, Exit, Goto, Typed
  <2>2. QED
    BY <1>1, <2>1 DEF Typed
<1>4. CASE Kill(k)
  BY <1>1, <1>4 DEF Kill, Typed
<1>5. QED
  BY <1>2, <1>3, <1>4 DEF Moves

\* A step of a run is one of its abstract run: what it does before it ends is
\* Work, in which files and output may change at will; how it ends is not.
LEMMA StepRefines ==
  ASSUME Inv, Inv', NEW k \in Jobs, Moves(k)
  PROVE  Compilations!Next
<1> DEFINE made == [j \in Jobs |-> Made(j)]
           litter == [j \in Jobs |-> Litters(j)]
           excused == [j \in Jobs |-> lost[j] \/ ~Undisturbed(j)]
           dumping == {j \in Jobs : config[j].dump_ir}
<1>1. config' = config /\ Typed /\ Typed' /\ JobInv(k)'
  BY Stays DEF Inv, Frame
<1>2. dumping' = dumping
  BY <1>1
<1>3. /\ outcome' = [outcome EXCEPT ![k] = outcome'[k]]
      /\ made' = [made EXCEPT ![k] = Made(k)'] /\ litter' = [litter EXCEPT ![k] = Litters(k)']
      /\ excused' = [excused EXCEPT ![k] = (lost[k] \/ ~Undisturbed(k))']
  <2>1. /\ outcome = [j \in Jobs |-> outcome[j]] /\ outcome' = [j \in Jobs |-> outcome'[j]]
    BY DEF outcome
  <2>2. \A j \in Jobs \ {k} :
          /\ outcome'[j] = outcome[j] /\ Made(j)' = Made(j) /\ Litters(j)' = Litters(j)
          /\ (lost[j] \/ ~Undisturbed(j))' = (lost[j] \/ ~Undisturbed(j))
    BY OthersSame
  <2>3. QED
    BY <2>1, <2>2
<1>4. Compilations!Writes(k)
  <2>1. Made(k)' \in {"nothing", "partial", "complete"}
    BY DEF Made
  <2>2. (lost[k] \/ ~Undisturbed(k))' \in BOOLEAN
    OBVIOUS
  <2>3. QED
    BY <1>3, <2>1, <2>2 DEF Compilations!Writes
<1>5. /\ pc[k] # "exited" /\ pc'[k] \in Places
      /\ pc[k] = "killed" => pc'[k] = "killed"
      /\ pc'[k] = "killed" => pc[k] = "killed" \/ Kill(k)
  BY EndedStays
<1>6. CASE Kill(k)
  <2>1. made' = made /\ litter' = litter /\ excused' = excused
    <3>1. /\ UNCHANGED <<config, files, lost, delivered>> /\ pc[k] \notin {"exited", "killed"}
      BY <1>6 DEF Kill
    <3>2. \A j \in Jobs : Made(j)' = Made(j) /\ Litters(j)' = Litters(j) /\ Undisturbed(j)' = Undisturbed(j)
      BY <3>1, SameNames DEF Made, Litters
    <3>3. QED
      BY <3>1, <3>2
  <2>2. outcome[k] = "running" /\ outcome'[k] = "killed"
    BY <1>1, <1>6 DEF Kill, Goto, outcome, Typed
  <2>3. Compilations!Kill(k)
    BY <1>2, <1>3, <2>1, <2>2 DEF Compilations!Kill
  <2>4. QED
    BY <2>3 DEF Compilations!Next
<1>7. CASE pc'[k] = "exited"
  <2>1. outcome[k] = "running" /\ outcome'[k] = IF status'[k] = 0 THEN "succeeded" ELSE "failed"
    BY <1>5, <1>7 DEF outcome
  <2>2. Litters(k)' = FALSE
    BY <1>1, <1>7 DEF JobInv, Tidy, Remaining, Forked, Assembling, Linking, Litters
  <2>3. litter' = [litter EXCEPT ![k] = FALSE]
    BY <1>3, <2>2
  <2>4. ASSUME status'[k] = 0, k \notin dumping, ~(lost[k] \/ ~Undisturbed(k))'
        PROVE  Made(k)' = "complete"
    <3>1. delivered'[k] = Result(k, Product(config[k].phase))'
      BY <1>1, <1>7, <2>4 DEF JobInv, Chain
    <3>2. Result(k, Product(config[k].phase))'.kind = Product(config[k].phase)'
          /\ Result(k, Product(config[k].phase))'.whole = TRUE
      BY <2>4 DEF Result
    <3>3. Product(config[k].phase)' # "none"
      BY DEF Product
    <3>4. QED
      BY <3>1, <3>2, <3>3 DEF Made, Absent
  <2>5. Compilations!Exit(k)
    BY <1>2, <1>3, <1>4, <2>1, <2>3, <2>4 DEF Compilations!Exit
  <2>6. QED
    BY <2>5 DEF Compilations!Next
<1>8. CASE pc'[k] # "exited" /\ ~Kill(k)
  <2>1. outcome'[k] = outcome[k] /\ outcome[k] \in {"running", "killed"}
    BY <1>5, <1>8 DEF outcome
  <2>2. outcome' = outcome
    BY <1>3, <2>1 DEF outcome
  <2>3. Litters(k)' \in BOOLEAN
    BY DEF Litters
  <2>4. Compilations!Work(k)
    BY <1>2, <1>3, <1>4, <2>1, <2>2, <2>3 DEF Compilations!Work
  <2>5. QED
    BY <2>4 DEF Compilations!Next
<1>9. QED
  BY <1>6, <1>7, <1>8

LEMMA StutterRefines == UNCHANGED vars => UNCHANGED Compilations!vars
<1> SUFFICES ASSUME UNCHANGED vars PROVE UNCHANGED Compilations!vars
  OBVIOUS
<1>1. config' = config /\ UNCHANGED <<files, pc, status, delivered, lost>>
  BY DEF vars
<1>2. \A j \in Jobs : Undisturbed(j)' = Undisturbed(j) /\ Made(j)' = Made(j) /\ Litters(j)' = Litters(j)
  BY <1>1, SameNames DEF Made, Litters
<1>3. outcome' = outcome
  BY <1>1 DEF outcome
<1>4. QED
  BY <1>1, <1>2, <1>3 DEF Compilations!vars

\* Driver implements Compilation: however many runs share a directory, whatever
\* is asked of them and whichever call fails, each exits 0 only after it has made
\* its whole output, and exits with none of its temporary files left.
THEOREM DriverKeepsPromise == Spec => KeepsPromise
<1>1. Inv /\ Inv' /\ [Next]_vars => [Compilations!Next]_(Compilations!vars)
  BY StepRefines, StutterRefines DEF Next, Moves
<1>2. QED
  BY InitRefines, Invariance, <1>1, PTL DEF Spec, KeepsPromise, Compilations!Spec
=============================================================================
