------------------------------- MODULE MCDriver -------------------------------
(* Two runs of klang in one directory. *)
EXTENDS Driver

A == <<"a", "x", ".kl", 0>>
B == <<"b", "x", ".kl", 0>>
Script == <<".", "x", "", 0>>      \* a source without extension: the default output of itself
Bad == <<"b", "y", ".kl", 0>>

\* klang input [-o output], with nothing else asked for.
Klang(input, output, phase) ==
  [input_path |-> input, output_path |-> output, phase |-> phase, dump_ir |-> FALSE,
   save_temps |-> FALSE, verbose |-> FALSE, sigchld_ignored |-> FALSE]

Out(name) == <<".", name, "", 0>>

\* Same stem; same stem and -save-temps; one source to two outputs; a source
\* that is its own output; an error and a dump.
SomeConfigs ==
  { <<Klang(A, Out("p"), "exe"), Klang(B, Out("q"), "exe")>>,
    <<[Klang(A, Out("p"), "exe") EXCEPT !.save_temps = TRUE],
      [Klang(B, Out("q"), "shared") EXCEPT !.save_temps = TRUE]>>,
    <<[Klang(A, NoPath, "obj") EXCEPT !.sigchld_ignored = TRUE],
      [Klang(A, NoPath, "shared") EXCEPT !.verbose = TRUE]>>,
    <<Klang(Script, NoPath, "exe"), Klang(Script, NoPath, "asm")>>,
    <<[Klang(A, NoPath, "exe") EXCEPT !.dump_ir = TRUE], Klang(Bad, NoPath, "obj")>> }

TwoJobs == {1, 2}
FirstPrints == <<2, 0>>
NotCompiling == {Bad}
SomeLeftovers == {{<<".", "x", ".asm", 1>>, <<".", "x", ".o", 1>>}}
=============================================================================
