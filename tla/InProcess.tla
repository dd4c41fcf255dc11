----------------------------- MODULE InProcess -----------------------------
(* The two backends that need nothing from the host: SameProcessBackend    *)
(* and SeparateProcessBackend (siphonophore_core/execution.py).  A run is  *)
(* sequential, so it is a function of the artifact: what it prints while   *)
(* it runs and how it ends.                                                *)
EXTENDS Naturals, Sequences, FiniteSetsExt

CONSTANTS
  NoCode,   \* artifact_code is None
  MAX_CAPTURED_OUTPUT_CHARS

ASSUME CapturedAssumption == MAX_CAPTURED_OUTPUT_CHARS \in Nat

\* How an artifact ends.  "exits" is SystemExit; "hangs" is not to end at all.
Endings == {"returns", "raises", "exits_zero", "exits_nonzero", "hangs"}

\* Text with a NUL character does not compile, and neither that nor text that is too long can
\* be an argument of a program.
Artifact ==
  [text : {"plain", "null", "long"}, prints : Nat, ends : Endings, decodable : BOOLEAN]

Result(how, detail, truncated) == [how |-> how, detail |-> detail, truncated |-> truncated]
Printed(artifact) == [i \in 1 .. artifact.prints |-> i]

\* Mutant: the tail is dropped without a marker.
truncate_captured_output_silently(how, output) ==
  Result(how, SubSeq(output, 1, Min({Len(output), MAX_CAPTURED_OUTPUT_CHARS})), FALSE)

\* The output up to the bound, and the marker that says it was cut.
truncate_captured_output(how, output) ==
  Result(how, SubSeq(output, 1, Min({Len(output), MAX_CAPTURED_OUTPUT_CHARS})),
         Len(output) > MAX_CAPTURED_OUTPUT_CHARS)

\* The refusals both begin with.
Refuses(artifact, running_as_root) == running_as_root \/ artifact = NoCode

\* SystemExit is no Exception: it leaves run(), the loop and the REPL, and takes the captured
\* output with it.
same_process(artifact, running_as_root) ==
  IF Refuses(artifact, running_as_root) THEN Result("failed", <<>>, FALSE)
  ELSE IF artifact.text = "null" THEN Result("failed", <<>>, FALSE)
  ELSE CASE artifact.ends = "hangs" -> Result("blocked", <<>>, FALSE)
         [] artifact.ends = "returns" -> truncate_captured_output("executed", Printed(artifact))
         [] artifact.ends = "raises" -> truncate_captured_output("failed", Printed(artifact))
         [] OTHER -> Result("exits", <<>>, FALSE)

\* check=True; the output is decoded, and not bounded.
separate_process(artifact, running_as_root) ==
  IF Refuses(artifact, running_as_root) THEN Result("failed", <<>>, FALSE)
  ELSE IF artifact.text # "plain" THEN Result("raised", <<>>, FALSE)
  ELSE IF artifact.ends = "hangs" THEN Result("blocked", <<>>, FALSE)
  ELSE IF ~ artifact.decodable THEN Result("raised", <<>>, FALSE)
  ELSE Result(IF artifact.ends \in {"returns", "exits_zero"} THEN "executed" ELSE "failed",
              Printed(artifact), FALSE)
=============================================================================
