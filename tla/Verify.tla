-------------------------------- MODULE Verify --------------------------------
(***************************************************************************)
(* verify.py: one verification job.  It puts a command together, runs it,  *)
(* and reads its output line by line; the exit code follows from flags     *)
(* that the lines set.  What the command prints and how it ends is left    *)
(* open, but for this: vacuity is only reported when its configuration is  *)
(* on the command line.                                                    *)
(***************************************************************************)
EXTENDS Integers, Sequences, SequencesExt

CONSTANTS Places,    \* file:line positions that vacuity lines name
          Codes,     \* what process.wait() may return
          MaxLines   \* BOUND: lines of output that matter

\* A command that a signal ends has that signal's number, negated.
VerifyAssumption == MaxLines \in Nat /\ Codes \subseteq -64 .. 255

VARIABLES
  args,    \* the command line: options, whether --expect is there, the input
  pc,
  out,     \* the lines so far
  found_expected, found_error, vacuity_passed, vacuity_failed,
  rcode,   \* how the command ended
  exit     \* the exit code of the script

vars == <<args, pc, out, found_expected, found_error,
          vacuity_passed, vacuity_failed, rcode, exit>>

None == -100

\* A line by what it matches.  The expected string is no other pattern's:
\* the tests of the repository expect "unsat".
Lines == [kind : {"expected", "no_task", "error", "total", "other"}, at : {None}]
           \cup [kind : {"passed", "failed"}, at : Places]

\* What mk_arg_parser leaves to choose, as far as it matters here.  "empty" is a
\* directory without a .ir.bc file.
Args == [expect : BOOLEAN, vac : BOOLEAN, cex : BOOLEAN, crab : BOOLEAN,
         clam : BOOLEAN, pcond : BOOLEAN, input : {"file", "dir", "empty"}]

Init ==
  /\ args \in Args
  /\ pc = "start" /\ out = <<>>
  /\ found_expected = FALSE /\ found_error = FALSE
  /\ vacuity_passed = {} /\ vacuity_failed = {}
  /\ rcode = None /\ exit = None

\* The configurations, a later one overriding those before it.
Command ==
  IF args.clam THEN <<"clam.base">>
  ELSE <<IF args.cex THEN "sea.cex" ELSE "sea">>
         \o (IF args.vac THEN <<"sea.vac">> ELSE <<>>)
         \o (IF args.crab THEN <<"sea.crab", "crab.domain">> ELSE <<>>)
         \o (IF args.pcond THEN <<"sea.pcond">> ELSE <<>>)
         \o <<"job">>

\* find_ir_bc_files gives None for an empty directory, which isfile does not
\* take: the script ends with an exception.
Start ==
  /\ pc = "start"
  /\ IF args.input = "empty" THEN exit' = 1 /\ pc' = "end"
                             ELSE pc' = "launch" /\ UNCHANGED exit
  /\ UNCHANGED <<args, out, found_expected, found_error, vacuity_passed, vacuity_failed, rcode>>

\* Without --expect the command has the terminal and nothing is read.
Launch ==
  /\ pc = "launch"
  /\ IF args.expect THEN pc' = "read" /\ UNCHANGED <<rcode, exit>>
                    ELSE rcode' \in Codes /\ exit' = 0 /\ pc' = "end"
  /\ UNCHANGED <<args, out, found_expected, found_error, vacuity_passed, vacuity_failed>>

\* Mutant: a place that fails after it has passed counts as failed.
CheckVacuityLast(line) ==
  CASE line.kind = "passed" ->
         vacuity_passed' = vacuity_passed \cup {line.at} /\ UNCHANGED vacuity_failed
    [] line.kind = "failed" ->
         /\ vacuity_failed' = vacuity_failed \cup {line.at}
         /\ vacuity_passed' = vacuity_passed \ {line.at}
    [] OTHER -> UNCHANGED <<vacuity_passed, vacuity_failed>>

CheckVacuity(line) ==
  CASE line.kind = "passed" ->
         vacuity_passed' = vacuity_passed \cup {line.at} /\ UNCHANGED vacuity_failed
    [] line.kind = "failed" ->
         vacuity_failed' = vacuity_failed \cup {line.at} /\ UNCHANGED vacuity_passed
    [] OTHER -> UNCHANGED <<vacuity_passed, vacuity_failed>>

\* One turn of the loop over the output.
Read(line) ==
  /\ pc = "read" /\ Len(out) < MaxLines
  /\ line.kind \in {"passed", "failed"} => Contains(Command, "sea.vac")
  /\ out' = Append(out, line)
  /\ found_expected' = (found_expected \/ line.kind \in {"expected", "no_task", "total"})
  /\ found_error' = (found_error \/ line.kind = "error")
  /\ CheckVacuity(line)
  /\ UNCHANGED <<args, pc, rcode, exit>>

\* Mutant: a command that failed is as good as one that did not.
ExitCodeExpected(r) ==
  IF args.vac /\ (found_error \/ vacuity_failed \ vacuity_passed # {}) THEN 2
  ELSE IF args.expect THEN IF found_expected THEN 0 ELSE 1 ELSE r

\* What run returns.
ExitCode(r) ==
  IF args.vac /\ (found_error \/ vacuity_failed \ vacuity_passed # {}) THEN 2
  ELSE IF r = 0 /\ args.expect THEN IF found_expected THEN 0 ELSE 1
  ELSE r

\* The output ends, and the command with some code; sys.exit keeps eight bits
\* of what run returns.
Finish ==
  /\ pc = "read"
  /\ rcode' \in Codes
  /\ exit' = ExitCode(rcode') % 256
  /\ pc' = "end"
  /\ UNCHANGED <<args, out, found_expected, found_error, vacuity_passed, vacuity_failed>>

Next == Start \/ Launch \/ (\E line \in Lines : Read(line)) \/ Finish \/ (pc = "end" /\ UNCHANGED vars)

Spec == Init /\ [][Next]_vars

-----------------------------------------------------------------------------
(* Properties *)

Seen(kinds) == \E i \in DOMAIN out : out[i].kind \in kinds
At(kind) == {out[i].at : i \in {j \in DOMAIN out : out[j].kind = kind}}
Answered == Seen({"expected", "no_task", "total"})
Vacuous == args.vac /\ (Seen({"error"}) \/ At("failed") \ At("passed") # {})
Judged == pc = "end" /\ args.expect /\ args.input # "empty"

\* With --vac a failed assertion, and a place that failed and never passed,
\* is told by 2, in whatever order the lines were and however the command
\* ended.  Nothing else is told by 2 but a command that ended with 2 itself.
VacuityDecides ==
  Judged => /\ Vacuous => exit = 2
            /\ exit = 2 => Vacuous \/ rcode = 2

\* A job that was read is reported as all ok just when its command ended well,
\* some line said that it was answered, and nothing was vacuous; a missing
\* answer is told by 1, which is else only the command's own 1.  Every other
\* code of the command comes through, a signal's as 256 less its number.
OkIsAnswered ==
  Judged =>
    /\ exit = 0 <=> rcode = 0 /\ Answered /\ ~Vacuous
    /\ exit = 1 => rcode = 1 \/ (rcode = 0 /\ ~Answered)
    /\ rcode # 0 /\ ~Vacuous => exit = IF rcode < 0 THEN 256 + rcode ELSE rcode
=============================================================================
