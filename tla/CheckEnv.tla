------------------------------ MODULE CheckEnv ------------------------------
(***************************************************************************)
(* scripts/check_env.py as scripts/run_all.sh runs it: three sections of    *)
(* checks, an automatic repair after which the script replaces itself by a  *)
(* new process image (execv), advice, an exit code the benchmark waits for. *)
(*                                                                         *)
(* What is hard to test is what the script says and when: its standard      *)
(* output is buffered unless it is a terminal, the kernel smoke points file *)
(* descriptor 1 at a log file, and execv throws the buffer away.            *)
(***************************************************************************)
EXTENDS Sequences, Integers

Tritons == {"good", "missing", "broken", "old", "shadowed"}

(* The machine: what the checks find.  "old" is a triton before 3.7 in      *)
(* site-packages, "shadowed" one that PYTHONPATH puts before it, "broken"   *)
(* one whose import raises something else than ImportError; commit is that  *)
(* of alpamayo1_5, "absent" if it cannot be imported; kernels are "unsmoked" *)
(* if one is wrong that the smoke does not run: RoPE, add_layernorm, GELU.  *)
Worlds == [torch : BOOLEAN, cuda : {"none", "no bf16", "bf16"}, triton : Tritons,
           header : BOOLEAN, clock : {"locked", "low", "unreadable"},
           commit : {"pinned", "other", "unknown", "absent"},
           kernels : {"right", "wrong", "raise", "unsmoked"}]

Checks == {"torch", "cuda", "bf16", "triton", "header", "clock", "commit",
           "kernels"}

VARIABLES
  shell,    \* run_all.sh: "lock", "check", "bench", "aborted"
  world, noFix, tty,   \* the machine, --no-fix, whether stdout is a terminal
  retried,  \* UMIC_CHECK_ENV_RETRIED, kept over execv
  pc, exit, \* of the process image: its next step, how it ended: by
            \* sys.exit(0) or sys.exit(1), or with status 1 too by an uncaught
            \* exception, "timeout" if it is pip's and else "traceback"
  failed,   \* the checks whose status is [FAIL]: FAIL is their number
  fixes,    \* FIXES: of a check, and whether it is automatic
  fd1,      \* where file descriptor 1 points: "screen" or "log"
  buffer,   \* Python's stdout buffer
  screen,   \* what the user, or the file behind the pipe, got
  image,    \* history: process images so far, 3 standing for more
  printed,  \* history: everything printed to the user, in order
  inherited \* history: the first image found retried set

environment == <<world, noFix, tty, inherited>>
output == <<fd1, buffer, screen, printed>>
verdict == <<failed, fixes>>
vars == <<shell, environment, retried, pc, exit, verdict, output, image>>

Fixes == [check : Checks, auto : BOOLEAN]
Line == [section : {"environment", "alpamayo", "smoke", "passed", "failed",
                    "repair", "advice"},
         about : SUBSET Checks]

TypeOK ==
    /\ shell \in {"lock", "check", "bench", "aborted"} /\ world \in Worlds
    /\ noFix \in BOOLEAN /\ tty \in BOOLEAN /\ retried \in BOOLEAN
    /\ inherited \in BOOLEAN
    /\ pc \in {"environment", "alpamayo", "redirect", "kernels", "restore",
               "report", "repair", "execv", "advise", "ended"}
    /\ exit \in {"running", "0", "1", "traceback", "timeout"}
    /\ failed \subseteq Checks /\ fixes \subseteq Fixes
    /\ fd1 \in {"screen", "log"} /\ image \in 1 .. 3
    /\ buffer \in Seq(Line) /\ screen \in Seq(Line) /\ printed \in Seq(Line)

(* A process image begins: module state is what main() finds. *)
Fresh == /\ pc' = "environment" /\ exit' = "running"
         /\ failed' = {} /\ fixes' = {}

Init == /\ shell = "lock" /\ world \in Worlds /\ noFix \in BOOLEAN
        /\ tty \in BOOLEAN /\ retried \in BOOLEAN /\ inherited = retried
        /\ pc = "environment" /\ exit = "running" /\ failed = {} /\ fixes = {}
        /\ fd1 = "screen" /\ buffer = <<>> /\ screen = <<>>
        /\ image = 1 /\ printed = <<>>

-----------------------------------------------------------------------------
(* Output.                                                                  *)

Said(section, about) == [section |-> section, about |-> about]

(* Bytes that reach file descriptor 1; the log is not on the screen. *)
Reaches(lines) == IF fd1 = "screen" THEN screen \o lines ELSE screen

(* Bound: only the output of the first two process images is recorded. *)
Add(lines, line) == IF image < 3 THEN Append(lines, line) ELSE lines

(* print() to stdout. *)
Say(line) ==
    /\ printed' = Add(printed, line)
    /\ IF tty THEN screen' = Reaches(Add(<<>>, line)) /\ buffer' = buffer
              ELSE screen' = screen /\ buffer' = Add(buffer, line)
    /\ UNCHANGED fd1

(* print(file=real_out): a line-buffered duplicate of the first stdout. *)
SayReal(line) == /\ printed' = Add(printed, line)
                   /\ screen' = Add(screen, line)
                   /\ UNCHANGED buffer

Flush == screen' = Reaches(buffer) /\ buffer' = <<>>

(* The interpreter ends, and flushes; with a last line to print. *)
Ends(code, line) ==
    /\ pc' = "ended" /\ exit' = code
    /\ printed' = Add(printed, line)
    /\ screen' = Reaches(Add(buffer, line)) /\ buffer' = <<>>
    /\ UNCHANGED fd1

(* The buffer is full: Python writes it out by itself. *)
Spill == /\ buffer # <<>> /\ pc # "ended" /\ Flush
         /\ UNCHANGED <<shell, environment, retried, pc, exit, verdict, fd1,
                        printed, image>>

-----------------------------------------------------------------------------
(* The sections.                                                            *)

Fix(c, auto) == [check |-> c, auto |-> auto]

(* The environment section's failures, once torch and triton import. *)
EnvironmentFails ==
    {c \in {"cuda", "bf16", "triton", "header", "clock"} :
       \/ c = "cuda" /\ world.cuda = "none"
       \/ c = "bf16" /\ world.cuda = "no bf16"
       \/ c = "triton" /\ world.triton # "good"
       \/ c = "header" /\ ~world.header
       \/ c = "clock" /\ world.clock = "low"}

(* A device has no fix, a missing or old triton is installed, the rest      *)
(* advised.                                                                *)
EnvironmentFixes ==
    {Fix(c, c = "triton" /\ world.triton # "shadowed") :
       c \in EnvironmentFails \ {"cuda", "bf16"}}

Running(step) == shell = "check" /\ pc = step

SectionEnvironment ==
    /\ Running("environment") /\ world.torch /\ world.triton # "broken"
    /\ failed' = EnvironmentFails /\ fixes' = EnvironmentFixes
    /\ Say(Said("environment", EnvironmentFails)) /\ pc' = "alpamayo"
    /\ UNCHANGED <<shell, environment, retried, exit, image>>

(* Without torch the script exits at once; a triton import that raises      *)
(* anything but ImportError is a traceback.                                *)
EnvironmentDies ==
    /\ Running("environment")
    /\ \/ /\ ~world.torch
          /\ failed' = {"torch"} /\ Ends("1", Said("environment", {"torch"}))
       \/ /\ world.torch /\ world.triton = "broken"
          /\ UNCHANGED failed /\ Ends("traceback", Said("environment", {}))
    /\ UNCHANGED <<shell, environment, retried, fixes, image>>

(* Mutation: a package that is not importable fails under a name of its own. *)
AlpamayoFailsUnknown == IF world.commit = "pinned" THEN {} ELSE {"package"}

(* Only a checkout known to be at another commit fails; a package that is   *)
(* not there does not.                                                     *)
AlpamayoFails == IF world.commit = "other" THEN {"commit"} ELSE {}

SectionAlpamayo ==
    /\ Running("alpamayo")
    /\ failed' = failed \cup AlpamayoFails
    /\ fixes' = fixes \cup {Fix(c, FALSE) : c \in AlpamayoFails}
    /\ Say(Said("alpamayo", AlpamayoFails)) /\ pc' = "redirect"
    /\ UNCHANGED <<shell, environment, retried, exit, image>>

(* Mutation: stdout is not flushed before its descriptor is redirected. *)
RedirectNoFlush ==
    /\ Running("redirect") /\ pc' = "kernels" /\ fd1' = "log"
    /\ UNCHANGED <<shell, environment, retried, exit, verdict, buffer, screen,
                   printed, image>>

(* The log file is opened and takes file descriptor 1. *)
Redirect ==
    /\ Running("redirect") /\ Flush /\ pc' = "kernels" /\ fd1' = "log"
    /\ UNCHANGED <<shell, environment, retried, exit, verdict, printed, image>>

(* Nothing to run the kernels on, or without. *)
NoSmoke == world.cuda = "none" \/ world.triton = "missing"

(* A codegen error, in particular: an old triton, or no Python.h. *)
SmokeRaises == /\ ~NoSmoke
               /\ \/ world.triton \in {"old", "shadowed"} \/ ~world.header
                  \/ world.kernels = "raise"

SmokeFails == NoSmoke \/ world.kernels = "wrong"

(* Mutation: the exception is reported, but not as a failure. *)
SectionKernelsSwallows ==
    /\ Running("kernels") /\ pc' = "restore"
    /\ LET fails == IF SmokeFails THEN {"kernels"} ELSE {}
       IN failed' = failed \cup fails /\ SayReal(Said("smoke", fails))
    /\ UNCHANGED <<shell, environment, retried, exit, fixes, fd1, image>>

(* Mutation: the exception leaves main(), and with it Python. *)
SectionKernelsPropagates ==
    /\ Running("kernels")
    /\ LET fails == IF SmokeFails THEN {"kernels"} ELSE {}
       IN failed' = failed \cup fails /\ SayReal(Said("smoke", fails))
    /\ pc' = IF SmokeRaises THEN "ended" ELSE "restore"
    /\ exit' = IF SmokeRaises THEN "traceback" ELSE exit
    /\ UNCHANGED <<shell, environment, retried, fixes, fd1, image>>

(* Each kernel against its reference.  An exception is a failed check too,  *)
(* with no fix of its own.                                                  *)
SectionKernels ==
    /\ Running("kernels") /\ pc' = "restore"
    /\ LET fails == IF SmokeFails \/ SmokeRaises THEN {"kernels"} ELSE {}
       IN failed' = failed \cup fails /\ SayReal(Said("smoke", fails))
    /\ UNCHANGED <<shell, environment, retried, exit, fixes, fd1, image>>

(* So is an exception around the section: what was buffered is flushed, and *)
(* the failure is said on the saved descriptor.                            *)
FailsSmoke == /\ failed' = failed \cup {"kernels"}
              /\ printed' = Add(printed, Said("smoke", {"kernels"}))
              /\ screen' = Add(Reaches(buffer), Said("smoke", {"kernels"}))
              /\ buffer' = <<>>

(* The log file does not open. *)
RedirectFails ==
    /\ Running("redirect") /\ pc' = "restore" /\ FailsSmoke
    /\ UNCHANGED <<shell, environment, retried, exit, fixes, fd1, image>>

(* The finally clauses. *)
Restore ==
    /\ Running("restore") /\ Flush /\ fd1' = "screen" /\ pc' = "report"
    /\ UNCHANGED <<shell, environment, retried, exit, verdict, printed, image>>

(* The log, read back after a section that returned, cannot be decoded. *)
RestoreRaises ==
    /\ Running("restore") /\ fd1 = "log" /\ ~SmokeRaises
    /\ FailsSmoke /\ fd1' = "screen" /\ pc' = "report"
    /\ UNCHANGED <<shell, environment, retried, exit, fixes, image>>

-----------------------------------------------------------------------------
(* The end of main().                                                       *)

Automatic == {f.check : f \in {g \in fixes : g.auto}}
Manual == {f.check : f \in {g \in fixes : ~g.auto}}

Passes == /\ Running("report") /\ failed = {}
          /\ Ends("0", Said("passed", {}))
          /\ UNCHANGED <<shell, environment, retried, verdict, image>>

Report ==
    /\ Running("report") /\ failed # {}
    /\ Say(Said("failed", failed))
    /\ pc' = IF Automatic # {} /\ ~retried /\ ~noFix THEN "repair" ELSE "advise"
    /\ UNCHANGED <<shell, environment, retried, exit, verdict, image>>

(* pip returns 0.  The python3 it runs under need not be this interpreter,  *)
(* and what it installed may be shadowed: the machine may be as before.     *)
RepairSucceeds ==
    /\ Running("repair") /\ pc' = "execv"
    /\ Say(Said("repair", Automatic))
    /\ world' \in {world, [world EXCEPT !.triton = "good"]}
    /\ UNCHANGED <<shell, noFix, tty, inherited, retried, exit, verdict, image>>

RepairFails ==
    /\ Running("repair") /\ pc' = "advise"
    /\ Say(Said("repair", Automatic))
    /\ UNCHANGED <<shell, environment, retried, exit, verdict, image>>

(* subprocess.run raises TimeoutExpired, which nothing catches. *)
RepairTimesOut ==
    /\ Running("repair")
    /\ Ends("timeout", Said("repair", Automatic))
    /\ UNCHANGED <<shell, environment, retried, verdict, image>>

NextImage == image' = IF image < 3 THEN image + 1 ELSE 3

(* Mutation: stdout is not flushed before the image is replaced. *)
ReExecuteNoFlush ==
    /\ Running("execv") /\ buffer' = <<>> /\ screen' = screen
    /\ retried' = TRUE /\ NextImage /\ Fresh
    /\ UNCHANGED <<shell, environment, fd1, printed>>

(* Mutation: the environment variable is not set. *)
ReExecuteForgets ==
    /\ Running("execv") /\ Flush /\ NextImage /\ Fresh
    /\ UNCHANGED <<shell, environment, retried, fd1, printed>>

ReExecute ==
    /\ Running("execv") /\ Flush
    /\ retried' = TRUE /\ NextImage /\ Fresh
    /\ UNCHANGED <<shell, environment, fd1, printed>>

Advise == /\ Running("advise") /\ Ends("1", Said("advice", Manual))
          /\ UNCHANGED <<shell, environment, retried, verdict, image>>

-----------------------------------------------------------------------------
(* run_all.sh.                                                              *)

(* sudo -n jetson_clocks: it works, or wants a password, or is not there. *)
LockClocks ==
    /\ shell = "lock" /\ shell' = "check"
    /\ \/ world.clock # "unreadable" /\ world' = [world EXCEPT !.clock = "locked"]
       \/ UNCHANGED world
    /\ UNCHANGED <<noFix, tty, inherited, retried, pc, exit, verdict, output,
                   image>>

(* The benchmark is executed if the exit status is 0. *)
AfterCheck ==
    /\ Running("ended")
    /\ shell' = IF exit = "0" THEN "bench" ELSE "aborted"
    /\ UNCHANGED <<environment, retried, pc, exit, verdict, output, image>>

Script == \/ SectionEnvironment \/ EnvironmentDies \/ SectionAlpamayo
          \/ Redirect \/ RedirectFails \/ SectionKernels \/ Restore
          \/ RestoreRaises \/ Passes \/ Report \/ RepairSucceeds \/ RepairFails
          \/ RepairTimesOut \/ ReExecute \/ Advise

Next == LockClocks \/ Script \/ Spill \/ AfterCheck

Spec == Init /\ [][Next]_vars

(* Each command the scripts run has a time limit or ends by itself. *)
FairSpec == Spec /\ WF_vars(LockClocks \/ Script \/ AfterCheck)
-----------------------------------------------------------------------------
(* Correctness.                                                             *)

(* The benchmark only starts on a machine where all that check_env.py       *)
(* counts as a failure is in order, also after a repair and a new image     *)
(* (check_env.py:12, run_all.sh:9, 40-43). That alpamayo1_5 can be imported *)
(* is not one of these ("informational", check_env.py:5-6), nor are the     *)
(* kernels the smoke does not run.                                         *)
Usable == /\ world.torch /\ world.cuda = "bf16" /\ world.triton = "good"
          /\ world.header /\ world.clock # "low" /\ world.commit # "other"
          /\ world.kernels \in {"right", "unsmoked"}
BenchmarkUsable == shell = "bench" => Usable

(* What was printed is on the screen, in order and up to what is still      *)
(* buffered, through the redirection and the re-execution, and all of it in *)
(* the end (check_env.py:307-312, 376-381).                                *)
OutputKept == /\ screen \o buffer = printed
              /\ pc = "ended" => buffer = <<>>

(* "start over once" (check_env.py:354), also when pip says it succeeded    *)
(* and nothing changed; never under --no-fix or with the mark of a retry in *)
(* the environment of the first image.                                     *)
StartsOverOnce == image <= 2 /\ (inherited \/ noFix => image = 1)

Shown(section) == UNION {screen[k].about :
                           k \in {j \in DOMAIN screen : screen[j].section = section}}

Fails == exit \notin {"running", "0"}

(* "one run of this script tells you everything you have to do"             *)
(* (check_env.py:35-36, 332-334): however it comes to status 1, every       *)
(* automatic fix of the last image was tried and shown with its command,    *)
(* unless the user or the environment forbade it, and every manual one      *)
(* shown, unless pip ran into its time limit.                              *)
Told == Fails => /\ Automatic \subseteq Shown("repair") \/ noFix \/ inherited
                 /\ exit # "timeout" => Manual \subseteq Shown("advice")

(* The check always comes to an end: repairs cannot go round in circles.    *)
Terminates == <>(shell \in {"bench", "aborted"})
=============================================================================
