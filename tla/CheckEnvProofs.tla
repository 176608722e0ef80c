--------------------------- MODULE CheckEnvProofs ---------------------------
(* Theorems about CheckEnv, for every machine, user and terminal.           *)
EXTENDS CheckEnv, SequenceTheorems, TLAPS

-----------------------------------------------------------------------------
(* The invariant. *)

(* The shell waits for the script, and the script starts over once.         *)
Control ==
  /\ exit = "running" <=> pc # "ended"
  /\ shell = "lock" => pc = "environment"
  /\ shell \in {"bench", "aborted"} => pc = "ended"
  /\ pc = "environment" => failed = {} /\ fixes = {}
  /\ StartsOverOnce
  /\ retried <=> inherited \/ image = 2
  /\ pc \in {"repair", "execv"} => ~retried /\ ~noFix

(* Nothing is buffered while the descriptor points at the log, so the       *)
(* restoring flush writes nothing there; a terminal buffers nothing.        *)
Outputs ==
  /\ OutputKept
  /\ pc \in {"kernels", "restore"} \/ tty => buffer = <<>>
  /\ pc = "kernels" => fd1 = "log"
  /\ fd1 = "log" => pc \in {"kernels", "restore"}

(* The steps at which each section of the current image has reported.       *)
PastEnvironment == pc \notin {"environment", "execv", "ended"}
PastAlpamayo == PastEnvironment /\ pc # "alpamayo"
PastKernels == pc \in {"restore", "report", "repair", "advise"}

(* What is wrong with the machine has failed: the repair, which changes it, *)
(* comes after the last look at it.                                        *)
Findings ==
  /\ PastEnvironment => /\ world.torch /\ world.triton # "broken"
                        /\ EnvironmentFails \subseteq failed
  /\ PastAlpamayo => AlpamayoFails \subseteq failed
  /\ PastKernels => (SmokeFails \/ SmokeRaises => "kernels" \in failed)
  /\ exit = "0" => Usable
  /\ shell = "bench" => exit = "0"

(* One of the lines is of the section and names at least these checks.      *)
Mention(lines, section, about) ==
  \E k \in DOMAIN lines : /\ lines[k].section = section
                          /\ about \subseteq lines[k].about

Printed(section, about) == Mention(printed, section, about)

(* Only triton is repaired, so a repair in one image speaks for the next.   *)
Notices ==
  /\ \A f \in fixes : f.auto => f.check = "triton"
  /\ pc = "execv" \/ image = 2 => Printed("repair", {"triton"})
  /\ pc = "repair" => Automatic # {}
  /\ pc = "advise" \/ Fails =>
       \/ Automatic = {} \/ noFix \/ inherited
       \/ Printed("repair", {"triton"})
  /\ Fails /\ exit # "timeout" => Manual = {} \/ Printed("advice", Manual)

CInv == TypeOK /\ Control /\ Outputs /\ Findings /\ Notices

-----------------------------------------------------------------------------
(* Output: what print(), a flush and the end of a process do to it.         *)

(* The empty buffer, and one line, are output.                              *)
LEMMA LineSeqs ==
  /\ <<>> \in Seq(Line)
  /\ \A line \in Line : <<line>> \in Seq(Line)
  OBVIOUS

(* What a section says is a line.                                           *)
LEMMA SaidType ==
  ASSUME NEW about \in SUBSET Checks,
         NEW section \in {"environment", "alpamayo", "smoke", "passed",
                          "failed", "repair", "advice"}
  PROVE  Said(section, about) \in Line
  BY DEF Said, Line

(* Recorded or not, the lines stay lines.                                   *)
LEMMA AddType ==
  ASSUME NEW lines \in Seq(Line), NEW line \in Line
  PROVE  Add(lines, line) \in Seq(Line)
  BY DEF Add

(* Recorded, a line comes last.                                             *)
LEMMA AddLast ==
  ASSUME NEW lines \in Seq(Line), NEW line \in Line, image < 3
  PROVE  Add(lines, line) = lines \o <<line>>
  BY AppendIsConcat DEF Add

(* What reaches the screen is lines.                                        *)
LEMMA ReachesType ==
  ASSUME screen \in Seq(Line), NEW lines \in Seq(Line)
  PROVE  Reaches(lines) \in Seq(Line)
  BY ConcatProperties DEF Reaches

(* print() keeps output of lines.                                           *)
LEMMA SayType ==
  ASSUME TypeOK, NEW line \in Line, Say(line)
  PROVE  /\ buffer' \in Seq(Line) /\ screen' \in Seq(Line)
         /\ printed' \in Seq(Line) /\ fd1' = fd1
<1>1. /\ Add(printed, line) \in Seq(Line) /\ Add(buffer, line) \in Seq(Line)
      /\ Reaches(Add(<<>>, line)) \in Seq(Line)
  BY AddType, ReachesType, LineSeqs DEF TypeOK
<1> QED
  BY <1>1 DEF Say, TypeOK

(* So does print() to the saved descriptor.                                 *)
LEMMA SayRealType ==
  ASSUME TypeOK, NEW line \in Line, SayReal(line)
  PROVE  /\ buffer' \in Seq(Line) /\ screen' \in Seq(Line)
         /\ printed' \in Seq(Line)
  BY AddType DEF SayReal, TypeOK

(* ... a flush;                                                             *)
LEMMA FlushType ==
  ASSUME TypeOK, Flush
  PROVE  buffer' \in Seq(Line) /\ screen' \in Seq(Line)
  BY ReachesType, LineSeqs DEF Flush, TypeOK

(* ... and the end of a process.                                            *)
LEMMA EndsType ==
  ASSUME TypeOK, NEW line \in Line, NEW code, Ends(code, line)
  PROVE  /\ buffer' \in Seq(Line) /\ screen' \in Seq(Line)
         /\ printed' \in Seq(Line)
         /\ fd1' = fd1 /\ pc' = "ended" /\ exit' = code
<1>1. /\ Add(printed, line) \in Seq(Line)
      /\ Reaches(Add(buffer, line)) \in Seq(Line)
  BY AddType, ReachesType DEF TypeOK
<1> QED
  BY <1>1, LineSeqs DEF Ends, TypeOK

-----------------------------------------------------------------------------
(* Types. *)

(* A proposed fix.                                                          *)
LEMMA FixType ==
  ASSUME NEW c \in Checks, NEW auto \in BOOLEAN
  PROVE  Fix(c, auto) \in Fixes
  BY DEF Fix, Fixes

(* What the sections find failed are checks, what they propose are fixes.   *)
LEMMA FindingsType ==
  /\ EnvironmentFails \subseteq Checks
  /\ EnvironmentFixes \subseteq Fixes
  /\ AlpamayoFails \subseteq Checks
  /\ {Fix(c, FALSE) : c \in AlpamayoFails} \subseteq Fixes
  /\ fixes \subseteq Fixes =>
       Automatic \in SUBSET Checks /\ Manual \in SUBSET Checks
<1>1. EnvironmentFails \subseteq Checks
  BY DEF EnvironmentFails, Checks
<1>2. AlpamayoFails \subseteq Checks
  BY DEF AlpamayoFails, Checks
<1>3. EnvironmentFixes \subseteq Fixes
  <2> SUFFICES ASSUME NEW c \in EnvironmentFails \ {"cuda", "bf16"}
               PROVE  Fix(c, c = "triton" /\ world.triton # "shadowed") \in Fixes
    BY DEF EnvironmentFixes
  <2> QED
    BY <1>1, FixType
<1>4. {Fix(c, FALSE) : c \in AlpamayoFails} \subseteq Fixes
  BY <1>2, FixType
<1>5. fixes \subseteq Fixes =>
        Automatic \in SUBSET Checks /\ Manual \in SUBSET Checks
  BY DEF Automatic, Manual, Fixes
<1> QED
  BY <1>1, <1>2, <1>3, <1>4, <1>5

(* An installed triton, and locked clocks, are a possible machine.          *)
LEMMA WorldType ==
  ASSUME world \in Worlds
  PROVE  /\ [world EXCEPT !.triton = "good"] \in Worlds
         /\ [world EXCEPT !.clock = "locked"] \in Worlds
  BY DEF Worlds, Tritons

(* At first nothing was printed.                                            *)
LEMMA TypeInit == Init => TypeOK
  BY LineSeqs DEF Init, TypeOK

(* Each step keeps the types.                                               *)
LEMMA TypeStep == TypeOK /\ [Next]_vars => TypeOK'
<1> SUFFICES ASSUME TypeOK, [Next]_vars PROVE TypeOK'
  OBVIOUS
<1>1. CASE LockClocks
  BY <1>1, WorldType DEF LockClocks, TypeOK, environment, verdict, output
<1>2. CASE SectionEnvironment
  <2>1. Said("environment", EnvironmentFails) \in Line
    BY FindingsType, SaidType
  <2>2. /\ buffer' \in Seq(Line) /\ screen' \in Seq(Line)
        /\ printed' \in Seq(Line) /\ fd1' = fd1
    BY <1>2, <2>1, SayType DEF SectionEnvironment
  <2> QED
    BY <1>2, <2>2, FindingsType
    DEF SectionEnvironment, TypeOK, environment
<1>3. CASE EnvironmentDies
  <2>1. /\ Said("environment", {"torch"}) \in Line
        /\ Said("environment", {}) \in Line /\ "torch" \in Checks
    BY SaidType DEF Checks
  <2>2. /\ buffer' \in Seq(Line) /\ screen' \in Seq(Line)
        /\ printed' \in Seq(Line) /\ fd1' = fd1
        /\ pc' = "ended" /\ exit' \in {"1", "traceback"}
    BY <1>3, <2>1, EndsType DEF EnvironmentDies
  <2> QED
    BY <1>3, <2>1, <2>2 DEF EnvironmentDies, TypeOK, environment
<1>4. CASE SectionAlpamayo
  <2>1. Said("alpamayo", AlpamayoFails) \in Line
    BY FindingsType, SaidType
  <2>2. /\ buffer' \in Seq(Line) /\ screen' \in Seq(Line)
        /\ printed' \in Seq(Line) /\ fd1' = fd1
    BY <1>4, <2>1, SayType DEF SectionAlpamayo
  <2> QED
    BY <1>4, <2>2, FindingsType DEF SectionAlpamayo, TypeOK, environment
<1>5. CASE Redirect
  BY <1>5, FlushType DEF Redirect, TypeOK, environment, verdict
<1>6. CASE RedirectFails
  <2>1. Said("smoke", {"kernels"}) \in Line /\ "kernels" \in Checks
    BY SaidType DEF Checks
  <2>2. /\ Add(printed, Said("smoke", {"kernels"})) \in Seq(Line)
        /\ Add(Reaches(buffer), Said("smoke", {"kernels"})) \in Seq(Line)
    BY <2>1, AddType, ReachesType DEF TypeOK
  <2> QED
    BY <1>6, <2>1, <2>2, LineSeqs DEF RedirectFails, FailsSmoke, TypeOK, environment
<1>7. CASE SectionKernels
  <2> DEFINE fails == IF SmokeFails \/ SmokeRaises THEN {"kernels"} ELSE {}
  <2>1. fails \in SUBSET Checks
    BY DEF Checks
  <2>2. Said("smoke", fails) \in Line
    BY <2>1, SaidType
  <2>3. failed' = failed \cup fails /\ SayReal(Said("smoke", fails))
    BY <1>7 DEF SectionKernels
  <2> HIDE DEF fails
  <2>4. /\ buffer' \in Seq(Line) /\ screen' \in Seq(Line)
        /\ printed' \in Seq(Line)
    BY <2>2, <2>3, SayRealType
  <2> QED
    BY <1>7, <2>1, <2>3, <2>4 DEF SectionKernels, TypeOK, environment
<1>8. CASE Restore
  BY <1>8, FlushType DEF Restore, TypeOK, environment, verdict
<1>20. CASE RestoreRaises
  <2>1. Said("smoke", {"kernels"}) \in Line /\ "kernels" \in Checks
    BY SaidType DEF Checks
  <2>2. /\ Add(printed, Said("smoke", {"kernels"})) \in Seq(Line)
        /\ Add(Reaches(buffer), Said("smoke", {"kernels"})) \in Seq(Line)
    BY <2>1, AddType, ReachesType DEF TypeOK
  <2> QED
    BY <1>20, <2>1, <2>2, LineSeqs DEF RestoreRaises, FailsSmoke, TypeOK, environment
<1>9. CASE Passes
  <2>1. Said("passed", {}) \in Line
    BY SaidType
  <2>2. /\ buffer' \in Seq(Line) /\ screen' \in Seq(Line)
        /\ printed' \in Seq(Line) /\ fd1' = fd1
        /\ pc' = "ended" /\ exit' = "0"
    BY <1>9, <2>1, EndsType DEF Passes
  <2> QED
    BY <1>9, <2>2 DEF Passes, TypeOK, environment, verdict
<1>10. CASE Report
  <2>1. Said("failed", failed) \in Line
    BY SaidType DEF TypeOK
  <2>2. /\ buffer' \in Seq(Line) /\ screen' \in Seq(Line)
        /\ printed' \in Seq(Line) /\ fd1' = fd1
    BY <1>10, <2>1, SayType DEF Report
  <2>3. pc' \in {"repair", "advise"}
    BY <1>10 DEF Report
  <2> QED
    BY <1>10, <2>2, <2>3 DEF Report, TypeOK, environment, verdict
<1>11. Said("repair", Automatic) \in Line /\ Said("advice", Manual) \in Line
  BY FindingsType, SaidType DEF TypeOK
<1>12. CASE RepairSucceeds
  <2>1. /\ buffer' \in Seq(Line) /\ screen' \in Seq(Line)
        /\ printed' \in Seq(Line) /\ fd1' = fd1
    BY <1>11, <1>12, SayType DEF RepairSucceeds
  <2>2. world' \in Worlds
    BY <1>12, WorldType DEF RepairSucceeds, TypeOK
  <2> QED
    BY <1>12, <2>1, <2>2 DEF RepairSucceeds, TypeOK, verdict
<1>13. CASE RepairFails
  <2>1. /\ buffer' \in Seq(Line) /\ screen' \in Seq(Line)
        /\ printed' \in Seq(Line) /\ fd1' = fd1
    BY <1>11, <1>13, SayType DEF RepairFails
  <2> QED
    BY <1>13, <2>1 DEF RepairFails, TypeOK, environment, verdict
<1>14. CASE RepairTimesOut
  <2>1. /\ buffer' \in Seq(Line) /\ screen' \in Seq(Line)
        /\ printed' \in Seq(Line) /\ fd1' = fd1
        /\ pc' = "ended" /\ exit' = "timeout"
    BY <1>11, <1>14, EndsType DEF RepairTimesOut
  <2> QED
    BY <1>14, <2>1 DEF RepairTimesOut, TypeOK, environment, verdict
<1>15. CASE ReExecute
  <2>1. image' \in 1 .. 3
    BY <1>15 DEF ReExecute, NextImage, TypeOK
  <2> QED
    BY <1>15, <2>1, FlushType DEF ReExecute, Fresh, TypeOK, environment
<1>16. CASE Advise
  <2>1. /\ buffer' \in Seq(Line) /\ screen' \in Seq(Line)
        /\ printed' \in Seq(Line) /\ fd1' = fd1
        /\ pc' = "ended" /\ exit' = "1"
    BY <1>11, <1>16, EndsType DEF Advise
  <2> QED
    BY <1>16, <2>1 DEF Advise, TypeOK, environment, verdict
<1>17. CASE Spill
  BY <1>17, FlushType DEF Spill, TypeOK, environment, verdict
<1>18. CASE AfterCheck
  BY <1>18 DEF AfterCheck, TypeOK, environment, verdict, output
<1>19. CASE UNCHANGED vars
  BY <1>19 DEF vars, TypeOK, environment, verdict, output
<1> QED
  BY <1>1, <1>2, <1>3, <1>4, <1>5, <1>6, <1>7, <1>8, <1>9, <1>10, <1>12, <1>13,
     <1>14, <1>15, <1>16, <1>17, <1>18, <1>19, <1>20 DEF Next, Script

-----------------------------------------------------------------------------
(* The script and the shell. *)

(* The shell locks the clocks first.                                        *)
LEMMA ControlInit == Init => Control
  BY DEF Init, Control, StartsOverOnce

(* Each step keeps the order of the script's steps.                         *)
LEMMA ControlStep == TypeOK /\ Control /\ [Next]_vars => Control'
<1> SUFFICES ASSUME TypeOK, Control, [Next]_vars PROVE Control'
  OBVIOUS
<1> USE DEF Control, StartsOverOnce, environment, verdict, output, Running
<1>1. CASE LockClocks
  BY <1>1 DEF LockClocks
<1>2. CASE SectionEnvironment
  BY <1>2 DEF SectionEnvironment
<1>3. CASE EnvironmentDies
  BY <1>3 DEF EnvironmentDies, Ends
<1>4. CASE SectionAlpamayo
  BY <1>4 DEF SectionAlpamayo
<1>5. CASE Redirect
  BY <1>5 DEF Redirect
<1>6. CASE RedirectFails
  BY <1>6 DEF RedirectFails
<1>7. CASE SectionKernels
  BY <1>7 DEF SectionKernels
<1>8. CASE Restore
  BY <1>8 DEF Restore
<1>20. CASE RestoreRaises
  BY <1>20 DEF RestoreRaises
<1>9. CASE Passes
  BY <1>9 DEF Passes, Ends
<1>10. CASE Report
  <2>1. \/ pc' = "repair" /\ ~retried
        \/ pc' = "advise"
    BY <1>10 DEF Report
  <2> QED
    BY <1>10, <2>1 DEF Report
<1>11. CASE RepairSucceeds
  BY <1>11 DEF RepairSucceeds
<1>12. CASE RepairFails
  BY <1>12 DEF RepairFails
<1>13. CASE RepairTimesOut
  BY <1>13 DEF RepairTimesOut, Ends
<1>14. CASE ReExecute
  <2>1. image = 1 /\ ~inherited /\ ~noFix
    BY <1>14 DEF ReExecute, TypeOK
  <2>2. image' = 2
    BY <1>14, <2>1 DEF ReExecute, NextImage
  <2> QED
    BY <1>14, <2>1, <2>2 DEF ReExecute, Fresh
<1>15. CASE Advise
  BY <1>15 DEF Advise, Ends
<1>16. CASE Spill
  BY <1>16 DEF Spill
<1>17. CASE AfterCheck
  <2>1. shell' \in {"bench", "aborted"}
    BY <1>17 DEF AfterCheck
  <2> QED
    BY <1>17, <2>1 DEF AfterCheck
<1>18. CASE UNCHANGED vars
  BY <1>18 DEF vars
<1> QED
  BY <1>1, <1>2, <1>3, <1>4, <1>5, <1>6, <1>7, <1>8, <1>9, <1>10, <1>11,
     <1>12, <1>13, <1>14, <1>15, <1>16, <1>17, <1>18, <1>20 DEF Next, Script

-----------------------------------------------------------------------------
(* What is printed arrives. *)

(* print() when descriptor 1 is the user's.                                 *)
LEMMA SayKeeps ==
  ASSUME TypeOK, Control, Outputs, fd1 = "screen", NEW line \in Line,
         Say(line), tty' = tty, pc' \notin {"kernels", "restore", "ended"}
  PROVE  Outputs'
<1>0. /\ image < 3 /\ screen \in Seq(Line) /\ buffer \in Seq(Line)
      /\ printed \in Seq(Line) /\ <<line>> \in Seq(Line)
  BY LineSeqs DEF TypeOK, Control, StartsOverOnce
<1>1. printed' = printed \o <<line>> /\ screen \o buffer = printed
  BY <1>0, AddLast DEF Say, Outputs, OutputKept
<1>2. ASSUME tty PROVE screen' \o buffer' = printed' /\ buffer' = <<>>
  <2>1. buffer = <<>> /\ screen = printed
    BY <1>0, <1>1, <1>2, ConcatEmptySeq DEF Outputs
  <2>2. Add(<<>>, line) = <<line>>
    BY <1>0, AddLast, ConcatEmptySeq, LineSeqs
  <2>3. screen' = screen \o <<line>> /\ buffer' = <<>>
    BY <1>2, <2>1, <2>2 DEF Say, Reaches
  <2>4. screen \o <<line>> \in Seq(Line)
    BY <1>0, ConcatProperties
  <2>5. (screen \o <<line>>) \o <<>> = screen \o <<line>>
    BY <2>4, ConcatEmptySeq
  <2> QED
    BY <1>1, <2>1, <2>3, <2>5
<1>3. ASSUME ~tty PROVE screen' \o buffer' = printed'
  <2>1. screen' = screen /\ buffer' = buffer \o <<line>>
    BY <1>0, <1>3, AddLast DEF Say
  <2>2. (screen \o buffer) \o <<line>> = screen \o (buffer \o <<line>>)
    BY <1>0, ConcatAssociative
  <2> QED
    BY <1>1, <2>1, <2>2
<1>4. /\ screen' \o buffer' = printed' /\ fd1' = "screen"
      /\ tty => buffer' = <<>>
  BY <1>2, <1>3 DEF Say
<1> QED
  BY <1>4 DEF Outputs, OutputKept

(* print() to the saved descriptor, wherever descriptor 1 points.           *)
LEMMA SayRealKeeps ==
  ASSUME TypeOK, Control, Outputs, buffer = <<>>, NEW line \in Line, SayReal(line)
  PROVE  screen' \o buffer' = printed' /\ buffer' = <<>>
<1>1. /\ image < 3 /\ screen \in Seq(Line) /\ printed \in Seq(Line)
      /\ <<line>> \in Seq(Line)
  BY LineSeqs DEF TypeOK, Control, StartsOverOnce
<1>2. screen = printed
  BY <1>1, ConcatEmptySeq DEF Outputs, OutputKept
<1>3. screen' = screen \o <<line>> /\ printed' = screen \o <<line>>
  BY <1>1, <1>2, AddLast DEF SayReal
<1>4. (screen \o <<line>>) \o <<>> = screen \o <<line>>
  BY <1>1, ConcatProperties, ConcatEmptySeq
<1> QED
  BY <1>3, <1>4 DEF SayReal

(* A flush, unless there is something to lose in the log.                   *)
LEMMA FlushKeeps ==
  ASSUME TypeOK, Outputs, fd1 = "log" => buffer = <<>>, Flush,
         printed' = printed
  PROVE  screen' \o buffer' = printed' /\ buffer' = <<>>
<1>1. screen \in Seq(Line) /\ printed \in Seq(Line) /\ buffer \in Seq(Line)
  BY DEF TypeOK
<1>2. screen' = printed
  <2>1. CASE fd1 = "screen"
    BY <2>1 DEF Flush, Reaches, Outputs, OutputKept
  <2>2. CASE fd1 = "log"
    <3>1. screen' = screen /\ buffer = <<>>
      BY <2>2 DEF Flush, Reaches
    <3> QED
      BY <1>1, <3>1, ConcatEmptySeq DEF Outputs, OutputKept
  <2> QED
    BY <2>1, <2>2 DEF TypeOK
<1>3. printed \o <<>> = printed
  BY <1>1, ConcatEmptySeq
<1> QED
  BY <1>2, <1>3 DEF Flush

(* The end of a process.                                                    *)
LEMMA EndsKeeps ==
  ASSUME TypeOK, Control, Outputs, fd1 = "screen", NEW line \in Line, NEW code,
         Ends(code, line)
  PROVE  Outputs'
<1>1. /\ image < 3 /\ screen \in Seq(Line) /\ buffer \in Seq(Line)
      /\ printed \in Seq(Line) /\ <<line>> \in Seq(Line)
  BY LineSeqs DEF TypeOK, Control, StartsOverOnce
<1>2. /\ printed' = (screen \o buffer) \o <<line>>
      /\ screen' = screen \o (buffer \o <<line>>)
  BY <1>1, AddLast DEF Ends, Reaches, Outputs, OutputKept
<1>3. /\ (screen \o buffer) \o <<line>> = screen \o (buffer \o <<line>>)
      /\ screen \o (buffer \o <<line>>) \in Seq(Line)
  BY <1>1, ConcatAssociative, ConcatProperties
<1>4. (screen \o (buffer \o <<line>>)) \o <<>> = screen \o (buffer \o <<line>>)
  BY <1>3, ConcatEmptySeq
<1>5. /\ screen' \o buffer' = printed' /\ buffer' = <<>> /\ fd1' = "screen"
      /\ pc' = "ended"
  BY <1>2, <1>3, <1>4 DEF Ends
<1> QED
  BY <1>5 DEF Outputs, OutputKept

(* A failure around the smoke section, wherever descriptor 1 points.        *)
LEMMA FailsSmokeKeeps ==
  ASSUME TypeOK, Control, Outputs, fd1 = "log" => buffer = <<>>, FailsSmoke
  PROVE  screen' \o buffer' = printed' /\ buffer' = <<>>
<1> DEFINE line == Said("smoke", {"kernels"})
<1>1. /\ line \in Line /\ fd1 \in {"screen", "log"}
      /\ screen \in Seq(Line) /\ printed \in Seq(Line)
  BY SaidType DEF Checks, TypeOK
<1>2. /\ screen' = Add(Reaches(buffer), line) /\ printed' = Add(printed, line)
      /\ buffer' = <<>>
  BY DEF FailsSmoke
<1> HIDE DEF line
<1>3. Reaches(buffer) = printed
  <2>1. CASE fd1 = "screen"
    BY <2>1 DEF Reaches, Outputs, OutputKept
  <2>2. CASE fd1 = "log"
    BY <1>1, <2>2, ConcatEmptySeq DEF Reaches, Outputs, OutputKept
  <2> QED
    BY <1>1, <2>1, <2>2
<1>4. Add(printed, line) \in Seq(Line)
  BY <1>1, AddType
<1>5. Add(printed, line) \o <<>> = Add(printed, line)
  BY <1>4, ConcatEmptySeq
<1> QED
  BY <1>2, <1>3, <1>5

(* At first there is nothing to keep.                                       *)
LEMMA OutputsInit == Init => Outputs
  BY LineSeqs, ConcatEmptySeq DEF Init, Outputs, OutputKept

(* Each step keeps what was printed.                                        *)
LEMMA OutputsStep ==
  TypeOK /\ Control /\ Outputs /\ [Next]_vars => Outputs'
<1> SUFFICES ASSUME TypeOK, Control, Outputs, [Next]_vars PROVE Outputs'
  OBVIOUS
<1>0. fd1 \in {"screen", "log"} /\ failed \subseteq Checks /\ fixes \subseteq Fixes
  BY DEF TypeOK
<1>1. CASE LockClocks
  BY <1>1 DEF LockClocks, Outputs, OutputKept, output
<1>2. CASE SectionEnvironment
  <2>1. fd1 = "screen" /\ Said("environment", EnvironmentFails) \in Line
    BY <1>0, <1>2, FindingsType, SaidType
    DEF SectionEnvironment, Running, Outputs
  <2> QED
    BY <1>2, <2>1, SayKeeps DEF SectionEnvironment, environment
<1>3. CASE EnvironmentDies
  <2>1. /\ fd1 = "screen" /\ Said("environment", {}) \in Line
        /\ Said("environment", {"torch"}) \in Line
    BY <1>0, <1>3, SaidType DEF EnvironmentDies, Running, Outputs, Checks
  <2> QED
    BY <1>3, <2>1, EndsKeeps DEF EnvironmentDies
<1>4. CASE SectionAlpamayo
  <2>1. fd1 = "screen" /\ Said("alpamayo", AlpamayoFails) \in Line
    BY <1>0, <1>4, FindingsType, SaidType
    DEF SectionAlpamayo, Running, Outputs
  <2> QED
    BY <1>4, <2>1, SayKeeps DEF SectionAlpamayo, environment
<1>5. CASE Redirect
  <2>1. screen' \o buffer' = printed' /\ buffer' = <<>>
    BY <1>5, FlushKeeps DEF Redirect, Running, Outputs
  <2> QED
    BY <1>5, <2>1 DEF Redirect, Outputs, OutputKept
<1>6. CASE RedirectFails
  <2>1. fd1 = "screen"
    BY <1>0, <1>6 DEF RedirectFails, Running, Outputs
  <2>2. screen' \o buffer' = printed' /\ buffer' = <<>>
    BY <1>6, <2>1, FailsSmokeKeeps DEF RedirectFails
  <2> QED
    BY <1>6, <2>1, <2>2 DEF RedirectFails, Outputs, OutputKept
<1>7. CASE SectionKernels
  <2> DEFINE fails == IF SmokeFails \/ SmokeRaises THEN {"kernels"} ELSE {}
  <2>1. Said("smoke", fails) \in Line
    BY SaidType DEF Checks
  <2>2. SayReal(Said("smoke", fails)) /\ buffer = <<>> /\ pc' = "restore"
    BY <1>7 DEF SectionKernels, Running, Outputs
  <2> HIDE DEF fails
  <2>3. screen' \o buffer' = printed' /\ buffer' = <<>>
    BY <2>1, <2>2, SayRealKeeps
  <2> QED
    BY <2>2, <2>3 DEF Outputs, OutputKept
<1>8. CASE Restore
  <2>1. screen' \o buffer' = printed' /\ buffer' = <<>>
    BY <1>8, FlushKeeps DEF Restore, Running, Outputs
  <2> QED
    BY <1>8, <2>1 DEF Restore, Outputs, OutputKept
<1>20. CASE RestoreRaises
  <2>1. screen' \o buffer' = printed' /\ buffer' = <<>>
    BY <1>20, FailsSmokeKeeps DEF RestoreRaises, Running, Outputs
  <2> QED
    BY <1>20, <2>1 DEF RestoreRaises, Outputs, OutputKept
<1>9. CASE Passes
  <2>1. fd1 = "screen" /\ Said("passed", {}) \in Line
    BY <1>0, <1>9, SaidType DEF Passes, Running, Outputs
  <2> QED
    BY <1>9, <2>1, EndsKeeps DEF Passes
<1>10. CASE Report
  <2>1. fd1 = "screen" /\ Said("failed", failed) \in Line
    BY <1>0, <1>10, SaidType DEF Report, Running, Outputs
  <2>2. pc' \in {"repair", "advise"}
    BY <1>10 DEF Report
  <2> QED
    BY <1>10, <2>1, <2>2, SayKeeps DEF Report, environment
<1>11. Said("repair", Automatic) \in Line /\ Said("advice", Manual) \in Line
  BY <1>0, FindingsType, SaidType
<1>12. CASE RepairSucceeds
  <2>1. fd1 = "screen"
    BY <1>0, <1>12 DEF RepairSucceeds, Running, Outputs
  <2> QED
    BY <1>11, <1>12, <2>1, SayKeeps DEF RepairSucceeds
<1>13. CASE RepairFails
  <2>1. fd1 = "screen"
    BY <1>0, <1>13 DEF RepairFails, Running, Outputs
  <2> QED
    BY <1>11, <1>13, <2>1, SayKeeps DEF RepairFails, environment
<1>14. CASE RepairTimesOut
  <2>1. fd1 = "screen"
    BY <1>0, <1>14 DEF RepairTimesOut, Running, Outputs
  <2> QED
    BY <1>11, <1>14, <2>1, EndsKeeps DEF RepairTimesOut
<1>15. CASE ReExecute
  <2>1. screen' \o buffer' = printed' /\ buffer' = <<>>
    BY <1>15, FlushKeeps DEF ReExecute, Running, Outputs
  <2>2. fd1' = "screen"
    BY <1>0, <1>15 DEF ReExecute, Running, Outputs
  <2> QED
    BY <1>15, <2>1, <2>2 DEF ReExecute, Fresh, Outputs, OutputKept
<1>16. CASE Advise
  <2>1. fd1 = "screen"
    BY <1>0, <1>16 DEF Advise, Running, Outputs
  <2> QED
    BY <1>11, <1>16, <2>1, EndsKeeps DEF Advise
<1>17. CASE Spill
  <2>1. screen' \o buffer' = printed' /\ buffer' = <<>>
    BY <1>17, FlushKeeps DEF Spill, Outputs
  <2> QED
    BY <1>17, <2>1 DEF Spill, Outputs, OutputKept
<1>18. CASE AfterCheck
  BY <1>18 DEF AfterCheck, Outputs, OutputKept, output, environment
<1>19. CASE UNCHANGED vars
  BY <1>19 DEF vars, Outputs, OutputKept, output, environment
<1> QED
  BY <1>1, <1>2, <1>3, <1>4, <1>5, <1>6, <1>7, <1>8, <1>9, <1>10, <1>12, <1>13,
     <1>14, <1>15, <1>16, <1>17, <1>18, <1>19, <1>20 DEF Next, Script

-----------------------------------------------------------------------------
(* What the sections found. *)

(* The same machine has the same defects.                                   *)
LEMMA SameWorld ==
  ASSUME world' = world
  PROVE  /\ EnvironmentFails' = EnvironmentFails
         /\ AlpamayoFails' = AlpamayoFails
         /\ (SmokeFails \/ SmokeRaises)' = (SmokeFails \/ SmokeRaises)
         /\ Usable' = Usable
  BY DEF EnvironmentFails, AlpamayoFails, SmokeFails, SmokeRaises, NoSmoke, Usable

(* A machine in which nothing fails is usable.                              *)
LEMMA NothingFails ==
  ASSUME world \in Worlds, world.torch, EnvironmentFails = {},
         AlpamayoFails = {}, ~(SmokeFails \/ SmokeRaises)
  PROVE  Usable
<1>1. /\ world.kernels \in {"right", "wrong", "raise", "unsmoked"}
      /\ world.cuda \in {"none", "no bf16", "bf16"} /\ world.header \in BOOLEAN
  BY DEF Worlds
<1>2. /\ world.cuda = "bf16" /\ world.triton = "good" /\ world.header
      /\ world.clock # "low"
  BY <1>1 DEF EnvironmentFails
<1>3. world.commit # "other"
  BY DEF AlpamayoFails
<1>4. world.kernels \in {"right", "unsmoked"}
  BY <1>1 DEF SmokeFails, SmokeRaises
<1> QED
  BY <1>2, <1>3, <1>4 DEF Usable

(* At first nothing was looked at.                                          *)
LEMMA FindingsInit == Init => Findings
  BY DEF Init, Findings, PastEnvironment, PastAlpamayo, PastKernels

(* A step that leaves the machine and what failed alone, and passes no      *)
(* section but the ones behind it.                                         *)
LEMMA FindingsKept ==
  ASSUME Findings, world' = world, failed \subseteq failed', shell' = shell,
         exit' = exit,
         PastEnvironment' => PastEnvironment,
         PastAlpamayo' => PastAlpamayo,
         PastKernels' => PastKernels
  PROVE  Findings'
  BY SameWorld DEF Findings

(* Each step keeps account of what is wrong with the machine.               *)
LEMMA FindingsStep ==
  TypeOK /\ Control /\ Findings /\ [Next]_vars => Findings'
<1> SUFFICES ASSUME TypeOK, Control, Findings, [Next]_vars PROVE Findings'
  OBVIOUS
<1> USE DEF Running, PastEnvironment, PastAlpamayo, PastKernels, environment,
            verdict, output
<1>1. CASE LockClocks
  BY <1>1 DEF LockClocks, Findings, Control
<1>2. CASE SectionEnvironment
  <2>1. /\ world' = world /\ world.torch /\ world.triton # "broken"
        /\ failed' = EnvironmentFails /\ pc' = "alpamayo"
        /\ exit' = "running" /\ shell' = "check"
    BY <1>2 DEF SectionEnvironment, Control
  <2> QED
    BY <2>1, SameWorld DEF Findings
<1>3. CASE EnvironmentDies
  <2>1. pc' = "ended" /\ exit' \in {"1", "traceback"} /\ shell' = "check"
    BY <1>3 DEF EnvironmentDies, Ends
  <2> QED
    BY <2>1 DEF Findings
<1>4. CASE SectionAlpamayo
  <2>1. /\ world' = world /\ failed' = failed \cup AlpamayoFails
        /\ pc = "alpamayo" /\ pc' = "redirect"
        /\ exit' = "running" /\ shell' = "check"
    BY <1>4 DEF SectionAlpamayo, Control
  <2> QED
    BY <2>1, SameWorld DEF Findings
<1>5. CASE Redirect
  BY <1>5, FindingsKept DEF Redirect
<1>6. CASE RedirectFails
  <2>1. /\ world' = world /\ failed' = failed \cup {"kernels"}
        /\ pc = "redirect" /\ pc' = "restore"
        /\ exit' = "running" /\ shell' = "check"
    BY <1>6 DEF RedirectFails, FailsSmoke, Control
  <2> QED
    BY <2>1, SameWorld DEF Findings
<1>7. CASE SectionKernels
  <2>1. /\ world' = world /\ pc = "kernels" /\ pc' = "restore"
        /\ failed' = failed \cup
             (IF SmokeFails \/ SmokeRaises THEN {"kernels"} ELSE {})
        /\ exit' = "running" /\ shell' = "check"
    BY <1>7 DEF SectionKernels, Control
  <2> QED
    BY <2>1, SameWorld DEF Findings
<1>8. CASE Restore
  BY <1>8, FindingsKept DEF Restore
<1>20. CASE RestoreRaises
  <2>1. failed \subseteq failed' /\ pc = "restore" /\ pc' = "report"
    BY <1>20 DEF RestoreRaises, FailsSmoke
  <2> QED
    BY <1>20, <2>1, FindingsKept DEF RestoreRaises
<1>9. CASE Passes
  <2>1. /\ world.torch /\ EnvironmentFails = {} /\ AlpamayoFails = {}
        /\ ~(SmokeFails \/ SmokeRaises)
    BY <1>9 DEF Passes, Findings
  <2>2. Usable /\ Usable' = Usable
    BY <1>9, <2>1, NothingFails, SameWorld DEF Passes, TypeOK
  <2> QED
    BY <1>9, <2>2 DEF Passes, Ends, Findings
<1>10. CASE Report
  <2>1. pc' \in {"repair", "advise"}
    BY <1>10 DEF Report
  <2> QED
    BY <1>10, <2>1, FindingsKept DEF Report
<1>11. CASE RepairSucceeds
  <2>1. pc' = "execv" /\ exit' = "running" /\ shell' = "check"
    BY <1>11 DEF RepairSucceeds, Control
  <2> QED
    BY <2>1 DEF Findings
<1>12. CASE RepairFails
  BY <1>12, FindingsKept DEF RepairFails
<1>13. CASE RepairTimesOut
  BY <1>13 DEF RepairTimesOut, Ends, Findings
<1>14. CASE ReExecute
  BY <1>14 DEF ReExecute, Fresh, Findings
<1>15. CASE Advise
  BY <1>15 DEF Advise, Ends, Findings
<1>16. CASE Spill
  BY <1>16, FindingsKept DEF Spill
<1>17. CASE AfterCheck
  <2>1. /\ world' = world /\ pc' = "ended" /\ exit' = exit
        /\ shell' = IF exit = "0" THEN "bench" ELSE "aborted"
    BY <1>17 DEF AfterCheck
  <2> QED
    BY <2>1, SameWorld DEF Findings
<1>18. CASE UNCHANGED vars
  BY <1>18, FindingsKept DEF vars
<1> QED
  BY <1>1, <1>2, <1>3, <1>4, <1>5, <1>6, <1>7, <1>8, <1>9, <1>10, <1>11,
     <1>12, <1>13, <1>14, <1>15, <1>16, <1>17, <1>18, <1>20 DEF Next, Script

-----------------------------------------------------------------------------
(* What the user is told. *)

(* What was mentioned is still mentioned after another line.                *)
LEMMA MentionKept ==
  ASSUME NEW lines \in Seq(Line), NEW line \in Line,
         NEW section, NEW about, Mention(lines, section, about)
  PROVE  Mention(Add(lines, line), section, about)
<1>1. PICK k \in DOMAIN lines : /\ lines[k].section = section
                                /\ about \subseteq lines[k].about
  BY DEF Mention
<1>2. k \in DOMAIN Append(lines, line) /\ Append(lines, line)[k] = lines[k]
  BY <1>1
<1>3. Mention(Append(lines, line), section, about)
  BY <1>1, <1>2 DEF Mention
<1> QED
  BY <1>3 DEF Add

(* The line just printed is mentioned.                                      *)
LEMMA MentionLast ==
  ASSUME NEW lines \in Seq(Line), NEW section, NEW about, image < 3
  PROVE  Mention(Add(lines, Said(section, about)), section, about)
<1> DEFINE line == Said(section, about)
           k == Len(lines) + 1
<1>1. k \in DOMAIN Append(lines, line) /\ Append(lines, line)[k] = line
  OBVIOUS
<1>2. line.section = section /\ line.about = about
  BY DEF Said
<1>3. Mention(Append(lines, line), section, about)
  <2> HIDE DEF line, k
  <2> QED
    BY <1>1, <1>2 DEF Mention
<1> QED
  BY <1>3 DEF Add

(* Every mention is on the screen once nothing is buffered.                 *)
LEMMA MentionShown ==
  ASSUME TypeOK, OutputKept, pc = "ended",
         NEW section, NEW about, Printed(section, about)
  PROVE  about \subseteq Shown(section)
<1>1. screen = printed
  BY ConcatEmptySeq DEF TypeOK, OutputKept
<1>2. PICK k \in DOMAIN screen : /\ screen[k].section = section
                                 /\ about \subseteq screen[k].about
  BY <1>1 DEF Printed, Mention
<1> QED
  BY <1>2 DEF Shown

(* Printing a line keeps what is mentioned.                                 *)
Prints == printed' = printed \/ \E line \in Line : printed' = Add(printed, line)

(* Whatever was printed stays printed.                                      *)
LEMMA PrintedKept ==
  ASSUME TypeOK, Prints, NEW section, NEW about, Printed(section, about)
  PROVE  Mention(printed', section, about)
  BY MentionKept DEF TypeOK, Prints, Printed

(* Of what may be automatic only triton is.                                 *)
LEMMA OnlyTriton ==
  ASSUME \A f \in fixes : f.auto => f.check = "triton", Automatic # {}
  PROVE  Automatic = {"triton"}
  BY DEF Automatic

(* The fixes of the current image are those of the next step.               *)
LEMMA SameFixes ==
  ASSUME fixes' = fixes
  PROVE  Automatic' = Automatic /\ Manual' = Manual
  BY DEF Automatic, Manual

(* A step that ends nothing and comes to no repair and no advice.           *)
LEMMA NoticesQuiet ==
  ASSUME TypeOK, Notices, Prints, image' = image, exit' \in {"running", "0"},
         pc' \notin {"repair", "execv", "advise"},
         \A f \in fixes' : f.auto => f.check = "triton"
  PROVE  Notices'
<1>1. image' = 2 => Mention(printed', "repair", {"triton"})
  BY PrintedKept DEF Notices
<1> QED
  BY <1>1 DEF Notices, Printed, Fails

(* A step of which the user sees nothing new.                               *)
LEMMA NoticesSame ==
  ASSUME Notices, printed' = printed, image' = image, exit' = exit, pc' = pc,
         fixes' = fixes, noFix' = noFix, inherited' = inherited
  PROVE  Notices'
  BY SameFixes DEF Notices, Printed, Fails

(* At first nothing has to be said.                                         *)
LEMMA NoticesInit == Init => Notices
  BY DEF Init, Notices, Fails

(* Each step says what it has to say.                                       *)
LEMMA NoticesStep ==
  TypeOK /\ Control /\ Notices /\ [Next]_vars => Notices'
<1> SUFFICES ASSUME TypeOK, Control, Notices, [Next]_vars PROVE Notices'
  OBVIOUS
<1>0. /\ failed \subseteq Checks /\ fixes \subseteq Fixes
      /\ image < 3 /\ printed \in Seq(Line)
      /\ \A f \in fixes : f.auto => f.check = "triton"
  BY DEF TypeOK, Control, StartsOverOnce, Notices
<1> USE DEF Running, environment, verdict, output, Fails
<1>1. CASE LockClocks
  BY <1>1, NoticesSame DEF LockClocks
<1>2. CASE SectionEnvironment
  <2>1. Said("environment", EnvironmentFails) \in Line
    BY FindingsType, SaidType
  <2>2. Prints
    BY <1>2, <2>1 DEF SectionEnvironment, Say, Prints
  <2>3. ASSUME NEW f \in EnvironmentFixes, f.auto
        PROVE  f.check = "triton"
    <3>1. PICK c \in EnvironmentFails :
                 f = Fix(c, c = "triton" /\ world.triton # "shadowed")
      BY DEF EnvironmentFixes
    <3>2. f.check = c /\ f.auto = (c = "triton" /\ world.triton # "shadowed")
      BY <3>1 DEF Fix
    <3> QED
      BY <2>3, <3>2
  <2>4. /\ image' = image /\ exit' = "running" /\ pc' = "alpamayo"
        /\ fixes' = EnvironmentFixes
    BY <1>2 DEF SectionEnvironment, Control
  <2> QED
    BY <2>2, <2>3, <2>4, NoticesQuiet
<1>3. CASE EnvironmentDies
  <2>1. /\ Said("environment", {"torch"}) \in Line
        /\ Said("environment", {}) \in Line
    BY SaidType DEF Checks
  <2>2. Prints
    BY <1>3, <2>1 DEF EnvironmentDies, Ends, Prints
  <2>3. /\ image' = image /\ pc' = "ended" /\ fixes' = {}
    BY <1>3 DEF EnvironmentDies, Ends, Control
  <2>4. Automatic' = {} /\ Manual' = {}
    BY <2>3 DEF Automatic, Manual
  <2>5. image' = 2 => Mention(printed', "repair", {"triton"})
    BY <2>2, <2>3, PrintedKept DEF Notices
  <2> QED
    BY <2>3, <2>4, <2>5 DEF Notices, Printed
<1>4. CASE SectionAlpamayo
  <2>1. Said("alpamayo", AlpamayoFails) \in Line
    BY FindingsType, SaidType
  <2>2. Prints
    BY <1>4, <2>1 DEF SectionAlpamayo, Say, Prints
  <2>3. /\ image' = image /\ exit' = "running" /\ pc' = "redirect"
        /\ fixes' = fixes \cup {Fix(c, FALSE) : c \in AlpamayoFails}
    BY <1>4 DEF SectionAlpamayo, Control
  <2>4. \A f \in fixes' : f.auto => f.check = "triton"
    BY <1>0, <2>3 DEF Fix
  <2> QED
    BY <2>2, <2>3, <2>4, NoticesQuiet
<1>5. CASE Redirect
  BY <1>0, <1>5, NoticesQuiet DEF Redirect, Prints, Control
<1>6. CASE RedirectFails
  <2>1. Said("smoke", {"kernels"}) \in Line
    BY SaidType DEF Checks
  <2>2. Prints
    BY <1>6, <2>1 DEF RedirectFails, FailsSmoke, Prints
  <2> QED
    BY <1>0, <1>6, <2>2, NoticesQuiet DEF RedirectFails, Control
<1>7. CASE SectionKernels
  <2> DEFINE fails == IF SmokeFails \/ SmokeRaises THEN {"kernels"} ELSE {}
  <2>1. Said("smoke", fails) \in Line
    BY SaidType DEF Checks
  <2>2. Prints
    BY <1>7, <2>1 DEF SectionKernels, SayReal, Prints
  <2> QED
    BY <1>0, <1>7, <2>2, NoticesQuiet DEF SectionKernels, Control
<1>8. CASE Restore
  BY <1>0, <1>8, NoticesQuiet DEF Restore, Prints, Control
<1>20. CASE RestoreRaises
  <2>1. Said("smoke", {"kernels"}) \in Line
    BY SaidType DEF Checks
  <2>2. Prints
    BY <1>20, <2>1 DEF RestoreRaises, FailsSmoke, Prints
  <2> QED
    BY <1>0, <1>20, <2>2, NoticesQuiet DEF RestoreRaises, Control
<1>9. CASE Passes
  <2>1. Said("passed", {}) \in Line
    BY SaidType
  <2>2. Prints
    BY <1>9, <2>1 DEF Passes, Ends, Prints
  <2> QED
    BY <1>0, <1>9, <2>2, NoticesQuiet DEF Passes, Ends
<1>10. CASE Report
  <2>1. Said("failed", failed) \in Line
    BY <1>0, SaidType
  <2>2. Prints
    BY <1>10, <2>1 DEF Report, Say, Prints
  <2>3. /\ image' = image /\ fixes' = fixes /\ exit' = "running"
        /\ noFix' = noFix /\ inherited' = inherited
        /\ \/ pc' = "repair" /\ Automatic # {}
           \/ pc' = "advise" /\ (Automatic = {} \/ retried \/ noFix)
    BY <1>10 DEF Report, Control
  <2>4. image = 2 => Mention(printed', "repair", {"triton"})
    BY <2>2, PrintedKept DEF Notices
  <2>5. retried => inherited \/ Mention(printed', "repair", {"triton"})
    BY <2>4 DEF Control
  <2>6. Automatic' = Automatic
    BY <2>3, SameFixes
  <2> QED
    BY <1>0, <2>3, <2>4, <2>5, <2>6 DEF Notices, Printed
<1>11. ASSUME pc = "repair", printed' = Add(printed, Said("repair", Automatic))
       PROVE  Mention(printed', "repair", {"triton"})
  <2>1. Automatic = {"triton"}
    BY <1>0, <1>11, OnlyTriton DEF Notices
  <2> QED
    BY <1>0, <1>11, <2>1, MentionLast
<1>12. CASE RepairSucceeds
  <2>1. Mention(printed', "repair", {"triton"})
    BY <1>11, <1>12 DEF RepairSucceeds, Say
  <2>2. /\ pc' = "execv" /\ exit' = "running" /\ fixes' = fixes
    BY <1>12 DEF RepairSucceeds, Control
  <2> QED
    BY <1>0, <2>1, <2>2 DEF Notices, Printed
<1>13. CASE RepairFails
  <2>1. Mention(printed', "repair", {"triton"})
    BY <1>11, <1>13 DEF RepairFails, Say
  <2>2. /\ pc' = "advise" /\ exit' = "running" /\ fixes' = fixes
    BY <1>13 DEF RepairFails, Control
  <2> QED
    BY <1>0, <2>1, <2>2 DEF Notices, Printed
<1>14. CASE RepairTimesOut
  <2>1. Mention(printed', "repair", {"triton"})
    BY <1>11, <1>14 DEF RepairTimesOut, Ends
  <2>2. pc' = "ended" /\ exit' = "timeout" /\ fixes' = fixes
    BY <1>14 DEF RepairTimesOut, Ends
  <2> QED
    BY <1>0, <2>1, <2>2 DEF Notices, Printed
<1>15. CASE ReExecute
  <2>1. printed' = printed /\ pc' = "environment" /\ exit' = "running" /\ fixes' = {}
    BY <1>15 DEF ReExecute, Fresh
  <2>2. Printed("repair", {"triton"})
    BY <1>15 DEF ReExecute, Notices
  <2> QED
    BY <2>1, <2>2 DEF Notices, Printed
<1>16. CASE Advise
  <2>1. Said("advice", Manual) \in Line
    BY <1>0, FindingsType, SaidType
  <2>2. Prints /\ printed' = Add(printed, Said("advice", Manual))
    BY <1>16, <2>1 DEF Advise, Ends, Prints
  <2>3. /\ image' = image /\ fixes' = fixes /\ pc' = "ended"
        /\ noFix' = noFix /\ inherited' = inherited
    BY <1>16 DEF Advise, Ends
  <2>4. Mention(printed', "advice", Manual)
    BY <1>0, <2>2, MentionLast
  <2>5. /\ image = 2 => Mention(printed', "repair", {"triton"})
        /\ \/ Automatic = {} \/ noFix \/ inherited
           \/ Mention(printed', "repair", {"triton"})
    BY <1>16, <2>2, PrintedKept DEF Advise, Notices
  <2>6. Automatic' = Automatic /\ Manual' = Manual
    BY <2>3, SameFixes
  <2> QED
    BY <1>0, <2>3, <2>4, <2>5, <2>6 DEF Notices, Printed
<1>17. CASE Spill
  BY <1>17, NoticesSame DEF Spill
<1>18. CASE AfterCheck
  BY <1>18, NoticesSame DEF AfterCheck
<1>19. CASE UNCHANGED vars
  BY <1>19, NoticesSame DEF vars
<1> QED
  BY <1>1, <1>2, <1>3, <1>4, <1>5, <1>6, <1>7, <1>8, <1>9, <1>10, <1>12, <1>13,
     <1>14, <1>15, <1>16, <1>17, <1>18, <1>19, <1>20 DEF Next, Script

-----------------------------------------------------------------------------
(* The theorems. *)

(* The invariant holds of every run of the scripts.                         *)
THEOREM CheckInvariant == Spec => []CInv
<1>1. Init => CInv
  BY TypeInit, ControlInit, OutputsInit, FindingsInit, NoticesInit DEF CInv
<1>2. CInv /\ [Next]_vars => CInv'
  BY TypeStep, ControlStep, OutputsStep, FindingsStep, NoticesStep DEF CInv
<1> QED
  BY <1>1, <1>2, PTL DEF Spec

(* Every variable keeps its type.                                           *)
THEOREM CheckTypeCorrect == Spec => []TypeOK
<1>1. CInv => TypeOK
  BY DEF CInv
<1> QED
  BY <1>1, CheckInvariant, PTL

(* The benchmark starts only on a machine where what the check counts as a  *)
(* failure is still in order: check_env.py exits with 0 after a look at all *)
(* of it, and run_all.sh changes nothing between.                          *)
THEOREM OnlyUsableBenchmarks == Spec => []BenchmarkUsable
<1>1. CInv => BenchmarkUsable
  BY DEF CInv, Findings, BenchmarkUsable
<1> QED
  BY <1>1, CheckInvariant, PTL

(* No line is lost, doubled or moved by the redirection of descriptor 1,    *)
(* by a failure of it, by a full buffer, or by the re-execution.            *)
THEOREM NoOutputLost == Spec => []OutputKept
<1>1. CInv => OutputKept
  BY DEF CInv, Outputs
<1> QED
  BY <1>1, CheckInvariant, PTL

(* The script replaces itself at most once, whatever the repair changes,    *)
(* and never under --no-fix or if it was started with the mark of a retry.  *)
THEOREM OneRestart == Spec => []StartsOverOnce
<1>1. CInv => StartsOverOnce
  BY DEF CInv, Control
<1> QED
  BY <1>1, CheckInvariant, PTL

(* Who is left with exit status 1, also by an uncaught exception, has seen  *)
(* the command of every repair that was tried, be it in the image before,   *)
(* and every fix to make by hand unless pip ran into its time limit.        *)
THEOREM NothingConcealed == Spec => []Told
<1>1. CInv => Told
  <2> SUFFICES ASSUME CInv, Fails
               PROVE  /\ Automatic \subseteq Shown("repair") \/ noFix \/ inherited
                      /\ exit # "timeout" => Manual \subseteq Shown("advice")
    BY DEF Told
  <2>1. TypeOK /\ OutputKept /\ pc = "ended"
    BY DEF CInv, Control, Outputs, Fails
  <2>2. exit # "timeout" => Manual \subseteq Shown("advice")
    BY <2>1, MentionShown DEF CInv, Notices
  <2>3. Printed("repair", {"triton"}) => {"triton"} \subseteq Shown("repair")
    BY <2>1, MentionShown
  <2>4. Automatic = {} \/ Automatic = {"triton"}
    BY OnlyTriton DEF CInv, Notices
  <2> QED
    BY <2>2, <2>3, <2>4 DEF CInv, Notices
<1> QED
  BY <1>1, CheckInvariant, PTL
=============================================================================
