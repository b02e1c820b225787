---------------------------- MODULE UserPrograms -----------------------------
(***************************************************************************)
(* The user programs (user/init.c, pulse.c, pulse2.c, echo.c) running on   *)
(* the descriptor layer of module FileTable: every build mode of init.c is *)
(* a script of system calls with the results it insists on, and a program  *)
(* that gets another result complains and exits.                           *)
(*                                                                         *)
(* A path is its text; the path walk is that of module Namespace, a buffer *)
(* is what module UserRange says of it, and whether an image can be loaded *)
(* is decided in module ElfImage.  The heap grows on demand (module Heap), *)
(* so the programs run on one that serves all they hold.                   *)
(*                                                                         *)
(* One more program, mode "any", makes any call at any time, on heaps that *)
(* may be too small for what it does.                                      *)
(***************************************************************************)
EXTENDS FileTable

CONSTANT Modes      \* the build modes considered (tools/buildsys.py)

(* Both consoles, the files of the idle task, and a full table. *)
HeapForAll == 2 * 4 + 3 + FdCapacity

ASSUME UserHeap == HeapForAll \in HeapSizes

VARIABLES
    mode,       \* the build mode: which USER_TEST_ option is defined
    program,    \* the program that runs
    ip,         \* its next instruction; 0 is the exit after a complaint
    saved,      \* the descriptors it keeps in variables
    budget,     \* its loop counter
    ticks,      \* kernel_ticks, as far as it is compared with 4
    fresh,      \* kernel_ticks has changed since the program looked at it
    output      \* what has been written to the serial line

user == <<mode, program, ip, saved, budget, ticks, fresh, output>>
allVars == <<vars, user>>

-----------------------------------------------------------------------------
(* Instructions.  A result is the value of rax with the byte that was      *)
(* read, if any; want is the set of results the program goes on with.      *)
Result(n) == <<n, "">>
Error == {Result(-1)}
AnyFd == {Result(n) : n \in Fds}
SavedFd == 1000        \* operand: the k-th saved descriptor is SavedFd + k

Instruction(op, fd, text, n, want) ==
    [op |-> op, fd |-> fd, text |-> text, n |-> n, access |-> {}, buffer |-> "stack", want |-> want]

dup(fd, want) == Instruction("dup", fd, "", 0, want)
close(fd, want) == Instruction("close", fd, "", 0, want)
read(fd, byte) == Instruction("read", fd, "", 1, {<<1, byte>>})
write(fd, text, n) == Instruction("write", fd, text, n, {Result(n)})
open(path, access, want) == [Instruction("open", 0, path, 0, want) EXCEPT !.access = access]
exec(path, want) == Instruction("exec", 0, path, 0, want)
putc(c) == Instruction("putc", 0, c, 0, {})
yield == Instruction("yield", 0, "", 0, {})
look == Instruction("look", 0, "", 0, {})           \* previous = get_ticks()
poll(next) == Instruction("poll", 0, "", next, {})  \* spin until ticks differ
ticks_under_4(next) == Instruction("ticks", 0, "", next, {})
countdown(next, start) == Instruction("countdown", start, "", next, {})
jump(next) == Instruction("jump", 0, "", next, {})
exit == Instruction("exit", 0, "", 0, {})

(* The same call with another buffer, or a call that must fail. *)
With(i, buffer) == [i EXCEPT !.buffer = buffer, !.want = Error]
Failing(i) == [i EXCEPT !.want = Error]

Never == {}     \* no result will do: the call must not return

(* Print the marker and exit. *)
Ok(text, n) == <<write(1, text, n), exit>>

(* putc(first), and then putc(beat) at every start-th change of the ticks. *)
Heart(first, beat, start) ==
    <<putc(first), look, poll(4), countdown(6, start), putc(beat), yield, jump(3)>>

(* The 13 of init.c is what the standard descriptors leave of a table. *)
Rest == FdCapacity - 3
DupFull ==
    [i \in 1..Rest |-> dup(1, AnyFd)] \o <<dup(1, Error)>>
        \o [i \in 1..Rest |-> close(SavedFd + i, {Result(0)})] \o Ok("dupfull ok", 11)
FdInvalid ==
    <<close(-1, Error), close(99, Error), dup(-1, Error), dup(99, Error)>> \o Ok("fdinvalid ok", 13)
RwInvalid ==
    <<Failing(read(-1, "")), Failing(read(99, "")),
      Failing(write(-1, "R", 1)), Failing(write(99, "R", 1))>> \o Ok("rwinvalid ok", 13)
FdClosed ==
    <<open("/etc/banner", {Read}, AnyFd), close(SavedFd + 1, {Result(0)}),
      Failing(read(SavedFd + 1, "")), Failing(write(SavedFd + 1, "C", 1)),
      dup(SavedFd + 1, Error), close(SavedFd + 1, Error)>> \o Ok("fdclosed ok", 12)
BadPointers ==
    <<With(read(0, ""), "null"), With(write(1, "", 1), "null"),
      With(read(0, ""), "unmapped"), With(write(1, "", 2), "past_top"),
      With(open("", {Read}, Error), "unmapped"), With(exec("", Error), "unmapped")>> \o Ok("ptr ok", 7)
ExecLoop == <<exec("/bin/pulse", Never)>>
ExecBadLoop == <<ticks_under_4(4)>> \o Ok("execbad ok", 11) \o <<exec("/bin/pulse", Error), jump(1)>>
ExecTransferFail == <<exec("/bin/pulse", Error)>> \o Ok("execxfer ok", 12)
ExecRegistry == <<exec("/bin/missing", Error), exec("/bin/pulse", Never)>>
ExecPaths == <<exec("/bin/pulse/", Error), exec("/bin//pulse", Error)>> \o Ok("execpath ok", 12)
ExecDirRoot == <<exec("/", Error)>> \o Ok("execroot ok", 12)
ExecNoent == <<exec("/bin/nope", Error)>> \o Ok("execnoent ok", 13)
ExecNonexec == <<exec("/etc/banner", Error)>> \o Ok("execnonexec ok", 15)
ExecBadElf2 == <<exec("/bin/badelf2", Error)>> \o Ok("execbadelf2 ok", 15)
ExecBadPaths ==
    <<exec("bin/pulse", Error), exec("", Error), exec("//", Error), exec("///", Error),
      exec("/bin/", Error)>> \o Ok("execbadpaths ok", 16)
ExecSecond == <<exec("/bin/pulse2", Never)>>
FdWrite ==
    <<write(1, "F", 1), dup(1, AnyFd), write(SavedFd + 1, "D", 1), close(SavedFd + 1, {Result(0)}), exit>>
FdRead == <<read(0, "@"), write(1, "@", 1), exit>>
OpenRead ==
    <<open("/etc/banner", {Read}, AnyFd), read(SavedFd + 1, "p"), close(SavedFd + 1, {Result(0)}),
      write(1, "O", 1), write(1, "p", 1), exit>>
OpenFlags ==
    <<open("/etc/banner", {Write}, Error), open("/dev/console", {Read}, Error),
      open("/dev", {Read}, Error), open("/etc/banner", {Read, Write}, Error),
      open("/etc/banner", {Read}, AnyFd), read(SavedFd + 1, "p"), close(SavedFd + 1, {Result(0)}),
      write(1, "A", 1), exit>>
OpenInvalid ==
    <<open("/etc/banner", {}, Error), open("/etc/banner", {"0x80000000"}, Error)>>
        \o Ok("openinvalid ok", 15)
ExecElf == <<exec("/etc/banner", Error), exec("/bin/pulse", Never)>>
BadSyscall == <<Instruction("0xFFFF", 0, "", 0, Error), putc("V"), exit>>
YieldStress == <<putc("Y"), yield, countdown(2, 128), putc("y"), jump(2)>>

(* user_init_main of each program in a build mode. *)
Script(p, m) ==
    CASE p = "init" ->
            (CASE m = "dup-full" -> DupFull [] m = "fd-invalid" -> FdInvalid
               [] m = "rw-invalid" -> RwInvalid [] m = "fd-closed" -> FdClosed
               [] m = "bad-pointers" -> BadPointers [] m = "exec-loop" -> ExecLoop
               [] m = "exec-bad-loop" -> ExecBadLoop [] m = "exec-transfer-fail" -> ExecTransferFail
               [] m = "exec-registry" -> ExecRegistry [] m = "exec-paths" -> ExecPaths
               [] m = "exec-root" -> ExecDirRoot [] m = "exec-noent" -> ExecNoent
               [] m = "exec-nonexec" -> ExecNonexec [] m = "exec-bad-elf2" -> ExecBadElf2
               [] m = "exec-bad-paths" -> ExecBadPaths [] m = "exec-second" -> ExecSecond
               [] m = "fd-write" -> FdWrite [] m = "fd-read" -> FdRead
               [] m = "open-read" -> OpenRead [] m = "open-flags" -> OpenFlags
               [] m = "open-invalid" -> OpenInvalid [] m = "exec-elf" -> ExecElf
               [] m = "bad-syscall" -> BadSyscall [] m = "yield-stress" -> YieldStress
               [] OTHER -> Heart("U", "u", 16))
      [] p = "pulse" ->
            (CASE m = "exec-loop" -> <<ticks_under_4(4)>> \o Ok("execloop ok", 12)
                                        \o <<exec("/bin/pulse", Never)>>
               [] m = "exec-registry" -> <<exec("/bin/echo", Never)>>
               [] OTHER -> Heart("P", "p", 8))
      [] p = "pulse2" -> IF m = "exec-second" THEN Ok("pulse2 ok", 10) ELSE Heart("2", "2", 8)
      [] p = "echo" -> IF m = "exec-registry" THEN Ok("execreg ok", 11) ELSE Heart("E", "e", 8)

(* What tools/testing.py requires of the serial output of a mode. *)
Required(m) ==
    CASE m = "dup-full" -> {"dupfull ok"} [] m = "fd-invalid" -> {"fdinvalid ok"}
      [] m = "rw-invalid" -> {"rwinvalid ok"} [] m = "fd-closed" -> {"fdclosed ok"}
      [] m = "bad-pointers" -> {"ptr ok"} [] m = "exec-loop" -> {"execloop ok"}
      [] m = "exec-bad-loop" -> {"execbad ok"} [] m = "exec-transfer-fail" -> {"execxfer ok"}
      [] m = "exec-registry" -> {"execreg ok"} [] m = "exec-paths" -> {"execpath ok"}
      [] m = "exec-root" -> {"execroot ok"} [] m = "exec-noent" -> {"execnoent ok"}
      [] m = "exec-nonexec" -> {"execnonexec ok"} [] m = "exec-bad-elf2" -> {"execbadelf2 ok"}
      [] m = "exec-bad-paths" -> {"execbadpaths ok"} [] m = "exec-second" -> {"pulse2 ok"}
      [] m = "fd-write" -> {"F", "D"} [] m = "fd-read" -> {"@"} [] m = "open-read" -> {"O", "p"}
      [] m = "open-flags" -> {"A"} [] m = "open-invalid" -> {"openinvalid ok"}
      [] m \in {"exec-elf", "elf-pulse"} -> {"P"} [] m = "bad-syscall" -> {"V"} [] m = "yield-stress" -> {"Y"}
      [] OTHER -> {"U"}

-----------------------------------------------------------------------------
(* The kernel's side of a call. *)

(* The node a path leads to, if it is a file. *)
Resolve(path) ==
    CASE path = "/etc/banner" -> Banner
      [] path = "/dev/console" -> Console
      [] path \in {"/bin/init", "/bin/pulse", "/bin/echo", "/bin/pulse2", "/bin/badelf2"} -> Executable
      [] OTHER -> NoNode

ProgramOf(path) ==
    CASE path = "/bin/init" -> "init" [] path = "/bin/pulse" -> "pulse"
      [] path = "/bin/echo" -> "echo" [] path = "/bin/pulse2" -> "pulse2"

(* Whether an exec goes through: badelf2 is malformed, a test build        *)
(* replaces pulse by a malformed image, and another one refuses the        *)
(* transfer.                                                               *)
Starts(path) ==
    /\ path # "/bin/badelf2"
    /\ ~(mode = "exec-bad-loop" /\ path = "/bin/pulse")
    /\ mode # "exec-transfer-fail"

(* syscall_user_buffer_valid and syscall_copy_path for the pointers that   *)
(* programs pass.                                                          *)
Valid(buffer) == buffer = "stack"

Current == IF ip = 0 THEN exit ELSE Script(program, mode)[ip]
Calls(op) == mode # "any" /\ pc = "running" /\ Current.op = op
Fd == IF Current.fd > SavedFd THEN saved[Current.fd - SavedFd] ELSE Current.fd
FdUsed == Fd \in Fds /\ Used(Fd)
FileOf == table[task][Fd]

Complaint == IF Current.op = "0xFFFF" THEN "X" ELSE "!"

(* The program gets a result, after the call has written some text: it     *)
(* goes on or complains.                                                   *)
ReturnWriting(r, written) ==
    /\ IF r \in Current.want
       THEN /\ ip' = ip + 1
            /\ saved' = IF Current.want = AnyFd THEN Append(saved, r[1]) ELSE saved
            /\ output' = output \cup written
       ELSE /\ ip' = 0
            /\ output' = output \cup written \cup {Complaint}
            /\ UNCHANGED saved
    /\ UNCHANGED <<mode, program, budget, ticks, fresh>>

Return(r) == ReturnWriting(r, {})

Fails == Return(Result(-1)) /\ UNCHANGED vars

UserDup ==
    /\ Calls("dup")
    /\ IF FdUsed THEN SysDup(Fd) /\ UNCHANGED user ELSE Fails

UserClose ==
    /\ Calls("close")
    /\ IF FdUsed THEN SysClose(Fd) /\ Return(Result(0)) ELSE Fails

UserOpen ==
    /\ Calls("open")
    /\ LET node == Resolve(Current.text)
       IN  IF Valid(Current.buffer) /\ node # NoNode /\ Openable(node, Current.access)
           THEN SysOpen(node, Current.access) /\ UNCHANGED user
           ELSE Fails

(* The byte at the offset, or that of the console, once. *)
Available == IF fileNode[FileOf] = Banner THEN offset[FileOf] < TextLength
                                          ELSE fileNode[FileOf] \notin consumed
Byte == IF fileNode[FileOf] # Banner THEN "@" ELSE IF offset[FileOf] = 0 THEN "p" ELSE "?"
UserRead ==
    /\ Calls("read")
    /\ IF Valid(Current.buffer) /\ FdUsed /\ Read \in fileAccess[FileOf]
       THEN IF Available THEN SysRead(Fd, 1) /\ Return(<<1, Byte>>)
                         ELSE Return(Result(0)) /\ UNCHANGED vars
       ELSE Fails

\* Mutant: the buffer is not checked.
MayWrite_AnyPointer == FdUsed /\ Write \in fileAccess[FileOf]

(* syscall_user_buffer_valid, and the checks of fd_table_write. *)
MayWrite == Valid(Current.buffer) /\ FdUsed /\ Write \in fileAccess[FileOf]

(* Consoles write all they are given. *)
UserWrite ==
    /\ Calls("write")
    /\ IF MayWrite
       THEN ReturnWriting(Result(Current.n), {Current.text}) /\ UNCHANGED vars
       ELSE Fails

UserExec ==
    /\ Calls("exec")
    /\ IF Valid(Current.buffer) /\ Resolve(Current.text) = Executable
       THEN SysExec /\ UNCHANGED user
       ELSE Fails

UserPutc ==
    /\ Calls("putc")
    /\ ip' = ip + 1
    /\ output' = output \cup {Current.text}
    /\ UNCHANGED <<vars, mode, program, saved, budget, ticks, fresh>>

UserExit == Calls("exit") /\ SysExit /\ UNCHANGED user

UnknownCall == Calls("0xFFFF") /\ Fails

(* SYS_YIELD, and what a program does between its calls. *)
Goto(next) == ip' = next /\ UNCHANGED <<vars, mode, program, saved, ticks, output>>
UserStep ==
    \/ Calls("yield") /\ Goto(ip + 1) /\ UNCHANGED <<budget, fresh>>
    \/ Calls("jump") /\ Goto(Current.n) /\ UNCHANGED <<budget, fresh>>
    \/ /\ Calls("look")
       /\ Goto(ip + 1) /\ fresh' = FALSE /\ UNCHANGED budget
    \/ /\ Calls("poll") /\ fresh
       /\ Goto(Current.n) /\ fresh' = FALSE /\ UNCHANGED budget
    \/ /\ Calls("ticks")
       /\ Goto(IF ticks < 4 THEN Current.n ELSE ip + 1) /\ UNCHANGED <<budget, fresh>>
    \/ /\ Calls("countdown")
       /\ LET left == (IF budget = 0 THEN Current.fd ELSE budget) - 1
          IN  budget' = left /\ Goto(IF left = 0 THEN ip + 1 ELSE Current.n)
       /\ UNCHANGED fresh

(* fd_table_install ends an open or a dup. *)
InstallReturns == mode # "any" /\ Install /\ Return(Result(IF Unused = {} THEN -1 ELSE LowestUnused))

(* A failed exec returns, ... *)
ExecDecides ==
    /\ mode # "any"
    /\ ExecCloseImage
    /\ execing' = Starts(Current.text)
    /\ IF execing' THEN UNCHANGED user ELSE Return(Result(-1))

\* Mutant: the new program is entered where the old one was.
Entered_Kept == ip

(* ... the other steps of exec and of exit do not, ... *)
Entered == 1
CloseOrSeed == mode # "any" /\ (CloseAll \/ SeedNodes \/ SeedOpen) /\ UNCHANGED user

(* ... and exec ends in the new program.  The same step starts the first   *)
(* program after boot.                                                     *)
SeedEnds ==
    /\ mode # "any"
    /\ SeedInstall
    /\ IF execing
       THEN /\ program' = ProgramOf(Current.text)
            /\ ip' = Entered
            /\ saved' = <<>>
            /\ budget' = 0
            /\ UNCHANGED <<mode, ticks, fresh, output>>
       ELSE UNCHANGED user

\* Mutant: the timer does not count.
Counted_Not == ticks' = ticks /\ fresh' = fresh

(* kernel_timer_tick. *)
Counted == ticks' = (IF ticks < 4 THEN ticks + 1 ELSE 4) /\ fresh' = TRUE
Tick ==
    /\ mode # "any"
    /\ pc \in {"running", "exited"}
    /\ Counted
    /\ UNCHANGED <<vars, mode, program, ip, saved, budget, output>>

UserInit ==
    /\ Init
    /\ mode \in Modes
    /\ mode # "any" => heapSize = HeapForAll
    /\ program = IF mode = "elf-pulse" THEN "pulse" ELSE "init"
    /\ ip = 1
    /\ saved = <<>>
    /\ budget = 0
    /\ ticks = 0
    /\ fresh = FALSE
    /\ output = {}

(* Every sequence of calls; module FileTable says what they do.  Nothing    *)
(* says that such a program ever makes another one.                        *)
AnyProgram == mode = "any" /\ Next /\ UNCHANGED user

Running ==
    \/ UserDup \/ UserClose \/ UserOpen \/ UserRead \/ UserWrite \/ UserExec
    \/ UserPutc \/ UserExit \/ UnknownCall \/ UserStep
    \/ InstallReturns \/ ExecDecides \/ CloseOrSeed \/ SeedEnds

UserNext == Running \/ AnyProgram \/ Tick

(* The scheduler keeps running the program (RunnableRuns of module         *)
(* Process).  The timer's request stays latched while a handler runs with  *)
(* interrupts off and is taken when it returns (LatchedTickIsHandled of    *)
(* module Interrupts), so a tick that is possible again and again happens. *)
UserSpec == UserInit /\ [][UserNext]_allVars /\ WF_allVars(Running) /\ SF_allVars(Tick)

-----------------------------------------------------------------------------
(* Properties *)

(* Every variable of the programs has its type, and none runs past its end. *)
UserTypeOK ==
    /\ mode \in Modes
    /\ program \in {"init", "pulse", "pulse2", "echo"}
    /\ ip \in 0..Len(Script(program, mode))
    /\ saved \in Seq(Fds)
    /\ budget \in 0..127
    /\ ticks \in 0..4 /\ fresh \in BOOLEAN

(* No program ever gets a result it does not expect, whenever the ticks    *)
(* come: none prints the '!' that tools/testing.py forbids, or 'X'.        *)
NobodyComplains == UserTypeOK /\ {"!", "X"} \cap output = {}

(* Every mode prints what tools/testing.py waits for.                      *)
MarkerAppears == mode # "any" => <>(Required(mode) \subseteq output)

(* The modes whose program ends in a loop. *)
Endless == {"c", "elf-pulse", "exec-elf", "yield-stress"}
AtBeat == Current.op = "putc" /\ ip > 1

(* A program that only watches the clock keeps printing its beat, and one  *)
(* that only yields does too.                                              *)
HeartBeats == mode \in Endless => []<>AtBeat

(* A test program that has printed its marker exits, and all it had open   *)
(* is closed.                                                              *)
TestEnds ==
    mode \notin Endless \cup {"any"} =>
        <>[](pc = "exited" /\ \A d \in Fds : table[1][d] = NoFile)
=============================================================================
