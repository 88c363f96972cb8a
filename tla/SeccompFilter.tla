---------------------------- MODULE SeccompFilter ----------------------------
(***************************************************************************)
(* The classic-BPF programs the sandbox installs (buildSeccompProgram,      *)
(* egressNotifyProgram, compileKafelPolicy) and the kernel's interpreter,  *)
(* one instruction a step.  A jump counts the instructions it skips, so a  *)
(* wrong count decides about the wrong system call.                        *)
(*                                                                         *)
(* A word is the set of its bits, a number being a bit of its own: nr is   *)
(* {"mount"}, or {"mount", "x32"} with the bit of that ABI.                *)
(***************************************************************************)
EXTENDS Naturals, Sequences, SequencesExt

CONSTANTS
  FilterConfigs,  \* [arch, userns, fork, jit, audit, execs, watched, policies]
  Syscalls,       \* [arch, nr, arg0, arg1, arg2, lo4, hi4]
  BlockList       \* names standing for the hardening blocklist

\* The list is finite, and a call asks for one type of socket.
ASSUME FilterAssumption ==
  /\ IsFiniteSet(BlockList)
  /\ \A c \in Syscalls : \A t, u \in c.arg1 \intersect {"raw", "dgram", "stream"} : t = u

VARIABLES
  asked,     \* the configuration
  syscall,   \* the system call to decide about
  stack,     \* the programs installed, the first one first
  ip, acc,   \* the interpreter: next instruction, accumulator
  rulings    \* what the programs run so far returned

filterVars == <<asked, syscall, stack, ip, acc, rulings>>

Ld(field) == [op |-> "ld", jt |-> 0, jf |-> 0, k |-> {field}]
And(mask) == [op |-> "and", jt |-> 0, jf |-> 0, k |-> mask]
Jeq(jt, jf, word) == [op |-> "jeq", jt |-> jt, jf |-> jf, k |-> word]
Jset(jt, jf, bits) == [op |-> "jset", jt |-> jt, jf |-> jf, k |-> bits]
Ret(ruling) == [op |-> "ret", jt |-> 0, jf |-> 0, k |-> {ruling}]

\* The rulings, the strongest first: the kernel obeys that one of a stack.
Strength == <<"kill_process", "kill", "trap", "ENOSYS", "EPERM", "EACCES",
              "notify", "allow">>

\* Both architectures have these numbers; fork and vfork are amd64's.
Numbers(cfg, names) == IF cfg.arch = "amd64" THEN names ELSE names \ {"fork", "vfork"}
Denied(cfg) ==
  Numbers(cfg, BlockList
    \union (IF cfg.fork THEN {"fork", "vfork"} ELSE {})
    \union (IF cfg.jit THEN {"memfd_create"} ELSE {})
    \union (IF ~cfg.execs THEN {} ELSE IF cfg.fork THEN {"execveat"} ELSE {"execve"}))

\* A fork, as opposed to a thread: a trap leaves a trace for the audit.
ForkRuling(cfg) == IF cfg.audit THEN "trap" ELSE "kill"
-----------------------------------------------------------------------------
CheckArch(cfg) ==
  <<Ld("arch"), Jeq(1, 0, {cfg.arch}), Ret("kill_process"), Ld("nr")>>
  \o IF cfg.arch = "amd64" THEN <<Jset(0, 1, {"x32"}), Ret("kill_process")>> ELSE <<>>

CheckClone(cfg) ==
  LET userns == IF cfg.userns THEN <<>>
                ELSE <<Jset(0, 1, {"newuser", "newns"}), Ret("EPERM")>>
      fork   == IF cfg.fork THEN <<Jset(1, 0, {"thread"}), Ret(ForkRuling(cfg))>> ELSE <<>>
      inner  == <<Ld("arg0")>> \o userns \o fork
  IN  IF cfg.userns /\ ~cfg.fork THEN <<>>
      ELSE <<Jeq(0, 1, {"clone3"}), Ret("ENOSYS"), Jeq(0, Len(inner), {"clone"})>>
           \o inner \o <<Ld("nr")>>

\* A slip: the reload of the number is not counted.
CheckSocketShort ==
  <<Jeq(0, 6, {"socket"}), Ld("arg0"), Jeq(4, 0, {"unix"}), Jeq(3, 0, {"netlink"}),
    Ld("arg1"), And({"raw", "dgram", "stream"}), Jeq(0, 1, {"raw"}), Ret("EACCES"),
    Ld("nr")>>

CheckSocket ==
  <<Jeq(0, 7, {"socket"}), Ld("arg0"), Jeq(4, 0, {"unix"}), Jeq(3, 0, {"netlink"}),
    Ld("arg1"), And({"raw", "dgram", "stream"}), Jeq(0, 1, {"raw"}), Ret("EACCES"),
    Ld("nr")>>

CheckProt(cfg) ==
  LET protect(name) == <<Jeq(0, 3, {name}), Ld("arg2"), Jset(0, 1, {"exec"}),
                         Ret("EPERM"), Ld("nr")>>
  IN  IF ~cfg.jit THEN <<>>
      ELSE protect("mprotect") \o protect("pkey_mprotect")
           \o <<Jeq(0, 4, {"mmap"}), Ld("arg2"), Jset(0, 2, {"exec"}),
                Jset(0, 1, {"write"}), Ret("EPERM"), Ld("nr")>>

\* The listener is handed over with sendmsg after this filter is in place, so
\* sendmsg is not watched.
EgressNotifyProgram(arch) ==
  <<Ld("arch"), Jeq(1, 0, {arch}), Ret("allow"), Ld("nr"),
    Jeq(0, 7, {"socket"}), Ld("arg0"), Jeq(1, 0, {"inet"}), Jeq(0, 3, {"inet6"}),
    Ld("arg1"), And({"raw", "dgram", "stream"}), Jeq(8, 0, {"dgram"}), Ret("allow"),
    Jeq(6, 0, {"connect"}), Jeq(0, 4, {"sendto"}), Ld("lo4"), Jeq(0, 3, {}),
    Ld("hi4"), Jeq(0, 1, {}), Ret("allow"), Ret("notify")>>

BuildSeccompProgram(cfg) ==
  CheckArch(cfg) \o CheckClone(cfg) \o CheckSocket \o CheckProt(cfg)
  \o FlattenSeq([i \in 1..Len(SetToSeq(Denied(cfg))) |->
                   <<Jeq(0, 1, {SetToSeq(Denied(cfg))[i]}), Ret("EPERM")>>])
  \o <<Ret("allow")>>

\* A policy is a sequence of statements [action, calls] and a default.  One
\* comparison per name; the action stands behind the last of a statement.
CompileKafelPolicy(policy) ==
  LET statement(s) == FlattenSeq([i \in 1..Len(s.calls) |->
        IF i = Len(s.calls) THEN <<Jeq(0, 2, {s.calls[i]}), Ret(s.action)>>
                            ELSE <<Jeq(0, 1, {s.calls[i]})>>])
  IN  <<Ld("nr")>>
      \o FlattenSeq([i \in 1..Len(policy.statements) |-> statement(policy.statements[i])])
      \o <<Ret(policy.default)>>

\* The kernel's check of a program: no jump leaves it and it ends in a return.
Loads(prog) ==
  /\ prog # <<>> /\ Last(prog).op = "ret"
  /\ \A i \in 1..Len(prog) : prog[i].op \in {"jeq", "jset"} =>
       i + 1 + prog[i].jt <= Len(prog) /\ i + 1 + prog[i].jf <= Len(prog)
-----------------------------------------------------------------------------
\* Of the programs, those the kernel takes, in their order.
Accepted(programs) ==
  LET kept[i \in 0..Len(programs)] ==
        IF i = 0 THEN <<>>
        ELSE IF Loads(programs[i]) THEN Append(kept[i - 1], programs[i]) ELSE kept[i - 1]
  IN  kept[Len(programs)]

\* The watch, the sandbox's own filter, and of the policies, the last one
\* first, those the kernel takes: a refusal is a warning.
ApplySeccompFilters(cfg) ==
  (IF cfg.watched THEN <<EgressNotifyProgram(cfg.arch)>> ELSE <<>>)
  \o <<BuildSeccompProgram(cfg)>>
  \o Accepted([i \in 1..Len(cfg.policies) |-> CompileKafelPolicy(Reverse(cfg.policies)[i])])

FilterInit ==
  /\ asked \in FilterConfigs /\ syscall \in Syscalls
  /\ stack = ApplySeccompFilters(asked)
  /\ ip = 1 /\ acc = {} /\ rulings = {}

Instruction == Head(stack)[ip]

LoadWord ==
  /\ stack # <<>> /\ Instruction.op = "ld"
  /\ acc' = syscall[CHOOSE f \in Instruction.k : TRUE]
  /\ ip' = ip + 1
  /\ UNCHANGED <<asked, syscall, stack, rulings>>

MaskWord ==
  /\ stack # <<>> /\ Instruction.op = "and"
  /\ acc' = acc \intersect Instruction.k
  /\ ip' = ip + 1
  /\ UNCHANGED <<asked, syscall, stack, rulings>>

JumpOver ==
  /\ stack # <<>> /\ Instruction.op \in {"jeq", "jset"}
  /\ LET taken == IF Instruction.op = "jeq" THEN acc = Instruction.k
                  ELSE acc \intersect Instruction.k # {}
     IN  ip' = ip + 1 + IF taken THEN Instruction.jt ELSE Instruction.jf
  /\ UNCHANGED <<asked, syscall, stack, acc, rulings>>

\* The next program of the stack starts afresh.
ReturnRuling ==
  /\ stack # <<>> /\ Instruction.op = "ret"
  /\ rulings' = rulings \union Instruction.k
  /\ stack' = Tail(stack) /\ ip' = 1 /\ acc' = {}
  /\ UNCHANGED <<asked, syscall>>

FilterNext == LoadWord \/ MaskWord \/ JumpOver \/ ReturnRuling

FilterSpec == FilterInit /\ [][FilterNext]_filterVars

FilterTypeOK ==
  /\ asked \in FilterConfigs /\ syscall \in Syscalls
  /\ Len(stack) <= 2 + Len(asked.policies) /\ rulings \subseteq {Strength[i] : i \in 1..Len(Strength)}
  /\ stack # <<>> => ip \in 1..Len(Head(stack))
-----------------------------------------------------------------------------
\* What the comments of the two builders promise for a call.
Promised(cfg, c) ==
  LET is(name) == c.nr = {name}
      flags == c.arg0
      watched == cfg.watched
        /\ \/ is("connect") \/ (is("sendto") /\ (c.lo4 # {} \/ c.hi4 # {}))
           \/ is("socket") /\ flags \in {{"inet"}, {"inet6"}} /\ "dgram" \in c.arg1 /\ "raw" \notin c.arg1
      inspected == ~cfg.userns \/ cfg.fork
      foreign == c.arch # {cfg.arch} \/ (cfg.arch = "amd64" /\ "x32" \in c.nr)
      newSpace == flags \intersect {"newuser", "newns"} # {}
      bare == flags \in {{"unix"}, {"netlink"}} \/ "raw" \in c.arg1
  IN  IF foreign THEN "kill_process"
      ELSE IF is("clone3") /\ inspected THEN "ENOSYS"
      ELSE IF is("clone") /\ ~cfg.userns /\ newSpace THEN "EPERM"
      ELSE IF is("clone") /\ cfg.fork /\ "thread" \notin flags THEN ForkRuling(cfg)
      ELSE IF is("socket") /\ bare THEN "EACCES"
      ELSE IF cfg.jit /\ (is("mprotect") \/ is("pkey_mprotect")) /\ "exec" \in c.arg2 THEN "EPERM"
      ELSE IF cfg.jit /\ is("mmap") /\ {"exec", "write"} \subseteq c.arg2 THEN "EPERM"
      ELSE IF \E name \in Denied(cfg) : is(name) THEN "EPERM"
      ELSE IF watched THEN "notify" ELSE "allow"

Obeyed == Strength[CHOOSE i \in 1..Len(Strength) :
            Strength[i] \in rulings /\ \A j \in 1..(i - 1) : Strength[j] \notin rulings]

\* The two programs together rule as documented on every call: no jump lands
\* on the wrong comparison, each reloads the number it looked behind, and the
\* watch never weakens what the sandbox's own filter denies.
FilterDecides ==
  stack = <<>> /\ asked.policies = <<>> => Obeyed = Promised(asked, syscall)

\* "Stack a Kafel-style seccomp policy using simple syntax.  Example: ALLOW
\* openat, read, write; DEFAULT KILL" (README.md:494): a call that a policy
\* kills by default, naming it nowhere, is killed.
DefaultKills ==
  stack = <<>> => \A i \in 1..Len(asked.policies) :
    LET policy == asked.policies[i] IN
      /\ policy.default = "kill"
      /\ \A s \in ToSet(policy.statements) : syscall.nr \notin {{n} : n \in ToSet(s.calls)}
      => Obeyed \in {"kill_process", "kill"}
=============================================================================
