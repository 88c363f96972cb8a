----------------------------- MODULE PolicyStore -----------------------------
(***************************************************************************)
(* Learning runs that keep their policy in one file (learner.mergeAndWrite, *)
(* runLearn, finishLearn, config.WritePolicyFile, config.ReadPolicyFile).  *)
(* Each reads the file, merges and writes the result back: to a temporary  *)
(* file of a fixed name, which it renames over the policy file.  The disk  *)
(* is directory entries and inodes, for a run that opened the temporary    *)
(* file goes on writing to the inode another run has renamed meanwhile.    *)
(***************************************************************************)
EXTENDS PolicyMerge

CONSTANTS
  Learners,
  Linux,       \* those that merge first and overlay afterwards (runLearn on
               \* Linux); the others overlay what they merge (macOS, Windows)
  Observed,    \* [Learners -> policies]: what Learn and BuildPolicy return
  Configured,  \* [Learners -> policies]: the controls of the ExecConfig
  Traced,      \* [Learners -> sets of URL rules]: from the HTTP tracer
  Initial      \* what the policy file holds when it exists before

ASSUME StoreAssumption ==
  /\ IsFiniteSet(Learners) /\ IsPolicy(Initial)
  /\ \A l \in Learners : IsPolicy(Observed[l]) /\ IsPolicy(Configured[l])

None == 0
Nodes == 1..(Cardinality(Learners) + 2)

VARIABLES
  stage,      \* where each learner is
  policy,     \* the policy in its hands
  writes,     \* how often it has called WritePolicyFile
  failedW,    \* whether the last of them failed
  fd,         \* the inode it has open, None without one
  entry,      \* the inodes of the policy file and of the temporary file
  inode,      \* what each inode holds, [whole, policy]
  emitted,    \* URL rules of the LEARNED: line
  base,       \* history: the policy the file held at first, Blank without one
  overlapped  \* history: two learners were between read and rename at once

storeVars == <<stage, policy, writes, failedW, fd, entry, inode, emitted, base,
  overlapped>>

NotWhole == [whole |-> FALSE, policy |-> Blank]
\* Between a learner's read of the file and the end of its last write.
Working == {"merged", "open", "written", "refused", "stored"}
Stages == Working \union {"learning", "learned", "done", "failed", "killed"}

StoreTypeOK ==
  /\ stage \in [Learners -> Stages]
  /\ writes \in [Learners -> 0..2] /\ failedW \in [Learners -> BOOLEAN]
  /\ fd \in [Learners -> Nodes \union {None}]
  /\ entry \in [{"file", "tmp"} -> Nodes \union {None}]
  /\ DOMAIN inode = Nodes /\ \A n \in Nodes : inode[n].whole \in BOOLEAN
  /\ overlapped \in BOOLEAN

StoreInit ==
  /\ stage = [l \in Learners |-> "learning"]
  /\ policy = [l \in Learners |-> Blank]
  /\ writes = [l \in Learners |-> 0] /\ failedW = [l \in Learners |-> FALSE]
  /\ fd = [l \in Learners |-> None]
  /\ base \in {Blank, Initial}
  /\ entry = [file |-> IF base = Blank THEN None ELSE 1, tmp |-> None]
  /\ inode = [n \in Nodes |-> IF n = entry["file"]
                              THEN [whole |-> TRUE, policy |-> base] ELSE NotWhole]
  /\ emitted = [l \in Learners |-> {}] /\ overlapped = FALSE

Busy(l) == stage[l] \in Working

Move(l, s) ==
  /\ stage' = [stage EXCEPT ![l] = s]
  /\ overlapped' = (overlapped \/ \E k \in Learners \ {l} :
                      Busy(k) /\ s \in Working)
  /\ UNCHANGED base

FreeNode == CHOOSE n \in Nodes :
  n \notin {entry["file"], entry["tmp"]} \union {fd[l] : l \in Learners}
-----------------------------------------------------------------------------
\* Learn: a trace that cannot be created or read ends the run with nothing
\* stored; a command that fails does not.  Off Linux the overlay comes here.
Learn(l) ==
  /\ stage[l] = "learning"
  /\ Move(l, "learned")
  /\ policy' = [policy EXCEPT ![l] =
       IF l \in Linux THEN Observed[l]
       ELSE OverlayExecConfigToPolicy(Configured[l], Observed[l])]
  /\ UNCHANGED <<writes, failedW, fd, entry, inode, emitted>>

LearnFails(l) ==
  /\ stage[l] = "learning" /\ l \in Linux
  /\ Move(l, "failed")
  /\ UNCHANGED <<policy, writes, failedW, fd, entry, inode, emitted>>

\* ReadPolicyFile and MergePolicies: a file that is missing or does not
\* parse leaves the observed policy alone.
ReadAndMerge(l) ==
  /\ stage[l] = "learned"
  /\ Move(l, "merged")
  /\ policy' = [policy EXCEPT ![l] =
       IF entry["file"] # None /\ inode[entry["file"]].whole
       THEN MergePolicies(inode[entry["file"]].policy, @) ELSE @]
  /\ UNCHANGED <<writes, failedW, fd, entry, inode, emitted>>

\* os.WriteFile on path.tmp: create or truncate ...
OpenTmp(l) ==
  /\ stage[l] = "merged"
  /\ Move(l, "open")
  /\ writes' = [writes EXCEPT ![l] = @ + 1]
  /\ LET n == IF entry["tmp"] = None THEN FreeNode ELSE entry["tmp"]
     IN  /\ entry' = [entry EXCEPT !["tmp"] = n]
         /\ inode' = [inode EXCEPT ![n] = NotWhole]
         /\ fd' = [fd EXCEPT ![l] = n]
  /\ UNCHANGED <<policy, failedW, emitted>>

\* ... write from the start: over what another writer put there meanwhile,
\* whose tail stays when it is the longer one ...
WriteTmp(l) ==
  /\ stage[l] = "open"
  /\ Move(l, "written")
  /\ LET mine == [whole |-> TRUE, policy |-> policy[l]] IN
     \E c \in {mine} \union (IF inode[fd[l]].whole /\ inode[fd[l]] # mine
                             THEN {NotWhole} ELSE {}) :
       inode' = [inode EXCEPT ![fd[l]] = c]
  /\ fd' = [fd EXCEPT ![l] = None]
  /\ UNCHANGED <<policy, writes, failedW, entry, emitted>>

\* ... and rename.
RenameTmp(l) ==
  /\ stage[l] = "written" /\ entry["tmp"] # None
  /\ Move(l, "stored")
  /\ failedW' = [failedW EXCEPT ![l] = FALSE]
  /\ entry' = [entry EXCEPT !["file"] = entry["tmp"], !["tmp"] = None]
  /\ UNCHANGED <<policy, writes, fd, inode, emitted>>

\* The rename fails, for one when another run renamed the file away ...
RenameFails(l) ==
  /\ stage[l] = "written"
  /\ Move(l, "refused")
  /\ failedW' = [failedW EXCEPT ![l] = TRUE]
  /\ UNCHANGED <<policy, writes, fd, entry, inode, emitted>>

\* ... and whatever has the temporary file's name by now is removed; an error
\* of that is not looked at.
RemoveTmp(l) ==
  /\ stage[l] = "refused"
  /\ Move(l, "stored")
  /\ entry' \in {entry, [entry EXCEPT !["tmp"] = None]}
  /\ UNCHANGED <<policy, writes, failedW, fd, inode, emitted>>

\* A slip: what could not be written whole is renamed all the same.
WriteFailsUnseen(l) ==
  /\ stage[l] = "open"
  /\ Move(l, "written")
  /\ inode' = [inode EXCEPT ![fd[l]] = NotWhole]
  /\ fd' = [fd EXCEPT ![l] = None]
  /\ UNCHANGED <<policy, writes, failedW, entry, emitted>>

\* The disk is full: a warning, and the run goes on.
WriteFails(l) ==
  /\ stage[l] = "open"
  /\ Move(l, "stored")
  /\ failedW' = [failedW EXCEPT ![l] = TRUE]
  /\ inode' = [inode EXCEPT ![fd[l]] = NotWhole]
  /\ fd' = [fd EXCEPT ![l] = None]
  /\ UNCHANGED <<policy, writes, entry, emitted>>

\* runLearn on Linux: the controls are overlaid on what was stored, and the
\* result is stored again without reading the file a second time.
OverlayAgain(l) ==
  /\ stage[l] = "stored" /\ l \in Linux /\ writes[l] = 1
  /\ Move(l, "merged")
  /\ policy' = [policy EXCEPT ![l] = OverlayExecConfigToPolicy(Configured[l], @)]
  /\ UNCHANGED <<writes, failedW, fd, entry, inode, emitted>>

\* The LEARNED: line.  The rules synthesised from the HTTP tracer replace the
\* policy's here, after the last write, and from as many of its events as the
\* goroutine has taken by now.
Emit(l) ==
  /\ stage[l] = "stored" /\ ~(l \in Linux /\ writes[l] = 1)
  /\ Move(l, "done")
  /\ \E drained \in SUBSET Traced[l] :
       emitted' = [emitted EXCEPT ![l] =
                     IF drained # {} THEN drained ELSE policy[l].rules]
  /\ UNCHANGED <<policy, writes, failedW, fd, entry, inode>>

Kill(l) ==
  /\ stage[l] \notin {"done", "failed", "killed"}
  /\ Move(l, "killed")
  /\ fd' = [fd EXCEPT ![l] = None]
  /\ UNCHANGED <<policy, writes, failedW, entry, inode, emitted>>

StoreNext == \E l \in Learners :
  \/ Learn(l) \/ LearnFails(l) \/ ReadAndMerge(l)
  \/ OpenTmp(l) \/ WriteTmp(l) \/ WriteFails(l)
  \/ RenameTmp(l) \/ RenameFails(l) \/ RemoveTmp(l)
  \/ OverlayAgain(l) \/ Emit(l) \/ Kill(l)

StoreSpec == StoreInit /\ [][StoreNext]_storeVars
-----------------------------------------------------------------------------
Stored == inode[entry["file"]].policy

\* The policy file is never half written, whatever run is killed and whatever
\* write fails, as long as no two learners work on it at once: a reader takes
\* a torn file for a missing one and forgets all of it (WritePolicyFile).
FileStaysWhole ==
  ~overlapped /\ entry["file"] # None => inode[entry["file"]].whole

\* One learner after the other loses nothing: the file permits what it
\* permitted first and every access a finished learner saw, keeps the user's
\* limits and the controls MergePolicies ORs (mergeAndWrite, runLearn).
SerialLearnersLoseNothing ==
  ~overlapped =>
    /\ base # Blank => /\ base.grants \subseteq Stored.grants
                       /\ base.flags \subseteq Stored.flags
                       /\ base.limit # 0 => Stored.limit = base.limit
    /\ \A l \in Learners : stage[l] = "done" /\ ~failedW[l] =>
         /\ Observed[l].grants \subseteq Stored.grants
         /\ Configured[l].flags \subseteq Stored.flags

\* The hardening a file holds, and the hardening of the run that is merged
\* into it, survive the merge: README.md:1003, "Merging unions these fields
\* across runs, so iterating on a policy no longer silently drops hardening".
HardeningKept ==
  ~overlapped =>
    /\ base.sealed # {} => base.sealed \subseteq Stored.sealed
    /\ \A l \in Learners : stage[l] = "done" /\ ~failedW[l] =>
         Configured[l].sealed \subseteq Stored.sealed
=============================================================================
