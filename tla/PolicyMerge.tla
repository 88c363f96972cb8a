----------------------------- MODULE PolicyMerge -----------------------------
(***************************************************************************)
(* Policies and how the learners build, overlay and merge them             *)
(* (config/merge.go, learner/learner.go).  The fields of a PolicyFile are   *)
(* grouped by the rule that merges them:                                   *)
(*   grants   paths, hosts, addresses, ports, ...: the union               *)
(*   access   keyed entries (HTTP requests, ciphers): the first of a key    *)
(*   rules    URL rules, [group, methods]: the methods' union per group    *)
(*   flags    controls of which either side's holds                        *)
(*   relaxed  permissions that hold only when both sides have them         *)
(*   sealed   PrivateTmp, ProtectSystem, ProtectHome, MapToTargetUid: the  *)
(*            overlay sets them, MergePolicies has no line for them        *)
(*   limit    resource limits and metadata: the base's unless it is unset  *)
(*   cmd      the observed run's                                           *)
(***************************************************************************)
EXTENDS Naturals, Sequences, FiniteSets

Blank == [grants |-> {}, access |-> {}, rules |-> {}, flags |-> {},
          relaxed |-> {}, sealed |-> {}, limit |-> 0, cmd |-> "none"]
Fields == DOMAIN Blank
IsPolicy(p) == p = [f \in Fields |-> p[f]]

\* unionStrings, unionInts: a set each.
Union(a, b) == a \union b

\* mergeHTTPAccess, mergeCiphers, mergeLibraries, mergeCryptoOps keep the
\* first entry of a key; an entry is [key, detail].
MergeHTTPAccess(a, b) == a \union {e \in b : \A f \in a : f.key # e.key}

\* mergeURLRules: one rule per group, with every method named by either list.
\* A rule without methods allows any, but contributes none to the union.
MergeURLRules(a, b) ==
  {[group |-> g, methods |-> UNION {r.methods : r \in {q \in a \union b : q.group = g}}] :
     g \in {r.group : r \in a \union b}}

PickNonZero(a, b) == IF a # 0 THEN a ELSE b

MergePolicies(base, observed) ==
  [grants  |-> Union(base.grants, observed.grants),
   access  |-> MergeHTTPAccess(base.access, observed.access),
   rules   |-> MergeURLRules(base.rules, observed.rules),
   flags   |-> base.flags \union observed.flags,
   relaxed |-> base.relaxed \intersect observed.relaxed,
   sealed  |-> {},
   limit   |-> PickNonZero(base.limit, observed.limit),
   cmd     |-> observed.cmd]

\* A slip: the configuration's controls replace the policy's.
OverlayReplacing(cfg, policy) ==
  [policy EXCEPT !.grants = @ \union cfg.grants, !.flags = cfg.flags]

\* The configuration's opt-in controls, put on a learned policy.
\* AllowChrootFallback is the one relaxation it copies; consent to change
\* host ACLs is left out on purpose.
OverlayExecConfigToPolicy(cfg, policy) ==
  [policy EXCEPT !.grants  = @ \union cfg.grants,
                 !.flags   = @ \union cfg.flags,
                 !.relaxed = @ \union (cfg.relaxed \ {"dacl"}),
                 !.sealed  = @ \union cfg.sealed]
-----------------------------------------------------------------------------
(* What a traced run teaches.  A call is [call, path, writes, ip, port]; a   *)
(* path is the sequence of its segments, an unused field is empty, and an   *)
(* address that is not dotted IPv4 reads as "".                              *)

learnGroupDepth == 4

\* truncatePathDepth: the root counts as a segment.
TruncatePathDepth(path) ==
  IF Len(path) < learnGroupDepth THEN path ELSE SubSeq(path, 1, learnGroupDepth - 1)

FileCalls == {"openat", "open", "stat", "access", "readlink"}

ParseStraceLine(c) ==
  LET file == IF c.call \notin FileCalls \/ c.path = <<>> THEN {}
              ELSE {<<IF c.writes THEN "write" ELSE "read", TruncatePathDepth(c.path)>>}
      address == {<<"ip", c.ip>> : i \in {1} \ (IF c.ip = "" THEN {1} ELSE {})}
      port == {<<"port", c.port>> : i \in {1} \ (IF c.port = 0 THEN {1} ELSE {})}
  IN  CASE c.call = "connect" -> address \union port
        [] c.call = "bind" -> IF c.ip = "" THEN {} ELSE {<<"listen", c.ip, c.port>>}
        [] OTHER -> file

\* buildPolicy: what the observed reads say about the crypto libraries, the
\* GPU, the TPM and the hypervisor becomes a flag each; known holds <<path, flag>>.
BuildPolicy(cmd, calls, known) ==
  [Blank EXCEPT !.grants = UNION {ParseStraceLine(c) : c \in calls},
                !.flags = {k[2] : k \in {k \in known : \E c \in calls :
                            c.call \in FileCalls /\ ~c.writes /\ c.path = k[1]}},
                !.cmd = cmd]

\* learnBasic: no strace; the remote ends /proc/net/tcp lists after the run
\* and not before it.
LearnBasic(cmd, before, after) ==
  [Blank EXCEPT !.grants = UNION {{<<"ip", e.ip>>, <<"port", e.port>>} :
                                  e \in after \ before},
                !.cmd = cmd]
=============================================================================
