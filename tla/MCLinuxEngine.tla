---------------------------- MODULE MCLinuxEngine ----------------------------
(***************************************************************************)
(* Small instances of LinuxEngine: a command that makes up to two requests,*)
(* one of which no URL rule matches, and a channel of one event.           *)
(***************************************************************************)
EXTENDS LinuxEngine, TLC

CONSTANTS listed, unlisted

Config(mode, strict, audit, diff, trace, crypto, rules) ==
  [mode |-> mode, strict |-> strict, audit |-> audit, diff |-> diff, trace |-> trace,
   crypto |-> crypto, rules |-> rules]

Plain   == Config("run", FALSE, TRUE, TRUE, FALSE, FALSE, FALSE)
Traced  == Config("run", FALSE, TRUE, FALSE, FALSE, TRUE, TRUE)
Strict  == Config("run", TRUE, TRUE, FALSE, FALSE, FALSE, FALSE)
DryRun  == Config("dry", FALSE, FALSE, FALSE, FALSE, FALSE, FALSE)

MCConfigs == {Plain, Traced, Strict, DryRun}
MCDryConfigs == {DryRun}
MCEvents == {listed, unlisted}
MCPermitted == {listed}
=============================================================================
