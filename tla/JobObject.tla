------------------------------ MODULE JobObject ------------------------------
(***************************************************************************)
(* A Windows job object (job_windows.go): its members, the notifications   *)
(* that go from the completion port through a queue to a channel, and the  *)
(* killing of all members but one.                                         *)
(***************************************************************************)
EXTENDS Naturals, Sequences

CONSTANTS
  Launcher, Conhost, Workers,  \* the processes of a job
  MaxQueuedEvents,             \* the longest queue
  MaxPasses                    \* how often TerminateExcept lists the job

VARIABLES
  member,     \* process -> "none", "alive", "dead"; "outside": its id is now an
              \* unrelated process's
  posted,     \* every notification of the kernel
  port,       \* those the pump has not taken, and the request to quit
  jobQueue, dropped, pumpAt, pumpDone, wake,
  batch, batchIsLast, deliverAt,
  handled,    \* notifications the consumer received
  victims, passes, killing,
  jobClosed

jobVars == <<member, posted, port, jobQueue, dropped, pumpAt, pumpDone, wake, batch,
             batchIsLast, deliverAt, handled, victims, passes, killing, jobClosed>>
pumpVars == <<jobQueue, dropped, pumpAt, pumpDone, wake>>
deliverVars == <<batch, batchIsLast, deliverAt>>
killVars == <<victims, passes, killing>>

Quit == [message |-> "quit", pid |-> Launcher]
Members == {p \in DOMAIN member : member[p] = "alive"}
Ran == \E w \in Workers : member[w] # "none"
KillAll == member' = [p \in DOMAIN member |-> IF member[p] = "alive" THEN "dead" ELSE member[p]]
Post(note) == posted' = Append(posted, note) /\ port' = Append(port, note)
-----------------------------------------------------------------------------
JobInit ==
  /\ member = [p \in Workers \union {Launcher, Conhost} |-> "none"]
  /\ posted = <<>> /\ port = <<>> /\ jobQueue = <<>> /\ dropped = 0
  /\ pumpAt = "get" /\ pumpDone = FALSE /\ wake = FALSE
  /\ batch = <<>> /\ batchIsLast = FALSE /\ deliverAt = "take"
  /\ handled = <<>> /\ victims = {} /\ passes = 0 /\ killing = FALSE /\ jobClosed = FALSE

\* The kernel: a process starts in the job, ends, and its id is used again
\* (which matters for the ids that TerminateExcept has listed).
ProcessStarts(p, parent) ==
  /\ ~jobClosed /\ member[p] = "none" /\ member[parent] = "alive"
  /\ member' = [member EXCEPT ![p] = "alive"] /\ Post([message |-> "new", pid |-> p])
  /\ UNCHANGED <<pumpVars, deliverVars, handled, killVars, jobClosed>>

ProcessEnds(p) ==
  /\ member[p] = "alive" /\ member' = [member EXCEPT ![p] = "dead"]
  /\ UNCHANGED <<posted, port, pumpVars, deliverVars, handled, killVars, jobClosed>>

IdReused(p) ==
  /\ p \in victims /\ member[p] = "dead" /\ member' = [member EXCEPT ![p] = "outside"]
  /\ UNCHANGED <<posted, port, pumpVars, deliverVars, handled, killVars, jobClosed>>

LimitHit(p) ==
  /\ ~jobClosed /\ member[p] = "alive" /\ Post([message |-> "memory", pid |-> p])
  /\ UNCHANGED <<member, pumpVars, deliverVars, handled, killVars, jobClosed>>
-----------------------------------------------------------------------------
\* A slip: the queue keeps everything.
PumpUnbounded ==
  /\ pumpAt = "get" /\ port # <<>> /\ port' = Tail(port)
  /\ IF Head(port) = Quit
     THEN pumpDone' = TRUE /\ pumpAt' = "signal the end" /\ UNCHANGED jobQueue
     ELSE pumpAt' = "signal" /\ jobQueue' = Append(jobQueue, Head(port)) /\ UNCHANGED pumpDone
  /\ UNCHANGED <<member, posted, wake, dropped, deliverVars, handled, killVars, jobClosed>>

\* Signalling never blocks: the channel holds one token.
Pump ==
  /\ pumpAt = "get" /\ port # <<>> /\ port' = Tail(port)
  /\ IF Head(port) = Quit
     THEN pumpDone' = TRUE /\ pumpAt' = "signal the end" /\ UNCHANGED <<jobQueue, dropped>>
     ELSE /\ pumpAt' = "signal" /\ UNCHANGED pumpDone
          /\ IF Len(jobQueue) < MaxQueuedEvents
             THEN jobQueue' = Append(jobQueue, Head(port)) /\ UNCHANGED dropped
             ELSE dropped' = dropped + 1 /\ UNCHANGED jobQueue
  /\ UNCHANGED <<member, posted, wake, deliverVars, handled, killVars, jobClosed>>

Signal ==
  /\ pumpAt \in {"signal", "signal the end"} /\ wake' = TRUE
  /\ pumpAt' = IF pumpAt = "signal" THEN "get" ELSE "done"
  /\ UNCHANGED <<member, posted, port, jobQueue, dropped, pumpDone, deliverVars, handled,
                 killVars, jobClosed>>

\* A slip: the last batch is not looked for once the pump is done.
DeliverTakesNoMore ==
  /\ deliverAt = "take"
  /\ batch' = jobQueue /\ jobQueue' = <<>> /\ batchIsLast' = pumpDone
  /\ deliverAt' = IF pumpDone THEN "over" ELSE IF jobQueue # <<>> THEN "send" ELSE "sleep"
  /\ UNCHANGED <<member, posted, port, dropped, pumpAt, pumpDone, wake, handled, killVars,
                 jobClosed>>

DeliverTakes ==
  /\ deliverAt = "take"
  /\ batch' = jobQueue /\ jobQueue' = <<>> /\ batchIsLast' = pumpDone
  /\ deliverAt' = IF jobQueue # <<>> THEN "send" ELSE IF pumpDone THEN "over" ELSE "sleep"
  /\ UNCHANGED <<member, posted, port, dropped, pumpAt, pumpDone, wake, handled, killVars,
                 jobClosed>>

DeliverWakes ==
  /\ deliverAt = "sleep" /\ wake /\ wake' = FALSE /\ deliverAt' = "take"
  /\ UNCHANGED <<member, posted, port, jobQueue, dropped, pumpAt, pumpDone, batch, batchIsLast,
                 handled, killVars, jobClosed>>

\* An unbuffered channel: the consumer takes the event as it is sent.
Deliver ==
  /\ deliverAt = "send"
  /\ handled' = Append(handled, Head(batch)) /\ batch' = Tail(batch)
  /\ deliverAt' = IF Len(batch) = 1 THEN "take" ELSE "send"
  /\ UNCHANGED <<posted, port, pumpVars, batchIsLast, jobClosed>>

\* What an event's process is, if it is still a member.
Described(p) == ~jobClosed /\ member[p] = "alive"
-----------------------------------------------------------------------------
BeginKilling == killing' = ~jobClosed /\ passes' = 0 /\ victims' = {}

\* Each pass lists the job again: a dying parent can have started a child.
ListMembers ==
  /\ killing /\ victims = {}
  /\ LET listed == Members \ {Launcher, Conhost} IN
       IF listed = {} \/ passes = MaxPasses
       THEN killing' = FALSE /\ UNCHANGED <<victims, passes>>
       ELSE victims' = listed /\ passes' = passes + 1 /\ UNCHANGED killing
  /\ UNCHANGED <<member, posted, port, pumpVars, deliverVars, handled, jobClosed>>

\* The process behind an id is killed if, once opened, it is in the job.
TerminateMember(p) ==
  /\ killing /\ p \in victims /\ victims' = victims \ {p}
  /\ member' = [member EXCEPT ![p] = IF @ = "alive" THEN "dead" ELSE @]
  /\ UNCHANGED <<posted, port, pumpVars, deliverVars, handled, passes, killing, jobClosed>>

\* The last handle goes and every member with it; not while members are listed.
CloseJob ==
  /\ ~jobClosed /\ ~killing
  /\ jobClosed' = TRUE /\ KillAll /\ port' = Append(port, Quit)
  /\ UNCHANGED <<posted, pumpVars, deliverVars, handled, killVars>>

JobStep == Pump \/ Signal \/ DeliverTakes \/ DeliverWakes \/ ListMembers
           \/ \E p \in Workers : TerminateMember(p)
=============================================================================
