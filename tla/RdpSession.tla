----------------------------- MODULE RdpSession -----------------------------
(***************************************************************************)
(* One headless RDP transport: the call of Start, the worker process, and  *)
(* the three goroutines that read its receipts, wait for its end and watch *)
(* its lifetime. Each may end the transport through Stop, as may its owner.*)
(*                                                                         *)
(* The worker is a process of its own: it writes receipts and exits when   *)
(* it likes, and another process may retain the standard output or the     *)
(* standard error it inherited, for as long as it likes. Nothing is        *)
(* assumed of either: the kill in Stop is sure to end the worker, but not  *)
(* to close what was retained.                                             *)
(***************************************************************************)
EXTENDS Naturals, Sequences, FiniteSets

CONSTANTS
  Owners,      \* callers of Stop on a started session
  Retainable,  \* descriptors another process may retain: stdout, stderr
  MaxLines     \* how many lines the worker writes

ASSUME LinesAssumption == MaxLines \in Nat

VARIABLES
  starter, result,     \* where Start is, and what it returned
  dir,                 \* the private runtime directory exists
  worker, held,        \* the process, and its descriptors held elsewhere
  input, out,          \* the supervisor's ends of the two pipes are open
  pipe, written,       \* receipts not read yet, and how many were written
  reader, seen, ready, \* readReceipts, its two flags, and closes of ready
  err,                 \* Session.err
  waiter, watcher,     \* the other goroutines; done is closed by the waiter
  once, calls, stopped,\* sync.Once, calls of Stop under way and returned
  cancelled, expired   \* the context and the expiry of the session

start == <<starter, result, dir>>
process == <<worker, held, pipe, written>>
receipts == <<reader, seen, ready>>
stop == <<once, calls, stopped>>
clock == <<cancelled, expired>>
vars == <<start, process, input, out, receipts, err, waiter, watcher, stop, clock>>

Receipts == {"connected", "frame"}
Lines == Receipts \cup {"failed", "garbage"}
Callers == Owners \cup {"starter", "watcher", "reader"}

Gone == worker \in {"exited", "failed"}
Done == waiter = "over"

Init ==
  /\ starter = "new" /\ result = "none" /\ dir = FALSE
  /\ worker = "none" /\ held = {}
  /\ input = FALSE /\ out = FALSE
  /\ pipe = <<>> /\ written = 0
  /\ reader = "none" /\ seen = {} /\ ready = 0
  /\ err = "none"
  /\ waiter = "none" /\ watcher = "none"
  /\ once = "unused" /\ calls = {} /\ stopped = {}
  /\ cancelled = FALSE /\ expired = FALSE

-----------------------------------------------------------------------------
(* Start                                                                   *)

\* An invalid configuration, an unusable executable, a context already over.
StartRefused ==
  /\ starter = "new"
  /\ starter' = "returned" /\ result' = "error"
  /\ UNCHANGED <<dir, process, input, out, receipts, err, waiter, watcher, stop, clock>>

MkdirTemp ==
  /\ starter = "new" /\ ~cancelled /\ ~expired
  /\ starter' = "dir" /\ dir' = TRUE
  /\ UNCHANGED <<result, process, input, out, receipts, err, waiter, watcher, stop, clock>>

\* No environment, no pipe or no process: the deferred call removes the
\* directory.
SpawnFails ==
  /\ starter = "dir"
  /\ starter' = "returned" /\ result' = "error" /\ dir' = FALSE
  /\ UNCHANGED <<process, input, out, receipts, err, waiter, watcher, stop, clock>>

Spawn ==
  /\ starter = "dir"
  /\ starter' = "writing"
  /\ worker' = "running"
  /\ input' = TRUE /\ out' = TRUE
  /\ reader' = "reading" /\ waiter' = "waiting" /\ watcher' = "watching"
  /\ UNCHANGED <<result, dir, held, pipe, written, seen, ready, err, stop, clock>>

WritePayload ==
  /\ starter = "writing" /\ input /\ ~Gone
  /\ starter' = "awaiting"
  /\ UNCHANGED <<result, dir, process, input, out, receipts, err, waiter, watcher, stop, clock>>

\* (mutant) Stop is left to a goroutine
FailsAtOnce ==
  /\ starter' = "returned" /\ result' = "error"
  /\ calls' = calls \cup {"reader"}
  /\ UNCHANGED <<dir, process, input, out, receipts, err, waiter, watcher, once, stopped, clock>>

\* Start calls Stop and returns an error once Stop has returned.
StopsAndFails ==
  /\ starter' = "stopping"
  /\ calls' = calls \cup {"starter"}
  /\ UNCHANGED <<result, dir, process, input, out, receipts, err, waiter, watcher, once, stopped, clock>>

\* The pipe is closed or broken, or the five seconds are over.
WriteFails ==
  /\ starter = "writing"
  /\ StopsAndFails

\* The context ends or the 45 seconds are over before the worker is ready.
AwaitGivesUp ==
  /\ starter = "awaiting"
  /\ StopsAndFails

AwaitDone ==
  /\ starter = "awaiting" /\ Done
  /\ starter' = "returned" /\ result' = "error"
  /\ UNCHANGED <<dir, process, input, out, receipts, err, waiter, watcher, stop, clock>>

\* (mutant) only the end of the worker counts
NotDone == ~Done

Alive == ~Done /\ err = "none"

AwaitReady ==
  /\ starter = "awaiting" /\ ready > 0
  /\ IF Alive
       THEN /\ starter' = "returned" /\ result' = "session"
            /\ UNCHANGED <<dir, process, input, out, receipts, err, waiter, watcher, stop, clock>>
       ELSE StopsAndFails

StartFails ==
  /\ starter = "stopping" /\ "starter" \in stopped
  /\ starter' = "returned" /\ result' = "error"
  /\ UNCHANGED <<dir, process, input, out, receipts, err, waiter, watcher, stop, clock>>

-----------------------------------------------------------------------------
(* The worker, the context and the expiry                                  *)

WorkerWrites(line) ==
  /\ worker = "running" \/ "stdout" \in held
  /\ written < MaxLines
  /\ pipe' = Append(pipe, line) /\ written' = written + 1
  /\ UNCHANGED <<start, worker, held, input, out, receipts, err, waiter, watcher, stop, clock>>

Ends(how, retained) == worker' = how /\ held' = retained

WorkerExits(how, retained) ==
  /\ worker = "running"
  /\ Ends(how, retained)
  /\ UNCHANGED <<start, pipe, written, input, out, receipts, err, waiter, watcher, stop, clock>>

\* The process that retains the descriptors closes them.
Release ==
  /\ held # {}
  /\ held' = {}
  /\ UNCHANGED <<start, worker, pipe, written, input, out, receipts, err, waiter, watcher, stop, clock>>

Cancel ==
  /\ ~cancelled
  /\ cancelled' = TRUE
  /\ UNCHANGED <<start, process, input, out, receipts, err, waiter, watcher, stop, expired>>

Expire ==
  /\ ~expired
  /\ expired' = TRUE
  /\ UNCHANGED <<start, process, input, out, receipts, err, waiter, watcher, stop, cancelled>>

-----------------------------------------------------------------------------
(* readReceipts: every way out records an error and lets another goroutine *)
(* call Stop, for the waiter joins this one before it closes done.         *)

Quits(e) ==
  /\ reader' = "over"
  /\ out' = FALSE
  /\ err' = e
  /\ calls' = calls \cup {"reader"}
  /\ UNCHANGED <<seen, ready, once, stopped>>

Repeated(line) == line \in seen

Accepts(line) ==
  /\ seen' = seen \cup {line}
  /\ ready' = IF seen' = Receipts THEN ready + 1 ELSE ready
  /\ UNCHANGED <<reader, out, input, err, stop>>

ReadReceipt ==
  /\ reader = "reading" /\ pipe # <<>>
  /\ pipe' = Tail(pipe)
  /\ LET line == Head(pipe) IN
       \/ line = "failed" /\ Quits("failed") /\ UNCHANGED input
       \/ (line = "garbage" \/ Repeated(line)) /\ Quits("protocol") /\ input' = FALSE
       \/ line \in Receipts /\ ~Repeated(line) /\ Accepts(line)
  /\ UNCHANGED <<start, worker, held, written, waiter, watcher, clock>>

ReadEnd ==
  /\ reader = "reading" /\ pipe = <<>>
  /\ Gone /\ "stdout" \notin held
  /\ IF seen = Receipts
       THEN Quits("closed") /\ UNCHANGED input
       ELSE Quits("protocol") /\ input' = FALSE
  /\ UNCHANGED <<start, process, waiter, watcher, clock>>

\* The waiter closed the descriptor under a blocked read.
ReadFails ==
  /\ reader = "reading" /\ ~out
  /\ Quits("protocol")
  /\ input' = FALSE
  /\ UNCHANGED <<start, process, waiter, watcher, clock>>

-----------------------------------------------------------------------------
(* The goroutine that waits for the worker                                 *)

\* Wait returns when the process is gone and its standard error, which is
\* copied through a pipe, has ended.
Reap ==
  /\ waiter = "waiting" /\ Gone /\ "stderr" \notin held
  /\ waiter' = "joining"
  /\ input' = FALSE /\ dir' = FALSE
  /\ UNCHANGED <<starter, result, process, out, receipts, err, watcher, stop, clock>>

\* One second passed and the reader is still blocked.
CloseOutput ==
  /\ waiter = "joining" /\ reader = "reading" /\ out
  /\ out' = FALSE
  /\ UNCHANGED <<start, process, input, receipts, err, waiter, watcher, stop, clock>>

FirstError == IF err = "none" /\ worker = "failed" THEN "closed" ELSE err

Finish ==
  /\ waiter = "joining" /\ reader = "over"
  /\ waiter' = "over"
  /\ err' = FirstError
  /\ UNCHANGED <<start, process, input, out, receipts, watcher, stop, clock>>

-----------------------------------------------------------------------------
(* The goroutine that watches the lifetime, and Stop                       *)

Watch ==
  /\ watcher = "watching" /\ (cancelled \/ expired)
  /\ watcher' = "stopping"
  /\ calls' = calls \cup {"watcher"}
  /\ UNCHANGED <<start, process, input, out, receipts, err, waiter, once, stopped, clock>>

WatchOver ==
  /\ \/ watcher = "watching" /\ Done
     \/ watcher = "stopping" /\ "watcher" \in stopped
  /\ watcher' = "over"
  /\ UNCHANGED <<start, process, input, out, receipts, err, waiter, stop, clock>>

OwnerStops(o) ==
  /\ result = "session" /\ o \notin calls \cup stopped
  /\ calls' = calls \cup {o}
  /\ UNCHANGED <<start, process, input, out, receipts, err, waiter, watcher, once, stopped, clock>>

CloseInput ==
  /\ once = "unused" /\ calls # {}
  /\ once' = "waiting" /\ input' = FALSE
  /\ UNCHANGED <<start, process, out, receipts, err, waiter, watcher, calls, stopped, clock>>

\* (mutant) a worker that ignores the closed pipe is waited for
NeverKill(retained) ==
  /\ once = "waiting" /\ Gone
  /\ once' = "killed"
  /\ UNCHANGED <<start, process, input, out, receipts, err, waiter, watcher, calls, stopped, clock>>

Kill(retained) ==
  /\ once = "waiting"
  /\ once' = "killed"
  /\ IF worker = "running" THEN Ends("failed", retained) ELSE UNCHANGED <<worker, held>>
  /\ UNCHANGED <<start, pipe, written, input, out, receipts, err, waiter, watcher, calls, stopped, clock>>

StopOnce ==
  /\ once \in {"waiting", "killed"} /\ Done
  /\ once' = "over"
  /\ UNCHANGED <<start, process, input, out, receipts, err, waiter, watcher, calls, stopped, clock>>

\* Do returns to every caller once the one execution is over.
StopReturns(c) ==
  /\ c \in calls /\ once = "over"
  /\ calls' = calls \ {c} /\ stopped' = stopped \cup {c}
  /\ UNCHANGED <<start, process, input, out, receipts, err, waiter, watcher, once, clock>>

-----------------------------------------------------------------------------
Starting ==
  \/ StartRefused \/ MkdirTemp \/ SpawnFails \/ Spawn
  \/ WritePayload \/ WriteFails
  \/ AwaitGivesUp \/ AwaitDone \/ AwaitReady \/ StartFails

Reading == ReadReceipt \/ ReadEnd \/ ReadFails

Waiting == Reap \/ CloseOutput \/ Finish

Watching == Watch \/ WatchOver

Stopping ==
  \/ CloseInput \/ StopOnce
  \/ \E retained \in SUBSET Retainable : Kill(retained)
  \/ \E c \in Callers : StopReturns(c)

Environment ==
  \/ \E line \in Lines : WorkerWrites(line)
  \/ \E how \in {"exited", "failed"}, retained \in SUBSET Retainable : WorkerExits(how, retained)
  \/ Release \/ Cancel \/ Expire
  \/ \E o \in Owners : OwnerStops(o)

Next == Starting \/ Reading \/ Waiting \/ Watching \/ Stopping \/ Environment

Spec == Init /\ [][Next]_vars

\* Goroutines run and timers fire; of the worker nothing is assumed.
FairSpec ==
  /\ Spec
  /\ WF_vars(Starting) /\ WF_vars(Reading) /\ WF_vars(Waiting) /\ WF_vars(Watching)
  /\ WF_vars(CloseInput) /\ WF_vars(StopOnce)
  /\ WF_vars(\E retained \in SUBSET Retainable : Kill(retained))
  /\ \A c \in Callers : WF_vars(StopReturns(c))

-----------------------------------------------------------------------------
\* Every variable holds a value of its kind, and the goroutines exist exactly
\* when start has spawned the worker.
TypeOK ==
  /\ starter \in {"new", "dir", "writing", "awaiting", "stopping", "returned"}
  /\ result \in {"none", "session", "error"} /\ (result = "none" <=> starter # "returned")
  /\ dir \in BOOLEAN
  /\ worker \in {"none", "running", "exited", "failed"}
  /\ held \subseteq Retainable /\ (held # {} => Gone)
  /\ input \in BOOLEAN /\ out \in BOOLEAN
  /\ pipe \in Seq(Lines) /\ Len(pipe) <= written /\ written \in 0..MaxLines
  /\ reader \in {"none", "reading", "over"} /\ seen \subseteq Receipts /\ ready \in Nat
  /\ err \in {"none", "closed", "protocol", "failed"}
  /\ waiter \in {"none", "waiting", "joining", "over"}
  /\ watcher \in {"none", "watching", "stopping", "over"}
  /\ once \in {"unused", "waiting", "killed", "over"}
  /\ calls \subseteq Callers /\ stopped \subseteq Callers
  /\ cancelled \in BOOLEAN /\ expired \in BOOLEAN
  /\ worker = "none" <=> reader = "none"
  /\ worker = "none" <=> waiter = "none"
  /\ worker = "none" <=> watcher = "none"

\* readReceipts closes the channel ready once, and only after it has read
\* both the receipt of the negotiation and that of a decoded frame: a second
\* close would panic the control plane.
ReadyOnce == ready = IF seen = Receipts THEN 1 ELSE 0

\* When Start has failed, and when any call of Stop has returned, the worker
\* is gone, its directory removed and every goroutine that used it joined:
\* "Stop is idempotent and waits for this exact child".
NothingIsLeft ==
  (result = "error" \/ stopped # {}) =>
    /\ worker # "running" /\ ~dir
    /\ worker # "none" => Done /\ reader = "over" /\ ~input /\ ~out

\* The first error recorded in the session is the one every later caller of
\* Alive sees: neither the late exit status of the worker nor a closed
\* descriptor replaces what the worker reported.
ErrorIsFinal == [][err # "none" => err' = err]_vars

\* Start hands out a session only with both receipts read and no error
\* recorded, even if the worker fails between readiness and the return.
StartsWhole == [][result' = "session" /\ result = "none" => seen = Receipts /\ err = "none" /\ ~Done]_vars

\* A transport that is cancelled, expired, stopped by anyone or left by its
\* worker ends: Start returns, done is closed, and no goroutine or caller of
\* Stop is left waiting, also if the worker's standard output was retained.
\* Only a retained standard error can keep all of them, until it is released,
\* for Wait copies it to its end (start, readReceipts, Stop).
Doomed == cancelled \/ expired \/ calls # {} \/ Gone
Quiet == starter = "returned" /\ calls = {} /\ (worker # "none" => Done /\ watcher = "over")
TransportEnds == Doomed ~> (Quiet \/ "stderr" \in held)
=============================================================================
