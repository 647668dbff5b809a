----------------------------- MODULE RdpProofs -----------------------------
(***************************************************************************)
(* Proofs about RdpSession for any number of owners, any descriptors that  *)
(* may be retained and any number of receipts.                             *)
(*                                                                         *)
(* The properties are not inductive: that nothing is left when Stop has    *)
(* returned rests on what the waiting goroutine has done before it closed  *)
(* done, and that the first error is final on the reader's end being the   *)
(* only source of errors. Joined and Recorded say so.                      *)
(***************************************************************************)
EXTENDS RdpSession, TLAPS

\* Where Start is, and what exists by then.
Progressed ==
  /\ starter = "new" => worker = "none" /\ ~dir
  /\ starter = "dir" => worker = "none"
  /\ starter \in {"writing", "awaiting", "stopping"} => worker # "none"
  /\ worker = "none" => /\ ~input /\ ~out
                        /\ calls = {} /\ stopped = {} /\ once = "unused"
                        /\ result # "session"
                        /\ result = "error" => ~dir

\* What the waiting goroutine has seen to before it goes on, and who waits
\* for it.
Joined ==
  /\ waiter \in {"joining", "over"} => Gone /\ ~dir /\ ~input
  /\ Done => reader = "over"
  /\ once = "over" => Done
  /\ stopped # {} => once = "over"
  /\ result = "error" /\ worker # "none" => Done

\* The reader records an error exactly when it ends.
Recorded ==
  /\ reader = "over" => err # "none" /\ ~out
  /\ err # "none" => reader = "over"

Inv == TypeOK /\ ReadyOnce /\ Progressed /\ Joined /\ Recorded

\* Before Start nothing has run.
LEMMA InitInv == Init => Inv
<1> SUFFICES ASSUME Init PROVE Inv OBVIOUS
<1> USE DEF Init
<1>1. TypeOK
  <2>1. pipe \in Seq(Lines) /\ Len(pipe) <= written /\ written \in 0..MaxLines BY LinesAssumption
  <2>2. seen \subseteq Receipts /\ calls \subseteq Callers /\ stopped \subseteq Callers /\ held \subseteq Retainable
    OBVIOUS
  <2>3. dir \in BOOLEAN /\ input \in BOOLEAN /\ out \in BOOLEAN /\ cancelled \in BOOLEAN /\ expired \in BOOLEAN BY Zenon
  <2> QED BY <2>1, <2>2, <2>3 DEF TypeOK
<1>2. ReadyOnce
  <2>1. "connected" \in Receipts BY DEF Receipts
  <2> QED BY <2>1 DEF ReadyOnce
<1>3. Progressed BY DEF Progressed
<1>4. Joined BY DEF Joined, Done
<1>5. Recorded BY DEF Recorded
<1> QED BY <1>1, <1>2, <1>3, <1>4, <1>5 DEF Inv

\* Start keeps the invariant: it spawns everything at once, or nothing.
LEMMA StartingInv == ASSUME Inv, Starting PROVE Inv'
<1> USE DEF Inv, TypeOK, ReadyOnce, Progressed, Joined, Recorded, Gone, Done, start, process, receipts, stop, clock
<1>1. CASE StartRefused BY <1>1 DEF StartRefused
<1>2. CASE MkdirTemp BY <1>2 DEF MkdirTemp
<1>3. CASE SpawnFails BY Zenon, <1>3 DEF SpawnFails
<1>4. CASE Spawn BY <1>4 DEF Spawn
<1>5. CASE WritePayload BY <1>5 DEF WritePayload
<1>6. CASE WriteFails BY <1>6 DEF WriteFails, StopsAndFails, Callers
<1>7. CASE AwaitGivesUp BY <1>7 DEF AwaitGivesUp, StopsAndFails, Callers
<1>8. CASE AwaitDone BY <1>8 DEF AwaitDone
<1>9. CASE AwaitReady BY <1>9 DEF AwaitReady, StopsAndFails, Alive, Callers
<1>10. CASE StartFails BY <1>10 DEF StartFails
<1> QED
  BY Zenon, <1>1, <1>2, <1>3, <1>4, <1>5, <1>6, <1>7, <1>8, <1>9, <1>10 DEF Starting

\* Closing a descriptor does not change a type.
LEMMA DescriptorTypes ==
  ASSUME TypeOK, input' \in BOOLEAN, out' \in BOOLEAN, dir' \in BOOLEAN,
         pipe' \in Seq(Lines), Len(pipe') <= written',
         reader' \in {"reading", "over"} \/ reader' = reader, reader = "none" => reader' = reader,
         err' \in {"none", "closed", "protocol", "failed"},
         waiter' \in {"waiting", "joining"} \/ waiter' = waiter, waiter = "none" => waiter' = waiter,
         once' \in {"unused", "waiting", "killed", "over"},
         calls' \subseteq Callers,
         UNCHANGED <<starter, result, worker, held, written, seen, ready, watcher, stopped, cancelled, expired>>
  PROVE  TypeOK'
BY DEF TypeOK, Gone

\* However the reader ends, the invariant holds with its error recorded.
LEMMA QuittingInv ==
  ASSUME Inv, reader = "reading",
         NEW e \in {"closed", "protocol", "failed"}, Quits(e),
         input' = input \/ input' = FALSE,
         pipe' \in Seq(Lines), Len(pipe') <= written, written' = written,
         UNCHANGED <<start, worker, held, waiter, watcher, clock>>
  PROVE  Inv'
<1> USE DEF Quits, start, clock
<1>1. worker # "none" BY DEF Inv, TypeOK
<1>2. calls' \subseteq Callers BY DEF Inv, TypeOK, Callers
<1>3. TypeOK'
  <2>1. TypeOK /\ input' \in BOOLEAN /\ out' \in BOOLEAN BY Zenon DEF Inv, TypeOK
  <2>2. err' \in {"none", "closed", "protocol", "failed"} /\ once' \in {"unused", "waiting", "killed", "over"}
    BY DEF Inv, TypeOK
  <2> QED BY Zenon, <1>2, <2>1, <2>2, DescriptorTypes DEF TypeOK
<1>4. ReadyOnce' BY DEF Inv, ReadyOnce
<1>5. Progressed' BY <1>1 DEF Inv, Progressed
<1>6. Joined' BY DEF Inv, Joined, Gone, Done
<1>7. Recorded' BY DEF Inv, Recorded
<1> QED BY Zenon, <1>3, <1>4, <1>5, <1>6, <1>7 DEF Inv

\* So does every step of the receipt reader.
LEMMA ReadingInv == ASSUME Inv, Reading PROVE Inv'
<1>1. CASE ReadReceipt
  <2> DEFINE line == Head(pipe)
  <2>1. reader = "reading" /\ UNCHANGED <<start, worker, held, waiter, watcher, clock>> /\ written' = written
    BY <1>1 DEF ReadReceipt
  <2>2. pipe' \in Seq(Lines) /\ Len(pipe') <= written BY <1>1 DEF ReadReceipt, Inv, TypeOK
  <2>3. CASE Quits("failed") /\ UNCHANGED input BY <2>1, <2>2, <2>3, QuittingInv
  <2>4. CASE Quits("protocol") /\ input' = FALSE BY Zenon, <2>1, <2>2, <2>4, QuittingInv
  <2>5. CASE line \in Receipts /\ ~Repeated(line) /\ Accepts(line)
    <3> USE DEF Accepts, start, stop, clock
    <3>1. seen' \subseteq Receipts /\ ready = 0 /\ (ready' = IF seen' = Receipts THEN 1 ELSE 0)
      BY <2>5 DEF Repeated, Inv, TypeOK, ReadyOnce
    <3>2. TypeOK' BY <2>1, <2>2, <2>5, <3>1 DEF Inv, TypeOK, Gone
    <3>3. ReadyOnce' BY <3>1 DEF ReadyOnce
    <3>4. Progressed' BY <2>1, <2>5 DEF Inv, Progressed
    <3>5. Joined' BY <2>1, <2>5 DEF Inv, Joined, Gone, Done
    <3>6. Recorded' BY <2>1, <2>5 DEF Inv, Recorded
    <3> QED BY Zenon, <3>2, <3>3, <3>4, <3>5, <3>6 DEF Inv
  <2> QED BY Zenon, <1>1, <2>3, <2>4, <2>5 DEF ReadReceipt
<1>2. CASE ReadEnd
  <2>1. pipe' \in Seq(Lines) /\ Len(pipe') <= written /\ written' = written
    BY <1>2 DEF ReadEnd, process, Inv, TypeOK
  <2> QED BY Zenon, <1>2, <2>1, QuittingInv DEF ReadEnd, process
<1>3. CASE ReadFails
  <2>1. pipe' \in Seq(Lines) /\ Len(pipe') <= written /\ written' = written
    BY <1>3 DEF ReadFails, process, Inv, TypeOK
  <2> QED BY Zenon, <1>3, <2>1, QuittingInv DEF ReadFails, process
<1> QED BY Zenon, <1>1, <1>2, <1>3 DEF Reading

\* So do the waiter's steps: it joins the reader before it closes done.
LEMMA WaitingInv == ASSUME Inv, Waiting PROVE Inv'
<1> USE DEF Inv, TypeOK, ReadyOnce, Progressed, Joined, Recorded, Gone, Done, start, process, receipts, stop, clock
<1>1. CASE Reap
  <2>1. worker # "none" BY <1>1 DEF Reap
  <2>2. TypeOK'
    <3>1. TypeOK /\ input' \in BOOLEAN /\ dir' \in BOOLEAN BY Zenon, <1>1 DEF Reap
    <3> QED BY Zenon, <1>1, <3>1, DescriptorTypes DEF Reap
  <2>3. ReadyOnce' /\ Recorded' BY <1>1 DEF Reap
  <2>4. Progressed' BY <1>1, <2>1 DEF Reap
  <2>5. Joined' BY <1>1 DEF Reap
  <2> QED BY Zenon, <2>2, <2>3, <2>4, <2>5
<1>2. CASE CloseOutput
  <2>1. TypeOK' BY Zenon, <1>2 DEF CloseOutput
  <2>2. ReadyOnce' /\ Progressed' BY <1>2 DEF CloseOutput
  <2>3. Joined' /\ Recorded' BY <1>2 DEF CloseOutput
  <2> QED BY Zenon, <2>1, <2>2, <2>3
<1>3. CASE Finish BY <1>3 DEF Finish, FirstError
<1> QED BY Zenon, <1>1, <1>2, <1>3 DEF Waiting

\* So does the watcher of the context.
LEMMA WatchingInv == ASSUME Inv, Watching PROVE Inv'
<1> USE DEF Inv, TypeOK, ReadyOnce, Progressed, Joined, Recorded, Gone, Done, start, process, receipts, stop, clock
<1>1. CASE Watch BY <1>1 DEF Watch, Callers
<1>2. CASE WatchOver BY <1>2 DEF WatchOver
<1> QED BY Zenon, <1>1, <1>2 DEF Watching

\* So does closing the worker's input, once.
LEMMA CloseInputInv == ASSUME Inv, CloseInput PROVE Inv'
<1> USE DEF CloseInput, start, process, receipts, clock
<1>1. worker # "none" BY DEF Inv, Progressed
<1>2. TypeOK'
  <2>1. TypeOK /\ input' \in BOOLEAN BY Zenon DEF Inv
  <2> QED BY Zenon, <2>1, DescriptorTypes DEF TypeOK
<1>3. ReadyOnce' BY DEF Inv, ReadyOnce
<1>4. Progressed' BY <1>1 DEF Inv, Progressed
<1>5. Joined' BY DEF Inv, Joined, Gone, Done
<1>6. Recorded' BY DEF Inv, Recorded
<1> QED BY Zenon, <1>2, <1>3, <1>4, <1>5, <1>6 DEF Inv

\* So does every caller of Stop.
LEMMA StoppingInv == ASSUME Inv, Stopping PROVE Inv'
<1> USE DEF Inv, TypeOK, ReadyOnce, Progressed, Joined, Recorded, Gone, Done, start, process, receipts, stop, clock
<1>2. CASE StopOnce BY <1>2 DEF StopOnce
<1>3. ASSUME NEW retained \in SUBSET Retainable, Kill(retained) PROVE Inv'
  BY <1>3 DEF Kill, Ends
<1>4. ASSUME NEW c \in Callers, StopReturns(c) PROVE Inv'
  BY <1>4 DEF StopReturns
<1> QED BY Zenon, CloseInputInv, <1>2, <1>3, <1>4 DEF Stopping

\* So does whatever the worker process and its descendants do.
LEMMA EnvironmentInv == ASSUME Inv, Environment PROVE Inv'
<1>1. ASSUME NEW line \in Lines, WorkerWrites(line) PROVE Inv'
  <2>1. /\ pipe' = Append(pipe, line) /\ written' = written + 1 /\ written < MaxLines
        /\ UNCHANGED <<starter, result, dir, worker, held, input, out, reader, seen, ready, err>>
        /\ UNCHANGED <<waiter, watcher, once, calls, stopped, cancelled, expired>>
    BY Zenon, <1>1 DEF WorkerWrites, start, receipts, stop, clock
  <2>2. pipe \in Seq(Lines) /\ Len(pipe) <= written /\ written \in 0..MaxLines
    BY Zenon DEF Inv, TypeOK
  <2>3. pipe' \in Seq(Lines) /\ Len(pipe') <= written' /\ written' \in 0..MaxLines
    BY <2>1, <2>2, LinesAssumption
  <2>4. TypeOK' BY <2>1, <2>3 DEF Inv, TypeOK, Gone
  <2>5. ReadyOnce' /\ Recorded' BY Zenon, <2>1 DEF Inv, ReadyOnce, Recorded
  <2>6. Progressed' BY Zenon, <2>1 DEF Inv, Progressed
  <2>7. Joined' BY Zenon, <2>1 DEF Inv, Joined, Gone, Done
  <2> QED BY Zenon, <2>4, <2>5, <2>6, <2>7 DEF Inv
<1> USE DEF Inv, TypeOK, ReadyOnce, Progressed, Joined, Recorded, Gone, Done, start, process, receipts, stop, clock
<1>2. ASSUME NEW how \in {"exited", "failed"}, NEW retained \in SUBSET Retainable, WorkerExits(how, retained) PROVE Inv'
  BY <1>2 DEF WorkerExits, Ends
<1>3. CASE Release BY <1>3 DEF Release
<1>4. CASE Cancel BY <1>4 DEF Cancel
<1>5. CASE Expire BY <1>5 DEF Expire
<1>6. ASSUME NEW o \in Owners, OwnerStops(o) PROVE Inv'
  BY <1>6 DEF OwnerStops, Callers
<1> QED BY Zenon, <1>1, <1>2, <1>3, <1>4, <1>5, <1>6 DEF Environment

\* A step that changes nothing keeps it.
LEMMA StutterInv == ASSUME Inv, UNCHANGED vars PROVE Inv'
BY DEF vars, Inv, TypeOK, ReadyOnce, Progressed, Joined, Recorded, Gone, Done, start, process, receipts, stop, clock

\* The inductive invariant holds in every behaviour.
THEOREM Invariance == Spec => []Inv
<1>1. ASSUME Inv, [Next]_vars PROVE Inv'
  BY Zenon, <1>1, StartingInv, ReadingInv, WaitingInv, WatchingInv, StoppingInv, EnvironmentInv, StutterInv DEF Next
<1> QED BY <1>1, InitInv, PTL DEF Spec

\* Every variable keeps its type.
THEOREM TypeCorrect == Spec => []TypeOK
<1>1. Inv => TypeOK BY DEF Inv
<1> QED BY <1>1, Invariance, PTL

\* readReceipts closes ready once, after both receipts.
THEOREM ReadyClosedOnce == Spec => []ReadyOnce
<1>1. Inv => ReadyOnce BY DEF Inv
<1> QED BY <1>1, Invariance, PTL

\* A failed Start and a returned Stop leave no worker, directory, descriptor
\* or reader behind.
THEOREM StopWaits == Spec => []NothingIsLeft
<1>1. Inv => NothingIsLeft
  BY DEF Inv, NothingIsLeft, TypeOK, Progressed, Joined, Recorded, Gone, Done
<1> QED BY <1>1, Invariance, PTL

\* No step replaces an error that has been recorded.
LEMMA ErrorKept == ASSUME Inv, Next PROVE err # "none" => err' = err
<1> SUFFICES ASSUME err # "none" PROVE err' = err OBVIOUS
<1>1. reader = "over" BY DEF Inv, Recorded
<1>2. CASE Starting
  BY <1>2 DEF Starting, StartRefused, MkdirTemp, SpawnFails, Spawn, WritePayload, WriteFails, AwaitGivesUp,
    AwaitDone, AwaitReady, StartFails, StopsAndFails
<1>3. CASE Reading BY <1>1, <1>3 DEF Reading, ReadReceipt, ReadEnd, ReadFails
<1>4. CASE Waiting BY <1>4 DEF Waiting, Reap, CloseOutput, Finish, FirstError
<1>5. CASE Watching BY <1>5 DEF Watching, Watch, WatchOver
<1>6. CASE Stopping BY <1>6 DEF Stopping, CloseInput, StopOnce, Kill, StopReturns
<1>7. CASE Environment
  BY <1>7 DEF Environment, WorkerWrites, WorkerExits, Release, Cancel, Expire, OwnerStops
<1> QED BY Zenon, <1>2, <1>3, <1>4, <1>5, <1>6, <1>7 DEF Next

\* The first error recorded in a session is never replaced.
THEOREM FirstErrorStays == Spec => ErrorIsFinal
<1>1. ASSUME Inv, [Next]_vars PROVE [err # "none" => err' = err]_vars
  BY Zenon, <1>1, ErrorKept
<1> QED BY <1>1, Invariance, PTL DEF Spec, ErrorIsFinal

\* When Start returns a session, both receipts were read and no error was recorded.
LEMMA StartedWhole ==
  ASSUME Inv, Next, result' = "session", result = "none"
  PROVE  seen = Receipts /\ err = "none" /\ ~Done
<1>1. CASE Starting
  <2>1. AwaitReady /\ Alive
    BY <1>1 DEF Starting, StartRefused, MkdirTemp, SpawnFails, Spawn, WritePayload, WriteFails, AwaitGivesUp,
      AwaitDone, AwaitReady, StartFails, StopsAndFails
  <2> QED BY <2>1 DEF AwaitReady, Alive, Inv, ReadyOnce
<1>2. CASE Reading BY <1>2 DEF Reading, ReadReceipt, ReadEnd, ReadFails, start
<1>3. CASE Waiting BY <1>3 DEF Waiting, Reap, CloseOutput, Finish, start
<1>4. CASE Watching BY <1>4 DEF Watching, Watch, WatchOver, start
<1>5. CASE Stopping BY <1>5 DEF Stopping, CloseInput, StopOnce, Kill, StopReturns, start
<1>6. CASE Environment
  BY <1>6 DEF Environment, WorkerWrites, WorkerExits, Release, Cancel, Expire, OwnerStops, start
<1> QED BY Zenon, <1>1, <1>2, <1>3, <1>4, <1>5, <1>6 DEF Next

\* Start returns a session only with both receipts read and no error.
THEOREM SessionsStartWhole == Spec => StartsWhole
<1>1. ASSUME Inv, [Next]_vars
      PROVE  [result' = "session" /\ result = "none" => seen = Receipts /\ err = "none" /\ ~Done]_vars
  BY Zenon, <1>1, StartedWhole
<1> QED BY <1>1, Invariance, PTL DEF Spec, StartsWhole
=============================================================================
