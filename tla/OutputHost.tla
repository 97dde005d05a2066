----------------------------- MODULE OutputHost -----------------------------
(***************************************************************************)
(* One incarnation of the process that plays for the GStreamer engine, and *)
(* the parent's side of it: GStreamerHostSupervisor (deadlines, the        *)
(* termination ladder, the reader thread), GStreamerHostedAudioPort (the   *)
(* generation of the commands and the owner queue) and the provider that   *)
(* opens and closes them.  A provider that is opened again makes all of    *)
(* them anew.                                                              *)
(*                                                                         *)
(* The owner thread and workers send commands; while one waits for its     *)
(* answer it drains the owner queue, and the owner runs the Qt loop, in    *)
(* which another call may begin ("nested").  The host calls back in the    *)
(* middle of a command, or from its own loop, and the reader thread waits  *)
(* until the callback was run from the owner queue.                        *)
(*                                                                         *)
(* One kind of command moves the generation and may call back: "load",     *)
(* like stop.  A thread has one command at a time, so it stands for the    *)
(* request id.  Left out: commands that do neither, events, which the      *)
(* reader queues without waiting, malformed frames, and a host that cannot *)
(* be spawned.                                                             *)
(***************************************************************************)
EXTENDS Naturals, Sequences, FiniteSets, SequencesExt

CONSTANTS Nothing, Workers,
          Direct,     \* a Direct execution is bound
          MaxWork,    \* bound: loads, and callbacks from the host's own loop
          MaxHostFaults,  \* bound: faults
          Faults      \* the faults that may happen

FaultKinds == {"dies", "hangs", "unkillable",
               "release",  \* the executor cannot release its execution
               "slow"}  \* a callback takes longer than one side waits for it

Commanders == {"owner", "nested"} \cup Workers
Threads    == Commanders \cup {"reader"}

Ops      == {"hello", "open", "load", "close", "abandon", "retire"}
Kinds    == {"GRACEFUL", "FORCED", "EXITED_BEFORE", "REAP_PENDING"}
Outcomes == {"ok", "rejected", "lost"}

(* For which command, or for none, the host calls back.                    *)
Occasion == [by : Commanders \cup {Nothing}, op : Ops \cup {Nothing}]

ASSUME HostAssumption ==
    /\ Faults \subseteq FaultKinds
    /\ Direct \in BOOLEAN /\ MaxWork \in Nat /\ MaxHostFaults \in Nat
    /\ Workers \cap {"owner", "nested", "reader"} = {}
    /\ Nothing \notin Commanders \cup Ops \cup Kinds \cup Outcomes
    /\ Nothing \notin Occasion

VARIABLES
    provider,  \* "opening", "open", "failed" or "dropped" (no port)
    port,      \* GStreamerHostedAudioPort
    sup,       \* GStreamerHostSupervisor
    calls,     \* what each thread of the parent is doing there
    reader,    \* the loop of the reader thread
    queue,     \* the port's owner queue
    down, up,  \* the two directions of the socket
    child,     \* the host process
    history,   \* for the properties only
    used       \* what the bounds count

hostVars == <<provider, port, sup, calls, reader, queue, down, up, child, history, used>>

CallSteps == {"idle", "asked", "captured", "sent", "shutdown", "killing", "joining",
              "releasing"}
Command == [kind : {"command"}, by : Commanders, op : Ops, gen : Nat]
Reply   == [kind : {"reply"}, n : Nat, gen : Nat]
Answer  == [kind : {"answer"}, by : Commanders, ok : BOOLEAN]
Callback == [kind : {"callback"}, n : Nat, gen : Nat, release : BOOLEAN, handle : BOOLEAN]

NoCall == [op |-> Nothing, step |-> "idle", gen |-> 0, answer |-> Nothing,
           why |-> Nothing, kind |-> Nothing]
Loss == [kind |-> "lost"]

(* gen: _command_generation.  direct: the executor owns an execution.      *)
(* kind: _termination_kind.  open: the socket.                             *)
(* child.does: the callback it waits for, and for which command (by).      *)
(* child.serving: frames of the last chunk, or deferred ones, come next.   *)
HostTypeOK ==
    /\ provider \in {"opening", "open", "failed", "dropped"}
    /\ port \in [gen : Nat, closing : BOOLEAN, closed : BOOLEAN, lost : BOOLEAN,
                 direct : BOOLEAN]
    /\ sup \in [state : {"STARTING", "READY", "STOPPING", "STOPPED", "FAILED"},
                process : BOOLEAN, open : BOOLEAN, accepting : BOOLEAN,
                kind : Kinds \cup {Nothing}]
    /\ calls \in [Threads -> [op : Ops \cup {Nothing}, step : CallSteps, gen : Nat,
                              answer : Outcomes \cup {Nothing},
                              why : {"failure", "refused", "acknowledged", Nothing},
                              kind : Kinds \cup {Nothing}]]
    /\ reader \in [at : {"reading", "blocked", "retiring", "done"}, cb : Callback \cup {Nothing}]
    /\ queue \in Seq(Callback \cup {Loss})
    /\ down \in Seq(Command \cup Reply) /\ up \in Seq(Answer \cup Callback)
    /\ child \in [life : {"runs", "hangs", "immortal", "exited"}, gen : Nat, n : Nat,
                  does : Occasion \cup {Nothing},
                  chunk : Seq(Command \cup Reply), deferred : Seq(Command),
                  serving : BOOLEAN, opened : BOOLEAN, direct : BOOLEAN, quit : BOOLEAN]
    /\ history \in [reported : BOOLEAN, missed : BOOLEAN, raised : BOOLEAN]
    /\ used \in [work : Nat, faults : Nat]

(* open() has spawned the host and is about to send HELLO.                 *)
HostInit ==
    /\ provider = "opening"
    /\ port = [gen |-> 0, closing |-> FALSE, closed |-> FALSE, lost |-> FALSE,
               direct |-> Direct]
    /\ child = [life |-> "runs", gen |-> 0, n |-> 0, does |-> Nothing, chunk |-> <<>>,
                deferred |-> <<>>, serving |-> FALSE, opened |-> FALSE,
                direct |-> Direct, quit |-> FALSE]
    /\ sup = [state |-> "STARTING", process |-> TRUE, open |-> TRUE, accepting |-> TRUE,
              kind |-> Nothing]
    /\ calls = [t \in Threads |-> IF t = "owner" THEN [NoCall EXCEPT !.op = "hello",
                                                                   !.step = "captured"]
                                                 ELSE NoCall]
    /\ reader = [at |-> "reading", cb |-> Nothing]
    /\ queue = <<>> /\ down = <<>> /\ up = <<>>
    /\ history = [reported |-> FALSE, missed |-> FALSE, raised |-> FALSE]
    /\ used = [work |-> 0, faults |-> 0]

-----------------------------------------------------------------------------
(* Calls of the port.                                                      *)

At(t, step) == calls[t].step = step

(* The owner goes on when the call that its Qt loop runs has returned.     *)
Runs(t) == t = "owner" => At("nested", "idle")

(* Where a call may begin.  The Qt loop runs while the owner waits.        *)
Free(t) == /\ At(t, "idle") /\ Runs(t)
           /\ t = "nested" => At("owner", "sent") /\ calls["owner"].answer = Nothing

Become(t, call) == calls' = [calls EXCEPT ![t] = call]

HostUntouched == UNCHANGED <<queue, down, up, child, used>>

ChannelUnchanged == UNCHANGED <<reader, queue, down, up, child>>

Fault(kind) == /\ kind \in Faults /\ used.faults < MaxHostFaults
               /\ used' = [used EXCEPT !.faults = @ + 1]

Work == used.work < MaxWork /\ used' = [used EXCEPT !.work = @ + 1]

(* _load_once: the generation moves even when the port refuses the command.*)
Load(t) ==
    /\ provider = "open" /\ Free(t)
    /\ Work
    /\ port' = [port EXCEPT !.gen = @ + 1]
    /\ Become(t, [NoCall EXCEPT !.op = "load", !.step = "asked"])
    /\ ChannelUnchanged /\ UNCHANGED <<provider, sup, history>>

(* _submit: it captures the generation that is current by now, which may   *)
(* be superseded again before the command is sent.                         *)
Capture(t) ==
    /\ At(t, "asked") /\ Runs(t)
    /\ Become(t, IF port.closed \/ port.lost
                 THEN NoCall ELSE [calls[t] EXCEPT !.step = "captured", !.gen = port.gen])
    /\ ChannelUnchanged /\ UNCHANGED <<provider, port, sup, history, used>>

(* One coordinator closes the engine, not while it is closing it.          *)
Close(t) ==
    /\ t \in {"owner", "nested"} /\ provider = "open" /\ Free(t)
    /\ calls["owner"].op # "close"
    /\ IF port.closed
       THEN provider' = "dropped" /\ UNCHANGED <<port, calls>>
       ELSE /\ port' = [port EXCEPT !.closing = TRUE, !.gen = @ + 1]
            /\ Become(t, [NoCall EXCEPT !.op = "close", !.step = "shutdown"])
            /\ UNCHANGED provider
    /\ ChannelUnchanged /\ UNCHANGED <<sup, history, used>>

(* What close() does when the shutdown has returned: the executor gives up *)
(* its execution, and the port is dropped unless the host could not be     *)
(* reaped.  If the executor raises, close() does, and may be tried again.  *)
PortClosed(t) ==
    LET unreaped == calls[t].kind = "REAP_PENDING"
    IN  /\ port' = [port EXCEPT !.closed = TRUE, !.closing = FALSE, !.direct = FALSE]
        /\ provider' = IF unreaped THEN provider ELSE "dropped"
        /\ history' = [history EXCEPT !.raised = @ \/ unreaped]
        /\ UNCHANGED used

ReleaseFails ==
    /\ port.direct /\ Fault("release")
    /\ \E direct \in BOOLEAN : port' = [port EXCEPT !.closing = FALSE, !.direct = direct]
    /\ history' = [history EXCEPT !.raised = TRUE]
    /\ UNCHANGED provider

EndClose(t) ==
    /\ At(t, "releasing") /\ Runs(t)
    /\ PortClosed(t) \/ ReleaseFails
    /\ Become(t, NoCall)
    /\ ChannelUnchanged /\ UNCHANGED sup

(* How a call ends, or what its exception leads to, with p for the port:   *)
(* open() abandons a host that refused.                                    *)
Return(t, kind, p, others) ==
    LET op == calls[t].op
    IN  /\ calls' = [others EXCEPT ![t] =
                IF op = "close"
                THEN [NoCall EXCEPT !.op = "close", !.step = "releasing", !.kind = kind]
                ELSE NoCall]
        /\ reader' = IF op = "retire" THEN [reader EXCEPT !.at = "done"] ELSE reader
        /\ port' = p
        /\ provider' = IF op \in {"hello", "open", "abandon"} THEN "failed" ELSE provider
        /\ history' = [history EXCEPT
                !.missed = @ \/ (At(t, "joining") /\ reader.at = "blocked")]

GoOn(t, p, call) == Become(t, call) /\ port' = p /\ UNCHANGED <<provider, reader, history>>

Raise(t) == IF calls[t].op = "open"
            THEN GoOn(t, port, [NoCall EXCEPT !.op = "abandon", !.step = "shutdown"])
            ELSE GoOn(t, port, NoCall)

KindSoFar == IF sup.kind = Nothing THEN "EXITED_BEFORE" ELSE sup.kind

(* _terminate_process, entered: another thread may have climbed the ladder *)
(* already.  Several may be on it at once.                                 *)
Climb(t, why, p) ==
    IF sup.process
    THEN /\ sup' = [sup EXCEPT !.accepting = FALSE]
         /\ GoOn(t, p, [calls[t] EXCEPT !.step = "killing", !.why = why])
    ELSE /\ sup' = [sup EXCEPT !.state = IF @ = "STARTING" THEN "FAILED" ELSE @]
         /\ Return(t, KindSoFar, p, calls)

(* shutdown(): SHUTDOWN is sent in whatever state, without a generation.   *)
Shutdown(t) ==
    /\ At(t, "shutdown") /\ Runs(t)
    /\ IF ~sup.process THEN Return(t, KindSoFar, port, calls) /\ UNCHANGED sup
       ELSE /\ sup' = [sup EXCEPT !.state = "STOPPING"]
            /\ GoOn(t, port, IF child.life = "exited"
                             THEN [calls[t] EXCEPT !.step = "killing", !.why = "refused"]
                             ELSE [calls[t] EXCEPT !.step = "captured"])
    /\ HostUntouched

-----------------------------------------------------------------------------
(* _command.                                                               *)

(* The socket refuses when it is closed, or nobody is at its other end.    *)
Send(t) ==
    /\ At(t, "captured") /\ Runs(t)
    /\ LET call == calls[t]
           refused == call.op \in {"open", "load"} /\ sup.state # "READY"
           broken  == ~sup.open \/ child.life = "exited"
       IN  CASE refused -> Raise(t) /\ UNCHANGED <<sup, down>>
             [] ~refused /\ broken -> Climb(t, "failure", port) /\ UNCHANGED down
             [] OTHER ->
                  /\ down' = Append(down, [kind |-> "command", by |-> t, op |-> call.op,
                                           gen |-> call.gen])
                  /\ GoOn(t, port, [call EXCEPT !.step = "sent"]) /\ UNCHANGED sup
    /\ UNCHANGED <<queue, up, child, used>>

(* That the host was lost since HELLO is not an OutputHostError: open()    *)
(* then leaves the host to whoever noticed.                                *)
HelloAnswered(t) ==
    /\ sup' = [sup EXCEPT !.state = "READY"]
    /\ Become(t, IF port.lost THEN NoCall ELSE [NoCall EXCEPT !.op = "open", !.step = "captured"])
    /\ provider' = IF port.lost THEN "failed" ELSE provider
    /\ UNCHANGED <<port, reader, history>>

OpenAnswered(t) ==
    /\ provider' = "open" /\ port' = [port EXCEPT !.lost = FALSE]
    /\ Become(t, NoCall)
    /\ UNCHANGED <<sup, reader, history>>

CommandAnswered(t) ==
    /\ At(t, "sent") /\ Runs(t) /\ calls[t].answer \in {"ok", "rejected"}
    /\ LET op == calls[t].op
       IN  CASE op = "hello" -> HelloAnswered(t)
             [] op = "open" /\ calls[t].answer = "ok" -> OpenAnswered(t)
             [] op \in {"close", "abandon"} ->
                    Climb(t, IF calls[t].answer = "ok" THEN "acknowledged" ELSE "refused", port)
             [] OTHER -> Raise(t) /\ UNCHANGED sup
    /\ HostUntouched

Failed(t) ==
    /\ At(t, "sent") /\ Runs(t) /\ calls[t].answer = "lost"
    /\ CASE calls[t].op = "hello" -> Climb(t, "failure", port)
         [] calls[t].op \in {"close", "abandon"} -> Climb(t, "refused", port)
         [] OTHER -> Raise(t) /\ UNCHANGED sup
    /\ HostUntouched

(* Whether an answer to t may still come.                                  *)
Has(frames, t) == \E i \in DOMAIN frames : /\ frames[i].kind \in {"command", "answer"}
                                            /\ frames[i].by = t
Underway(t) == \/ Has(down, t) \/ Has(child.chunk, t) \/ Has(up, t)
               \/ child.does # Nothing /\ child.does.by = t
Deferred(t) == /\ Has(child.deferred, t)
               /\ child.serving \/ child.does # Nothing \/ down # <<>>

Unanswerable(t) ==
    CASE child.life = "runs"   -> ~Underway(t) /\ ~Deferred(t)
      [] child.life = "exited" -> calls[t].op \in {"close", "abandon"} /\ reader.at = "done"
      [] OTHER -> TRUE

(* _on_host_lost                                                           *)
LostPort  == [port EXCEPT !.lost = @ \/ ~port.closed]
LostQueue == IF port.closed THEN queue ELSE Append(queue, Loss)

(* _retire_wedged_host.  A host that would answer after the deadline is    *)
(* not told apart from one that hangs: nothing of it is accepted any more. *)
Timeout(t) ==
    /\ At(t, "sent") /\ Runs(t) /\ calls[t].answer = Nothing
    /\ Unanswerable(t)
    /\ Climb(t, "failure", LostPort)
    /\ queue' = LostQueue
    /\ UNCHANGED <<down, up, child, used>>

-----------------------------------------------------------------------------
(* The termination ladder.                                                 *)

(* What is left of a host that exited: nothing that it was about to do.    *)
Gone == [child EXCEPT !.life = "exited", !.does = Nothing, !.chunk = <<>>,
                      !.deferred = <<>>, !.serving = FALSE]

(* Wait, SIGTERM, SIGKILL; then the socket is closed.  A host that is      *)
(* about to exit gets the time it needs.                                   *)
Kill(t) ==
    /\ At(t, "killing") /\ Runs(t)
    /\ child.life = "runs" => ~child.quit
    /\ LET kind == CASE child.life = "exited" ->
                           IF calls[t].why = "acknowledged" THEN "GRACEFUL" ELSE "EXITED_BEFORE"
                     [] child.life = "immortal" -> "REAP_PENDING"
                     [] OTHER -> "FORCED"
       IN  Become(t, [calls[t] EXCEPT !.step = "joining", !.kind = kind])
    /\ child' = IF child.life = "immortal" THEN child ELSE Gone
    /\ sup' = [sup EXCEPT !.open = FALSE]
    /\ UNCHANGED <<provider, port, reader, queue, down, up, history, used>>

(* Mutant: the ladder is finished while the reader may still have to read. *)
JoinedAtOnce(t) == t \in Threads

(* reader.join(timeout=1.0): a reader that waits for the owner queue, or   *)
(* climbs the ladder itself, is not waited for.                            *)
Joined(t) == t = "reader" \/ reader.at # "reading"

(* Mutant: only the caller that climbed the ladder learns of its end.      *)
AbandonedSilently(call) == call

(* _finish_termination: whoever still waits is told that the host is gone. *)
Abandoned(call) == IF call.step = "sent" /\ call.answer = Nothing
                   THEN [call EXCEPT !.answer = "lost"] ELSE call

FinalState(t) == IF \/ sup.state = "STOPPED"
                    \/ /\ calls[t].why \in {"refused", "acknowledged"}
                       /\ calls[t].kind \in {"GRACEFUL", "FORCED"}
                 THEN "STOPPED" ELSE "FAILED"

Join(t) ==
    /\ At(t, "joining") /\ Runs(t) /\ Joined(t)
    /\ sup' = [sup EXCEPT !.process = FALSE, !.kind = calls[t].kind, !.state = FinalState(t)]
    /\ Return(t, calls[t].kind, port, [u \in Threads |-> Abandoned(calls[u])])
    /\ HostUntouched

-----------------------------------------------------------------------------
(* The reader thread and the owner queue.                                  *)

Replied(cb) == IF sup.open /\ child.life # "exited"
               THEN Append(down, [kind |-> "reply", n |-> cb.n, gen |-> cb.gen]) ELSE down

(* _is_allowed_close_handoff                                               *)
CloseHandoff(cb) == port.closing /\ cb.release /\ cb.handle /\ port.direct

Hears == sup.accepting /\ sup.state \notin {"STOPPED", "FAILED"}

Route ==
    /\ reader.at = "reading" /\ sup.open /\ up # <<>>
    /\ up' = Tail(up)
    /\ LET f == Head(up)
           fresh == f.kind = "callback" /\ Hears /\ (f.gen = port.gen \/ CloseHandoff(f))
           stale == f.kind = "callback" /\ Hears /\ ~fresh
       IN  /\ calls' = IF Hears /\ f.kind = "answer" /\ At(f.by, "sent")
                       THEN [calls EXCEPT ![f.by].answer =
                                IF @ # Nothing THEN @ ELSE IF f.ok THEN "ok" ELSE "rejected"]
                       ELSE calls
           /\ queue'  = IF fresh THEN Append(queue, f) ELSE queue
           /\ reader' = IF fresh THEN [at |-> "blocked", cb |-> f] ELSE reader
           /\ down'   = IF stale THEN Replied(f) ELSE down
    /\ UNCHANGED <<provider, port, sup, child, history, used>>

Unblock ==
    /\ reader.at = "blocked"
    /\ reader' = [at |-> "reading", cb |-> Nothing]
    /\ down' = Replied(reader.cb)
    /\ UNCHANGED <<provider, port, sup, calls, queue, up, child, history>>

CallbackRan     == ~Contains(queue, reader.cb) /\ UNCHANGED used /\ Unblock
ReaderGivesUp   == Contains(queue, reader.cb) /\ Fault("slow") /\ Unblock

(* _on_reader_closed                                                       *)
EndOfFile ==
    /\ reader.at = "reading"
    /\ ~sup.open \/ (child.life = "exited" /\ up = <<>>)
    /\ IF sup.state \in {"STOPPING", "STOPPED"} \/ ~sup.process
       THEN reader' = [reader EXCEPT !.at = "done"] /\ UNCHANGED <<calls, port, queue>>
            /\ UNCHANGED sup
       ELSE /\ reader' = [reader EXCEPT !.at = "retiring"]
            /\ Become("reader", [NoCall EXCEPT !.op = "retire", !.step = "killing",
                                             !.why = "failure"])
            /\ sup' = [sup EXCEPT !.accepting = FALSE]
            /\ port' = LostPort /\ queue' = LostQueue
    /\ UNCHANGED <<provider, down, up, child, history, used>>

(* Who runs the owner queue: the owner's Qt loop, or whoever waits         *)
(* (_owner_wait_tick is the hook of every wait).                           *)
Waits(t) == At(t, "sent")

(* Mutant: a wait does not run the owner queue.                            *)
DrainsAtRest(t) == t = "owner" /\ Runs(t) /\ At(t, "idle")

Drains(t) == t \in Commanders /\ Runs(t) /\ (Waits(t) \/ (t = "owner" /\ At(t, "idle")))

(* _drain_all, one work at a time: _execute_callback or _commit_host_loss. *)
(* The failure is relayed to the provider that is subscribed.              *)
Drain(t) ==
    /\ Drains(t) /\ queue # <<>>
    /\ queue' = Tail(queue)
    /\ LET work == Head(queue)
           loss == work.kind = "lost"
       IN  /\ port' = [port EXCEPT !.direct = @ /\ (loss \/ ~work.release)]
           /\ history' = [history EXCEPT
                 !.reported = @ \/ (loss /\ provider = "open"),
                 !.missed   = @ \/ (loss /\ provider = "opening")]
    /\ UNCHANGED <<provider, sup, calls, reader, down, up, child, used>>

-----------------------------------------------------------------------------
(* The host process.                                                       *)

HostUnchanged == UNCHANGED <<provider, port, sup, calls, reader, queue, history>>

Alive == child.life = "runs"

(* What is left to serve: first the chunk, then what was deferred.         *)
WithMore(c) == [c EXCEPT !.serving = c.chunk # <<>> \/ c.deferred # <<>>]

Receive ==
    /\ Alive /\ child.does = Nothing /\ ~child.serving /\ ~child.quit /\ down # <<>>
    /\ child' = [child EXCEPT !.chunk = down, !.serving = TRUE]
    /\ down' = <<>>
    /\ HostUnchanged /\ UNCHANGED <<up, used>>

Answering(by, ok) == [kind |-> "answer", by |-> by, ok |-> ok]

Calling(c, release) == [kind |-> "callback", n |-> c.n, gen |-> c.gen,
                        release |-> release, handle |-> c.direct]

Await(c, by, op) == [c EXCEPT !.does = [by |-> by, op |-> op]]

(* _route: the generation follows every frame, a late reply included.  The *)
(* engine is closed once, and its release called back, unless a managed    *)
(* backend that is closed before it raises: the host then answers with a   *)
(* fault, keeps its engine and goes on.                                    *)
Serve ==
    /\ Alive /\ child.does = Nothing /\ child.serving
    /\ LET f == IF child.chunk # <<>> THEN Head(child.chunk) ELSE Head(child.deferred)
           rest == IF child.chunk # <<>>
                   THEN [child EXCEPT !.chunk = Tail(@), !.gen = f.gen]
                   ELSE [child EXCEPT !.deferred = Tail(@), !.gen = f.gen]
           called == [rest EXCEPT !.n = @ + 1]
       IN  \/ /\ f.kind = "reply"
              /\ child' = WithMore(rest) /\ UNCHANGED up
           \/ /\ f.kind = "command" /\ f.op \in {"hello", "load"}
              /\ child' = WithMore(rest) /\ up' = Append(up, Answering(f.by, TRUE))
           \/ /\ f.kind = "command" /\ f.op = "open"
              /\ \E ok \in BOOLEAN :
                    /\ child' = WithMore([rest EXCEPT !.opened = ok])
                    /\ up' = Append(up, Answering(f.by, ok))
           \/ /\ f.kind = "command" /\ f.op = "load" /\ child.opened
              /\ child' = Await(called, f.by, f.op)
              /\ up' = Append(up, Calling(called, FALSE))
           \/ /\ f.kind = "command" /\ f.op \in {"close", "abandon"} /\ child.opened
              /\ child' = Await([called EXCEPT !.opened = FALSE], f.by, f.op)
              /\ up' = Append(up, Calling(called, TRUE))
           \/ /\ f.kind = "command" /\ f.op \in {"close", "abandon"} /\ child.opened
              /\ child' = WithMore(rest) /\ up' = Append(up, Answering(f.by, FALSE))
           \/ /\ f.kind = "command" /\ f.op \in {"close", "abandon"} /\ ~child.opened
              /\ child' = WithMore([rest EXCEPT !.quit = TRUE])
              /\ up' = Append(up, Answering(f.by, TRUE))
    /\ HostUnchanged /\ UNCHANGED <<down, used>>

(* The callback returns, or raises: the command is answered all the same.  *)
(* After a callback of its own loop the host does not look at what was     *)
(* deferred meanwhile.                                                     *)
CallbackReturned(c) ==
    LET shut == c.does.op \in {"close", "abandon"}
        back == [c EXCEPT !.does = Nothing, !.quit = @ \/ shut, !.direct = @ /\ ~shut]
    IN  IF c.does.by = Nothing THEN back ELSE WithMore(back)

AnswerAfter == IF child.does.by = Nothing THEN up
               ELSE Append(up, Answering(child.does.by, TRUE))

(* _request_callback: it takes whatever has arrived; commands are deferred *)
(* until the reply, and what follows the reply in the same chunk is lost.  *)
IsReply(f) == f.kind = "reply" /\ f.n = child.n

(* The commands of the frames before the reply, in their order.            *)
CommandsBefore(frames) ==
    LET kept    == {i \in DOMAIN frames : /\ frames[i].kind = "command"
                                          /\ \A j \in 1 .. i : ~IsReply(frames[j])}
        Rank(i) == Cardinality({j \in kept : j <= i})
    IN  [n \in 1 .. Cardinality(kept) |-> frames[CHOOSE i \in kept : Rank(i) = n]]

ReceiveWaiting ==
    /\ Alive /\ child.does # Nothing /\ down # <<>>
    /\ down' = <<>>
    /\ LET c == [child EXCEPT !.deferred = @ \o CommandsBefore(down)]
       IN  IF \E i \in DOMAIN down : IsReply(down[i])
           THEN child' = CallbackReturned(c) /\ up' = AnswerAfter
           ELSE child' = c /\ UNCHANGED up
    /\ HostUnchanged /\ UNCHANGED used

HostGivesUp ==
    /\ Alive /\ child.does # Nothing /\ Fault("slow")
    /\ child' = CallbackReturned(child) /\ up' = AnswerAfter
    /\ HostUnchanged /\ UNCHANGED down

(* _pump_qt: the engine observes its run.                                  *)
Pump ==
    /\ Alive /\ child.does = Nothing /\ ~child.serving /\ ~child.quit /\ child.opened
    /\ Work
    /\ LET c == [child EXCEPT !.n = @ + 1]
       IN  child' = Await(c, Nothing, Nothing) /\ up' = Append(up, Calling(c, FALSE))
    /\ HostUnchanged /\ UNCHANGED down

(* serve() returns, or the parent's end of the socket is gone.             *)
Exit ==
    /\ Alive
    /\ \/ child.quit /\ ~child.serving /\ child.does = Nothing
       \/ ~sup.open /\ (child.does # Nothing \/ ~child.serving)
    /\ child' = Gone
    /\ HostUnchanged /\ UNCHANGED <<down, up, used>>

Breaks ==
    /\ Alive
    /\ \E fault \in {"dies", "hangs", "unkillable"} :
          /\ Fault(fault)
          /\ child' = CASE fault = "dies"  -> Gone
                        [] fault = "hangs" -> [child EXCEPT !.life = "hangs"]
                        [] OTHER           -> [child EXCEPT !.life = "immortal"]
    /\ HostUnchanged /\ UNCHANGED <<down, up>>

-----------------------------------------------------------------------------
ThreadStep(t) == \/ Capture(t) \/ Send(t) \/ CommandAnswered(t) \/ Failed(t) \/ Timeout(t)
                 \/ Shutdown(t) \/ Kill(t) \/ Join(t) \/ EndClose(t)
                 \/ Drain(t)

HostStep == Receive \/ Serve \/ ReceiveWaiting \/ Exit

Progress == (\E t \in Threads : ThreadStep(t)) \/ Route \/ CallbackRan \/ EndOfFile \/ HostStep

Surprise == ReaderGivesUp \/ HostGivesUp \/ Breaks

HostAsk == \E t \in Commanders : Load(t) \/ Close(t)

HostNext == Progress \/ HostAsk \/ Pump \/ Surprise

(* No step undoes another, so what can go on does, in whatever order: each *)
(* thread and process that can run is scheduled, and bounded waits end.    *)
HostSpec == HostInit /\ [][HostNext]_hostVars /\ WF_hostVars(Progress)

-----------------------------------------------------------------------------
(* Properties                                                              *)

(* Once the host is given up, nobody goes on waiting for it: whoever was   *)
(* waiting was told, and whoever came too late was refused.                *)
NobodyWaitsForTheDead ==
    ~sup.process => \A t \in Commanders : ~(At(t, "sent") /\ calls[t].answer = Nothing)

(* "never leak a child": a provider that is closed, or could not be        *)
(* opened, has no process any more, except one that could not be killed,   *)
(* which close() reports.                                                  *)
NothingIsLeaked ==
    /\ provider = "dropped" /\ ~history.raised => child.life = "exited"
    /\ provider = "failed" => child.life = "exited" \/ sup.kind = "REAP_PENDING"

HostConsistent == HostTypeOK /\ NobodyWaitsForTheDead /\ NothingIsLeaked

(* No deadlock of parent and host: every call returns once no more are     *)
(* made, and it does without its deadline unless the host hangs, is being  *)
(* shut down or has mislaid the command, although host, reader thread and  *)
(* caller wait for one another ("the child can never deadlock against the  *)
(* parent").                                                               *)
CallsEnd == (\E t \in Threads : ~At(t, "idle")) ~> (\A t \in Threads : At(t, "idle"))

(* A host that is gone while its engine is in use is reported once to the  *)
(* convergence, whoever noticed first; except when a call gave up waiting  *)
(* for a reader that was itself waiting, when it went while the engine was *)
(* being opened, or when close() has ended it, with an error or without.   *)
LossIsReported ==
    (provider = "open" /\ child.life = "exited")
        ~> (history.reported \/ history.missed \/ port.closed \/ history.raised)

(* "A command arriving mid-operation must never re-enter the engine; defer *)
(* it until the current operation completes": then it is served.           *)
NoCommandIsStranded ==
    \A t \in Commanders :
        At(t, "sent") /\ calls[t].answer = Nothing /\ Alive /\ sup.accepting
            => Underway(t) \/ Deferred(t)

(* "a callback from a superseded command generation can never mutate       *)
(* parent authority", but for the handoff at close.                        *)
CallbacksAreCurrent ==
    [][\A t \in Commanders : Drain(t) /\ Head(queue).kind = "callback"
          => Head(queue).gen = port.gen \/ port.closing]_hostVars

(* "ownership released only on proven close"                               *)
ReleasedIsReaped == provider = "dropped" => sup.kind # "REAP_PENDING"

(* "the failure is published through the SAME runtime-failure seam"        *)
LossIsNeverMissed ==
    (provider = "open" /\ child.life = "exited")
        ~> (history.reported \/ port.closed \/ history.raised)
=============================================================================
