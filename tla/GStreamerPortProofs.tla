------------------------- MODULE GStreamerPortProofs -------------------------
(***************************************************************************)
(* Proofs about GStreamerPort, for any number of loads, faults, queued     *)
(* events and nested callbacks, and for any of its faults.                 *)
(***************************************************************************)
EXTENDS GStreamerPort, SequenceTheorems, TLAPS

-----------------------------------------------------------------------------
(* The inductive invariant                                                 *)

(* A load that is about to arm its pipeline, not overtaken by a callback.  *)
Arming(f) == f.rest = "arm" /\ f.live
IsArming == stack # <<>> /\ Arming(stack[1])

(* Only the innermost handler may be one, and the port has no pipeline     *)
(* until it goes on.                                                       *)
ArmingInv ==
    /\ \A i \in 2..Len(stack) : ~Arming(stack[i])
    /\ IsArming => port.pipe = None /\ ~port.closed

(* Without a generation nothing is heard but the death of the pump.        *)
EventsInv == \A i \in 1..Len(queue) : queue[i].gen = None => queue[i].kind = "DIED"

(* A hold that runs, a replay, and a source that ended under a hold are    *)
(* those of what is loaded, until the next load goes on.                   *)
HoldInv ==
    /\ port.hold \in {"armed", "due", "over"} => IsArming \/ (port.direct /\ port.current # None)
    /\ port.replay => IsArming \/ port.current # None
    /\ port.eos /\ port.hold # "none" => port.current # None

Inv == TypeOK /\ OneTransport /\ ArmingInv /\ EventsInv /\ HoldInv

(* What was loaded so far: a pipeline that is about to be armed is new.    *)
LoadsInv ==
    /\ residual \subseteq 1..loads /\ late.watch \in 0..loads
    /\ port.watch \in 0..loads
    /\ \A i \in 1..Len(stack) : stack[i].rest = "arm" => stack[i].load <= loads
    /\ IsArming => stack[1].load \notin residual \cup {late.watch}

(* A command that outlived its caller is the only one the pump has, and    *)
(* one that attaches has no port that knows of its watch.                  *)
LateInv ==
    /\ late # Idle => pumping = "alive"
    /\ late.does = "attach" => port.watch = None
    /\ port.watch \notin residual

(* A port that is being closed has nothing under way.                      *)
ClosingInv ==
    /\ port.closing => port.pending = None /\ ~port.replay
    /\ IsArming => port.watch = None /\ ~port.closing

WatchInv == NoWatchIsLost /\ ClosedIsEmpty /\ LoadsInv /\ LateInv /\ ClosingInv

(* What the words about a load rest on: no load has one before it began,   *)
FreshInv ==
    /\ \A n \in Loads : n > loads => answer[n] = "none"
    /\ {port.gen, port.pipe} \subseteq 0..loads
    /\ \A i \in 1..Len(stack) : stack[i].load <= loads
    /\ IsArming => answer[stack[1].load] = "none" /\ port.state = "STOPPED"

(* a candidate has had none, and is the generation and the pipeline,       *)
PendingInv ==
    port.pending # None =>
      /\ port.pending = port.gen /\ port.current = None
      /\ port.state = "STOPPED" /\ ~port.eos
      /\ answer[port.pending] = "none"
      /\ IF IsArming THEN ~stack[1].calls ELSE port.pipe = port.pending

(* what is loaded was accepted, and has not ended since it last started,   *)
CurrentInv ==
    port.current # None =>
      /\ port.current = port.gen /\ port.current = port.pipe
      /\ answer[port.current] \in {"accepted", "ended"}
      /\ ~port.eos => answer[port.current] = "accepted"

GenerationInv ==
    port.gen # None =>
      /\ port.pipe # None => port.gen = port.pipe
      /\ answer[port.gen] = "none" => port.pending = port.gen

(* and one end at most is still to be told.                                *)
HandlersInv ==
    \A i \in 1..Len(stack) :
      /\ stack[i].rest # "arm" => i = Len(stack)
      /\ stack[i].rest # "arm" /\ stack[i].load = port.gen /\ port.current # None /\ port.eos =>
           stack[i].rest = "ended" /\ answer[port.gen] = "accepted"

WordsInv == FreshInv /\ PendingInv /\ CurrentInv /\ GenerationInv /\ HandlersInv

-----------------------------------------------------------------------------
(* The operators on the port                                               *)

Port == [gen : LoadOrNone, pending : LoadOrNone, current : LoadOrNone, pipe : LoadOrNone,
         watch : LoadOrNone, play : BOOLEAN, eos : BOOLEAN, replay : BOOLEAN,
         direct : BOOLEAN, closing : BOOLEAN, closed : BOOLEAN,
         deferred : SUBSET {"PLAYING", "EOS"}, state : {"PLAYING", "PAUSED", "STOPPED"},
         hold : {"none", "wanted", "armed", "due", "over"}]
Pipelines == [Loads -> [at : {"NULL", "READY", "PAUSED", "PLAYING", "ENDED"},
                        to : {"NULL", "PAUSED", "PLAYING"}]]
LateCommands == [does : {"attach", "detach"}, watch : Loads]

(* The two ports own the same: only the transport of the load differs.     *)
SameOwner(p, q) ==
    /\ q.gen = p.gen /\ q.pending = p.pending /\ q.current = p.current
    /\ q.pipe = p.pipe /\ q.watch = p.watch
    /\ q.closing = p.closing /\ q.closed = p.closed

LEMMA InvalidatedFacts ==
    ASSUME NEW p \in Port
    PROVE  /\ Invalidated(p) \in Port
           /\ Invalidated(p).gen = None /\ Invalidated(p).hold = "none"
           /\ ~Invalidated(p).replay
           /\ Invalidated(p).pending = p.pending /\ Invalidated(p).current = p.current
           /\ Invalidated(p).pipe = p.pipe /\ Invalidated(p).watch = p.watch
           /\ Invalidated(p).eos = p.eos /\ Invalidated(p).state = p.state
           /\ Invalidated(p).closing = p.closing /\ Invalidated(p).closed = p.closed
BY DEF Invalidated, Port, LoadOrNone, None

LEMMA ClearedFacts ==
    ASSUME NEW p \in Port
    PROVE  /\ Cleared(p) \in Port
           /\ Cleared(p).gen = None /\ Cleared(p).hold = "none"
           /\ ~Cleared(p).replay /\ ~Cleared(p).eos
           /\ Cleared(p).pending = None /\ Cleared(p).current = None
           /\ Cleared(p).pipe = p.pipe /\ Cleared(p).watch = p.watch
           /\ Cleared(p).state = p.state
           /\ Cleared(p).closing = p.closing /\ Cleared(p).closed = p.closed
<1> DEFINE q == Invalidated(p)
<1>1. q \in Port
    BY InvalidatedFacts
<1> HIDE DEF q
<1>2. Cleared(p) = [q EXCEPT !.pending = None, !.current = None, !.play = FALSE,
                             !.eos = FALSE, !.direct = FALSE]
    BY DEF Cleared, q
<1>3. /\ Cleared(p) \in Port
      /\ Cleared(p).gen = q.gen /\ Cleared(p).hold = q.hold /\ Cleared(p).replay = q.replay
      /\ ~Cleared(p).eos /\ Cleared(p).pending = None /\ Cleared(p).current = None
      /\ Cleared(p).pipe = q.pipe /\ Cleared(p).watch = q.watch /\ Cleared(p).state = q.state
      /\ Cleared(p).closing = q.closing /\ Cleared(p).closed = q.closed
    BY <1>1, <1>2 DEF Port, LoadOrNone, None
<1> QED
    BY <1>3, InvalidatedFacts DEF q

LEMMA RetiredFacts ==
    ASSUME NEW p \in Port
    PROVE  /\ Retired(p) \in Port /\ SameOwner(p, Retired(p))
           /\ Retired(p).hold = IF p.hold = "none" THEN "none" ELSE "wanted"
           /\ ~Retired(p).replay
           /\ Retired(p).eos = p.eos /\ Retired(p).state = p.state
BY DEF Retired, Port, SameOwner

LEMMA ReleasedFacts ==
    ASSUME NEW p \in Port
    PROVE  /\ Released(p) \in Port
           /\ Released(p).pipe = None
           /\ Released(p).watch = IF p.pipe = None THEN p.watch ELSE None
           /\ Released(p).gen = p.gen /\ Released(p).pending = p.pending
           /\ Released(p).current = p.current /\ Released(p).hold = p.hold
           /\ Released(p).replay = p.replay /\ Released(p).eos = p.eos
           /\ Released(p).state = p.state
           /\ Released(p).closing = p.closing /\ Released(p).closed = p.closed
BY DEF Released, Port, LoadOrNone, None

LEMMA HoldFacts ==
    ASSUME NEW p \in Port
    PROVE  /\ HoldOver(p) \in Port /\ HoldArmed(p) \in Port
           /\ SameOwner(p, HoldOver(p)) /\ SameOwner(p, HoldArmed(p))
           /\ HoldOver(p).hold = IF p.hold = "due" THEN "over" ELSE p.hold
           /\ HoldArmed(p).hold = IF p.hold = "wanted" /\ p.direct THEN "armed" ELSE p.hold
           /\ HoldOver(p).direct = p.direct /\ HoldArmed(p).direct = p.direct
           /\ HoldOver(p).replay = p.replay /\ HoldArmed(p).replay = p.replay
           /\ HoldOver(p).eos = p.eos /\ HoldArmed(p).eos = p.eos
           /\ HoldOver(p).state = p.state /\ HoldArmed(p).state = p.state
BY DEF HoldOver, HoldArmed, Port, SameOwner

(* The candidate of a load that goes on.                                   *)
LEMMA CandidateFacts ==
    ASSUME port \in Port, NEW f \in Frame
    PROVE  /\ Candidate(f) \in Port
           /\ Candidate(f).gen = f.load /\ Candidate(f).pending = f.load
           /\ Candidate(f).current = None /\ ~Candidate(f).eos /\ ~Candidate(f).replay
           /\ Candidate(f).hold \in {"wanted", "none"}
           /\ Candidate(f).pipe = port.pipe /\ Candidate(f).watch = port.watch
           /\ Candidate(f).state = port.state
           /\ Candidate(f).closing = port.closing /\ Candidate(f).closed = port.closed
<1> DEFINE q == Invalidated(port)
<1>1. q \in Port /\ f.load \in Loads /\ f.held \in BOOLEAN
    BY InvalidatedFacts DEF Frame
<1> HIDE DEF q
<1>2. Candidate(f) = [q EXCEPT !.gen = f.load, !.pending = f.load, !.current = None, !.eos = FALSE,
                               !.play = FALSE, !.hold = IF f.held THEN "wanted" ELSE "none"]
    BY DEF Candidate, q
<1>3. /\ Candidate(f) \in Port
      /\ Candidate(f).gen = f.load /\ Candidate(f).pending = f.load
      /\ Candidate(f).current = None /\ ~Candidate(f).eos /\ Candidate(f).replay = q.replay
      /\ Candidate(f).hold \in {"wanted", "none"}
      /\ Candidate(f).pipe = q.pipe /\ Candidate(f).watch = q.watch
      /\ Candidate(f).state = q.state
      /\ Candidate(f).closing = q.closing /\ Candidate(f).closed = q.closed
    BY <1>1, <1>2 DEF Port, LoadOrNone, None
<1> QED
    BY <1>3, InvalidatedFacts DEF q

-----------------------------------------------------------------------------
(* The pipelines                                                           *)

(* No pipeline is to make a sound.                                         *)
Silent == \A n \in Loads : gst[n].to = "NULL"

(* No pipeline but the port's own is asked for anything else.              *)
OnlyOwnAsked == \A n \in Loads : n # port.pipe => gst'[n].to = gst[n].to

LEMMA AskedFacts ==
    ASSUME port \in Port, gst \in Pipelines, NEW to \in {"NULL", "PAUSED", "PLAYING"}
    PROVE  /\ Asked(to) \in Pipelines
           /\ \A n \in Loads : Asked(to)[n].to = IF n = port.pipe THEN to ELSE gst[n].to
BY DEF Asked, Pipelines, Port

LEMMA AskedAgain ==
    ASSUME port \in Port, gst \in Pipelines, NEW to \in {"NULL", "PAUSED", "PLAYING"},
           gst' = [Asked("NULL") EXCEPT ![port.pipe].to = to]
    PROVE  gst' \in Pipelines /\ OnlyOwnAsked
<1>1. Asked("NULL") \in Pipelines
    BY AskedFacts
<1>2. /\ gst' \in Pipelines
      /\ \A n \in Loads : n # port.pipe => gst'[n].to = Asked("NULL")[n].to
    BY <1>1 DEF Pipelines
<1> QED
    BY <1>2, AskedFacts DEF OnlyOwnAsked

LEMMA AcceptsFacts ==
    ASSUME port \in Port, gst \in Pipelines, NEW to \in {"NULL", "PAUSED", "PLAYING"},
           gst' = Asked(to)
    PROVE  /\ gst' \in Pipelines /\ OnlyOwnAsked
           /\ to = "NULL" /\ OneTransport => Silent'
<1>1. /\ Asked(to) \in Pipelines
      /\ \A n \in Loads : Asked(to)[n].to = IF n = port.pipe THEN to ELSE gst[n].to
    BY AskedFacts
<1> QED
    BY <1>1 DEF OnlyOwnAsked, Silent, OneTransport

LEMMA FaultyFacts ==
    ASSUME TypeOK, NEW k, Faulty(k)
    PROVE  faults' \in 0..MaxFaults
BY BoundsAssumption DEF TypeOK, Faulty

LEMMA FaultyTwiceFacts ==
    ASSUME TypeOK, NEW k, NEW l, FaultyTwice(k, l)
    PROVE  faults' \in 0..MaxFaults
BY BoundsAssumption DEF TypeOK, FaultyTwice

(* Whatever happens to the port, silence has one owner at most.            *)
LEMMA OwnTransport ==
    ASSUME OneTransport, OnlyOwnAsked, port'.pipe = port.pipe
    PROVE  OneTransport'
BY DEF OneTransport, OnlyOwnAsked

LEMMA SilentTransport ==
    ASSUME Silent'
    PROVE  OneTransport'
BY DEF OneTransport, Silent

LEMMA StopsFacts ==
    ASSUME TypeOK, OneTransport, Stops
    PROVE  /\ gst' \in Pipelines /\ Silent'
           /\ natively' \subseteq natively
           /\ late' = late /\ faults' = faults
<1>1. port \in Port /\ gst \in Pipelines
    BY DEF TypeOK, Port, Pipelines
<1>2. CASE port.pipe = None
    BY <1>1, <1>2 DEF Stops, OneTransport, Silent, Loads, None
<1>3. CASE port.pipe # None
    BY <1>1, <1>3, AcceptsFacts DEF Stops
<1> QED
    BY <1>2, <1>3

LEMMA DoesNotStopFacts ==
    ASSUME TypeOK, DoesNotStop
    PROVE  port.pipe # None /\ gst' = gst /\ natively' = natively /\ late' = late
           /\ faults' \in 0..MaxFaults
BY FaultyFacts DEF DoesNotStop, Refuses

LEMMA StaysWatchedFacts ==
    ASSUME TypeOK, OneTransport, StaysWatched
    PROVE  /\ port.pipe # None /\ port.watch # None
           /\ gst' \in Pipelines /\ Silent' /\ natively' = natively
           /\ \/ late' = late
              \/ PumpAnswers /\ late' = [does |-> "detach", watch |-> port.watch]
           /\ late' = Idle \/ late' \in LateCommands
           /\ faults' \in 0..MaxFaults
<1>1. port \in Port /\ gst \in Pipelines /\ faults \in 0..MaxFaults
    BY DEF TypeOK, Port, Pipelines
<1>2. gst' \in Pipelines /\ Silent'
    BY <1>1, AcceptsFacts DEF StaysWatched
<1>3. faults' \in 0..MaxFaults
    BY <1>1, FaultyFacts DEF StaysWatched
<1>4. port.watch # None => port.watch \in Loads
    BY <1>1 DEF Port, LoadOrNone
<1>5. late = Idle \/ late \in LateCommands
    BY DEF TypeOK, LateCommands
<1> QED
    BY <1>2, <1>3, <1>4, <1>5 DEF StaysWatched, LateCommands

(* The watch of the port stays, for good or until the pump gets to it.     *)
WatchStays ==
    /\ port.watch # None /\ natively' = natively
    /\ \/ late' = late
       \/ PumpAnswers /\ late' = [does |-> "detach", watch |-> port.watch]

LEMMA KeepsWatchFacts ==
    ASSUME TypeOK, NEW k, NEW w \in Loads, KeepsWatch(k, w)
    PROVE  /\ late' = late \/ late' = [does |-> "detach", watch |-> w]
           /\ late' = Idle \/ late' \in LateCommands
           /\ faults' \in 0..MaxFaults
BY FaultyTwiceFacts DEF KeepsWatch, TypeOK, LateCommands

LEMMA GivenUpFacts ==
    ASSUME TypeOK, OneTransport, NEW k, NEW p, GivenUp(k, p)
    PROVE  /\ gst' \in Pipelines /\ OneTransport' /\ natively' \subseteq natively
           /\ late' = Idle \/ late' \in LateCommands
           /\ faults' \in 0..MaxFaults
           /\ \/ /\ port' = Released(p) /\ natively' = natively \ {port.watch}
                 /\ late' = late
              \/ /\ port' = p /\ natively' = natively
                 /\ late' = late \/ WatchStays
<1>1. /\ port \in Port /\ gst \in Pipelines /\ (late = Idle \/ late \in LateCommands)
    BY DEF TypeOK, Port, Pipelines, LateCommands
<1>2. gst' \in Pipelines /\ OneTransport'
    BY <1>1, AcceptsFacts, SilentTransport DEF GivenUp
<1>3. CASE /\ Faulty(k) /\ UNCHANGED late
           /\ IF WatchFreed
              THEN port' = Released(p) /\ natively' = natively \ {port.watch}
              ELSE port' = p /\ UNCHANGED natively
    BY <1>1, <1>2, <1>3, FaultyFacts
<1>4. CASE /\ port.watch # None /\ PumpAnswers /\ KeepsWatch(k, port.watch)
           /\ port' = p /\ UNCHANGED natively
    <2>1. port.watch \in Loads
        BY <1>1, <1>4 DEF Port, LoadOrNone
    <2> QED
        BY <1>2, <1>4, <2>1, KeepsWatchFacts DEF WatchStays
<1> QED
    BY <1>3, <1>4 DEF GivenUp

-----------------------------------------------------------------------------
(* The stack                                                               *)

LEMMA OvertakenFacts ==
    ASSUME TypeOK
    PROVE  /\ Overtaken \in Seq(Frame)
           /\ Len(Overtaken) = Len(stack)
           /\ \A i \in 1..Len(stack) : /\ ~Arming(Overtaken[i])
                                       /\ Overtaken[i].rest = stack[i].rest
                                       /\ Overtaken[i].load = stack[i].load
<1>1. stack \in Seq(Frame) /\ Len(stack) \in Nat
    BY LenProperties DEF TypeOK
<1>2. \A i \in 1..Len(stack) : stack[i] \in Frame
    BY <1>1, ElementOfSeq
<1>3. \A i \in 1..Len(stack) :
        /\ [stack[i] EXCEPT !.live = FALSE] \in Frame
        /\ ~[stack[i] EXCEPT !.live = FALSE].live
        /\ [stack[i] EXCEPT !.live = FALSE].rest = stack[i].rest
        /\ [stack[i] EXCEPT !.live = FALSE].load = stack[i].load
    BY <1>2 DEF Frame
<1>4. Overtaken \in [1..Len(stack) -> Frame]
    BY <1>3 DEF Overtaken
<1>5. Overtaken \in Seq(Frame) /\ Len(Overtaken) = Len(stack)
    BY <1>1, <1>4, IsASeq, LenProperties
<1> QED
    BY <1>3, <1>5 DEF Overtaken, Arming

LEMMA PushFacts ==
    ASSUME NEW s \in Seq(Frame), NEW f \in Frame
    PROVE  /\ <<f>> \o s \in Seq(Frame)
           /\ <<f>> \o s # <<>>
           /\ Len(<<f>> \o s) = Len(s) + 1
           /\ (<<f>> \o s)[1] = f
           /\ \A i \in 2..Len(s) + 1 : i - 1 \in 1..Len(s) /\ (<<f>> \o s)[i] = s[i - 1]
<1>1. <<f>> \in Seq(Frame) /\ Len(<<f>>) = 1 /\ <<f>>[1] = f
    OBVIOUS
<1>2. Len(s) \in Nat
    BY LenProperties
<1> QED
    BY <1>1, <1>2, ConcatProperties

LEMMA PopFacts ==
    ASSUME NEW s \in Seq(Frame), s # <<>>
    PROVE  /\ Len(s) \in Nat \ {0} /\ Head(s) = s[1] /\ s[1] \in Frame
           /\ Tail(s) \in Seq(Frame) /\ Len(Tail(s)) = Len(s) - 1
           /\ \A i \in 1..Len(s) - 1 : i + 1 \in 2..Len(s) /\ Tail(s)[i] = s[i + 1]
<1>1. Len(s) \in Nat \ {0} /\ Head(s) = s[1] /\ Tail(s) \in Seq(Frame) /\ Len(Tail(s)) = Len(s) - 1
    BY LenProperties, HeadTailProperties, EmptySeq
<1>2. s[1] \in Frame
    BY <1>1, ElementOfSeq
<1> QED
    BY <1>1, <1>2, HeadTailProperties

-----------------------------------------------------------------------------
(* The types                                                               *)

Answers == [Loads -> Words \cup {"none", "astray"}]

LEMMA Types ==
    ASSUME TypeOK
    PROVE  /\ port \in Port /\ gst \in Pipelines /\ answer \in Answers
           /\ late = Idle \/ late \in LateCommands
           /\ pumping \in {"none", "alive", "dead"}
           /\ natively \subseteq Loads /\ residual \subseteq Loads
           /\ queue \in Seq(Event) /\ stack \in Seq(Frame)
           /\ loads \in 0..MaxLoads /\ faults \in 0..MaxFaults
           /\ Len(queue) \in Nat /\ Len(stack) \in Nat
<1>1. queue \in Seq(Event) /\ stack \in Seq(Frame)
    BY DEF TypeOK
<1>2. Len(queue) \in Nat /\ Len(stack) \in Nat
    BY <1>1, LenProperties
<1> QED
    BY <1>1, <1>2 DEF TypeOK, Port, Pipelines, Answers, LateCommands

LEMMA TypeParts ==
    ASSUME port' \in Port, gst' \in Pipelines, answer' \in Answers,
           late' = Idle \/ late' \in LateCommands,
           pumping' \in {"none", "alive", "dead"},
           natively' \subseteq Loads, residual' \subseteq Loads,
           queue' \in Seq(Event), stack' \in Seq(Frame),
           loads' \in 0..MaxLoads, faults' \in 0..MaxFaults
    PROVE  TypeOK'
BY DEF TypeOK, Port, Pipelines, Answers, LateCommands, Idle, Words

(* A word changes what was said of its load only, and is one of the words. *)
LEMMA SaysFacts ==
    ASSUME answer \in Answers, NEW n, NEW word \in Words, Says(n, word)
    PROVE  /\ answer' \in Answers
           /\ \A m \in Loads : m # n => answer'[m] = answer[m]
           /\ n \in Loads => answer'[n] \in {word, "astray"}
           /\ n \in Loads /\ word = "accepted" /\ answer[n] = "none" => answer'[n] = word
           /\ n \in Loads /\ word = "ended" /\ answer[n] = "accepted" /\ n = port.pipe
                => answer'[n] = word
           /\ n \in Loads /\ word = "rejected" /\ answer[n] \in {"none", "accepted", "ended"}
                => answer'[n] = word
BY DEF Says, Answers, Words

LEMMA StartsOverFacts ==
    ASSUME answer \in Answers, StartsOver
    PROVE  /\ answer' \in Answers
           /\ \A n \in Loads : \/ answer'[n] = answer[n]
                               \/ answer[n] = "ended" /\ answer'[n] = "accepted"
           /\ \A n \in Loads : n # port.pipe => answer'[n] = answer[n]
           /\ port'.eos = port.eos => answer' = answer
           /\ port.eos /\ ~port'.eos => \A n \in Loads : n = port.pipe => answer'[n] # "ended"
BY DEF StartsOver, Answers, Words

-----------------------------------------------------------------------------
(* Steps of the core                                                       *)

(* Where nothing is armed any more, what is held belongs to what is loaded. *)
LEMMA NothingArming ==
    ASSUME \A i \in 1..Len(stack') : ~Arming(stack'[i]), stack' \in Seq(Frame)
    PROVE  ArmingInv' /\ ~IsArming'
<1>1. Len(stack') \in Nat /\ (stack' # <<>> => Len(stack') # 0)
    BY LenProperties, EmptySeq
<1> QED
    BY <1>1 DEF ArmingInv, IsArming, Arming

LEMMA NotArming ==
    ASSUME TypeOK, ArmingInv, ~IsArming
    PROVE  \A i \in 1..Len(stack) : ~Arming(stack[i])
BY Types, EmptySeq, LenProperties DEF ArmingInv, IsArming

LEMMA LoadKeepsInv ==
    ASSUME Inv, NEW held \in BOOLEAN, Load(held)
    PROVE  Inv'
<1>1. /\ TypeOK /\ OneTransport /\ ArmingInv /\ EventsInv /\ HoldInv
      /\ pumping' = pumping /\ residual' = residual /\ queue' = queue /\ answer' = answer
      /\ loads' = loads + 1 /\ loads < MaxLoads /\ ~port.closed
    BY DEF Inv, Load, Commandable, MayCall
<1>2. /\ port \in Port /\ gst \in Pipelines /\ answer \in Answers
      /\ late = Idle \/ late \in LateCommands
      /\ pumping \in {"none", "alive", "dead"}
      /\ natively \subseteq Loads /\ residual \subseteq Loads
      /\ queue \in Seq(Event) /\ stack \in Seq(Frame)
      /\ loads \in 0..MaxLoads /\ faults \in 0..MaxFaults
    BY <1>1, Types
<1>3. loads' \in 0..MaxLoads /\ loads + 1 \in Loads
    BY <1>1, <1>2, BoundsAssumption DEF Loads
<1>4. EventsInv'
    BY <1>1 DEF EventsInv
<1>5. /\ Overtaken \in Seq(Frame) /\ Len(Overtaken) = Len(stack) /\ Len(stack) \in Nat
      /\ \A i \in 1..Len(stack) : ~Arming(Overtaken[i])
    BY <1>1, <1>2, OvertakenFacts, LenProperties
<1>6. CASE /\ Stops
           /\ port' = [Released(port) EXCEPT !.direct = held, !.current = None, !.eos = FALSE,
                                             !.play = FALSE, !.state = "STOPPED"]
           /\ stack' = <<[rest |-> "arm", load |-> loads + 1, held |-> held, live |-> TRUE,
                          calls |-> port.state # "STOPPED"]>> \o Overtaken
    <2> DEFINE f == [rest |-> "arm", load |-> loads + 1, held |-> held, live |-> TRUE,
                     calls |-> port.state # "STOPPED"]
    <2>1. f \in Frame /\ f.rest = "arm" /\ f.live
        BY <1>3 DEF Frame
    <2> HIDE DEF f
    <2>2. stack' = <<f>> \o Overtaken
        BY <1>6 DEF f
    <2>3. /\ stack' \in Seq(Frame) /\ stack' # <<>> /\ stack'[1] = f
          /\ Len(stack') = Len(Overtaken) + 1
          /\ \A i \in 2..Len(Overtaken) + 1 : i - 1 \in 1..Len(Overtaken) /\ stack'[i] = Overtaken[i - 1]
        BY <1>5, <2>1, <2>2, PushFacts
    <2>4. /\ port' \in Port /\ port'.pipe = None /\ ~port'.closed /\ ~port'.eos
        <3> DEFINE r == Released(port)
        <3>1. r \in Port /\ r.pipe = None /\ r.closed = port.closed
            BY <1>2, ReleasedFacts
        <3> HIDE DEF r
        <3>2. port' = [r EXCEPT !.direct = held, !.current = None, !.eos = FALSE,
                                !.play = FALSE, !.state = "STOPPED"]
            BY <1>6 DEF r
        <3> QED
            BY <1>1, <3>1, <3>2 DEF Port, LoadOrNone, None
    <2>5. gst' \in Pipelines /\ Silent' /\ natively' \subseteq natively /\ late' = late
          /\ faults' = faults
        BY <1>1, <1>6, StopsFacts
    <2>6. IsArming'
        BY <2>1, <2>3 DEF IsArming, Arming
    <2>7. ArmingInv'
        BY <1>5, <2>3, <2>4 DEF ArmingInv, Arming
    <2>8. HoldInv'
        BY <2>4, <2>6 DEF HoldInv
    <2>9. TypeOK'
        BY <1>1, <1>2, <1>3, <2>3, <2>4, <2>5, TypeParts
    <2> QED
        BY <1>4, <2>5, <2>7, <2>8, <2>9, SilentTransport DEF Inv
<1>7. CASE /\ StaysWatched
           /\ port' = [Cleared(port) EXCEPT !.state = "STOPPED"]
           /\ stack' = Overtaken
    <2>1. /\ port' \in Port /\ port'.hold = "none" /\ ~port'.replay
        <3> DEFINE r == Cleared(port)
        <3>1. r \in Port /\ r.hold = "none" /\ ~r.replay
            BY <1>2, ClearedFacts
        <3> HIDE DEF r
        <3>2. port' = [r EXCEPT !.state = "STOPPED"]
            BY <1>7 DEF r
        <3> QED
            BY <3>1, <3>2 DEF Port
    <2>2. /\ gst' \in Pipelines /\ Silent' /\ natively' = natively
          /\ late' = Idle \/ late' \in LateCommands
          /\ faults' \in 0..MaxFaults
        BY <1>1, <1>7, StaysWatchedFacts
    <2>3. ArmingInv'
        BY <1>5, <1>7, NothingArming
    <2>4. HoldInv'
        BY <2>1 DEF HoldInv
    <2>5. TypeOK'
        BY <1>1, <1>2, <1>3, <1>5, <1>7, <2>1, <2>2, TypeParts
    <2> QED
        BY <1>4, <2>2, <2>3, <2>4, <2>5, SilentTransport DEF Inv
<1>8. CASE /\ DoesNotStop
           /\ port' = IF port.current = None THEN Cleared(port) ELSE port
           /\ stack' = Overtaken
    <2>1. port.pipe # None /\ gst' = gst /\ natively' = natively /\ late' = late
          /\ faults' \in 0..MaxFaults
        BY <1>1, <1>8, DoesNotStopFacts
    <2>2. ~IsArming
        BY <1>1, <2>1 DEF ArmingInv
    <2>3. /\ port' \in Port /\ port'.pipe = port.pipe
          /\ port' = port \/ (port'.hold = "none" /\ ~port'.replay)
        BY <1>2, <1>8, ClearedFacts
    <2>4. ArmingInv'
        BY <1>5, <1>8, NothingArming
    <2>5. HoldInv'
        BY <1>1, <2>2, <2>3 DEF HoldInv
    <2>6. TypeOK'
        BY <1>1, <1>2, <1>3, <1>5, <1>8, <2>1, <2>3, TypeParts
    <2>7. OneTransport'
        BY <1>1, <2>1, <2>3 DEF OneTransport
    <2> QED
        BY <1>4, <2>4, <2>5, <2>6, <2>7 DEF Inv
<1> QED
    BY <1>6, <1>7, <1>8 DEF Load

(* play leaves the port what it owns, or gives its candidate up.           *)
LEMMA PlayHeldFacts ==
    ASSUME TypeOK, HoldInv, ~IsArming, PlayHeld
    PROVE  /\ port' \in Port /\ SameOwner(port, port') /\ port'.state = port.state
           /\ gst' \in Pipelines /\ OnlyOwnAsked
           /\ faults' \in 0..MaxFaults
           /\ port'.eos => port.eos
           /\ \/ port'.current # None /\ port'.hold = "wanted"
              \/ /\ port'.hold = port.hold /\ port'.direct = port.direct
                 /\ port'.replay = port.replay /\ port'.eos = port.eos
<1>1. port \in Port /\ gst \in Pipelines /\ faults \in 0..MaxFaults
    BY Types
<1>2. /\ port.eos /\ port.hold # "none" => port.current # None
    BY DEF HoldInv
<1>3. Refuses => gst' = gst /\ faults' \in 0..MaxFaults
    BY FaultyFacts DEF Refuses
<1>4. CASE /\ port.eos /\ port.hold # "none"
           /\ LET p == [port EXCEPT !.eos = FALSE, !.hold = "wanted"]
              IN \/ Refuses /\ UNCHANGED port
                 \/ /\ ~port.replay
                    /\ gst' = [Asked("NULL") EXCEPT ![port.pipe].to = "PAUSED"]
                    /\ port' = [p EXCEPT !.replay = TRUE, !.play = TRUE]
                    /\ UNCHANGED faults
                 \/ /\ ~port.replay
                    /\ Faulty("refuse") /\ gst' = Asked("NULL")
                    /\ port' = [p EXCEPT !.play = FALSE]
                 \/ /\ port.replay
                    /\ gst' = Asked("NULL") /\ UNCHANGED faults
                    /\ port' = [p EXCEPT !.play = TRUE]
    <2>1. CASE Refuses /\ UNCHANGED port
        BY <1>1, <1>3, <2>1 DEF SameOwner, OnlyOwnAsked
    <2>2. CASE ~(Refuses /\ UNCHANGED port)
        <3> DEFINE p == [port EXCEPT !.eos = FALSE, !.hold = "wanted"]
        <3>1. /\ p \in Port /\ SameOwner(port, p) /\ p.hold = "wanted" /\ ~p.eos
              /\ p.state = port.state
            BY <1>1 DEF Port, SameOwner
        <3>2. /\ \/ port' = [p EXCEPT !.replay = TRUE, !.play = TRUE]
                 \/ port' = [p EXCEPT !.play = FALSE]
                 \/ port' = [p EXCEPT !.play = TRUE]
              /\ \/ gst' = [Asked("NULL") EXCEPT ![port.pipe].to = "PAUSED"]
                 \/ gst' = Asked("NULL")
              /\ faults' = faults \/ Faulty("refuse")
            BY <1>4, <2>2
        <3> HIDE DEF p
        <3>3. /\ port' \in Port /\ SameOwner(port, port') /\ port'.hold = "wanted" /\ ~port'.eos
              /\ port'.state = port.state /\ port'.current = port.current
            BY <3>1, <3>2 DEF Port, SameOwner
        <3>4. gst' \in Pipelines /\ OnlyOwnAsked
            BY <1>1, <3>2, AskedAgain, AcceptsFacts
        <3>5. faults' \in 0..MaxFaults
            BY <1>1, <3>2, FaultyFacts
        <3> QED
            BY <1>2, <1>4, <3>3, <3>4, <3>5
    <2> QED
        BY <2>1, <2>2
<1>5. CASE /\ ~port.eos /\ port.hold = "wanted" /\ port.current # None /\ ~port.replay
           /\ \/ Accepts("PAUSED") /\ port' = [port EXCEPT !.replay = TRUE, !.play = TRUE]
              \/ Refuses /\ UNCHANGED port
    <2>1. CASE Refuses /\ UNCHANGED port
        BY <1>1, <1>3, <2>1 DEF SameOwner, OnlyOwnAsked
    <2>2. CASE Accepts("PAUSED") /\ port' = [port EXCEPT !.replay = TRUE, !.play = TRUE]
        <3>1. gst' \in Pipelines /\ OnlyOwnAsked /\ faults' = faults
            BY <1>1, <2>2, AcceptsFacts DEF Accepts
        <3> QED
            BY <1>1, <1>5, <2>2, <3>1 DEF Port, SameOwner
    <2> QED
        BY <1>5, <2>1, <2>2
<1>6. CASE /\ port' = [port EXCEPT !.play = TRUE]
           /\ UNCHANGED <<gst, faults>>
    BY <1>1, <1>6 DEF Port, SameOwner, OnlyOwnAsked
<1> QED
    BY <1>4, <1>5, <1>6 DEF PlayHeld

LEMMA PlayAgainFacts ==
    ASSUME TypeOK, PlayAgain
    PROVE  /\ port' \in Port /\ SameOwner(port, port') /\ port'.state = port.state
           /\ gst' \in Pipelines /\ OnlyOwnAsked
           /\ faults' \in 0..MaxFaults
           /\ port'.eos => port.eos
           /\ port'.hold = "none" /\ port'.replay = port.replay
<1>1. port \in Port /\ gst \in Pipelines /\ faults \in 0..MaxFaults
    BY Types
<1>2. CASE /\ gst' = [Asked("NULL") EXCEPT ![port.pipe].to = "PLAYING"]
           /\ port' = [port EXCEPT !.play = TRUE, !.eos = FALSE]
           /\ UNCHANGED faults
    <2>1. gst' \in Pipelines /\ OnlyOwnAsked
        BY <1>1, <1>2, AskedAgain
    <2> QED
        BY <1>1, <1>2, <2>1 DEF PlayAgain, Port, SameOwner
<1>3. CASE Refuses /\ UNCHANGED port
    BY <1>1, <1>3, FaultyFacts DEF PlayAgain, Refuses, SameOwner, OnlyOwnAsked
<1>4. CASE Faulty("refuse") /\ gst' = Asked("NULL") /\ UNCHANGED port
    BY <1>1, <1>4, FaultyFacts, AcceptsFacts DEF PlayAgain, SameOwner
<1> QED
    BY <1>2, <1>3, <1>4 DEF PlayAgain

LEMMA PlayAcceptedFacts ==
    ASSUME TypeOK, PlayAccepted
    PROVE  /\ port' \in Port /\ SameOwner(port, port') /\ port'.state = port.state
           /\ gst' \in Pipelines /\ OnlyOwnAsked
           /\ faults' \in 0..MaxFaults
           /\ port'.hold = IF port.hold = "due" THEN "over" ELSE port.hold
           /\ port'.direct = port.direct /\ port'.replay = port.replay /\ port'.eos = port.eos
<1>1. port \in Port /\ gst \in Pipelines /\ faults \in 0..MaxFaults
    BY Types
<1> DEFINE p == HoldOver(port)
<1>2. /\ p \in Port /\ SameOwner(port, p) /\ p.state = port.state
      /\ p.hold = IF port.hold = "due" THEN "over" ELSE port.hold
      /\ p.direct = port.direct /\ p.replay = port.replay /\ p.eos = port.eos
    BY <1>1, HoldFacts
<1> HIDE DEF p
<1>3. CASE Accepts("PLAYING") /\ port' = [p EXCEPT !.play = TRUE]
    <2>1. gst' \in Pipelines /\ OnlyOwnAsked /\ faults' = faults
        BY <1>1, <1>3, AcceptsFacts DEF Accepts
    <2> QED
        BY <1>1, <1>2, <1>3, <2>1 DEF Port, SameOwner
<1>4. CASE Refuses /\ port' = p
    BY <1>1, <1>2, <1>4, FaultyFacts DEF Refuses, OnlyOwnAsked
<1> QED
    BY <1>3, <1>4 DEF PlayAccepted, p

LEMMA PlayCandidateFacts ==
    ASSUME TypeOK, OneTransport, PlayCandidate
    PROVE  /\ IsCandidate
           /\ port' \in Port /\ port'.closed = port.closed /\ port'.closing = port.closing
           /\ port'.state = port.state
           /\ gst' \in Pipelines /\ OneTransport'
           /\ faults' \in 0..MaxFaults
           /\ late' = Idle \/ late' \in LateCommands
           /\ \/ /\ SameOwner(port, port') /\ natively' = natively /\ late' = late
                 /\ port'.hold = port.hold /\ port'.direct = port.direct
                 /\ port'.replay = port.replay /\ port'.eos = port.eos
              \/ /\ port'.gen = None /\ port'.pending = None /\ port'.current = None
                 /\ port'.hold = "none" /\ ~port'.replay /\ ~port'.eos
                 /\ \/ /\ port'.pipe = port.pipe /\ port'.watch = port.watch
                       /\ natively' = natively /\ (late' = late \/ WatchStays)
                    \/ /\ port'.pipe = None
                       /\ port'.watch = IF port.pipe = None THEN port.watch ELSE None
                       /\ natively' = natively \ {port.watch} /\ late' = late
<1>1. /\ port \in Port /\ gst \in Pipelines /\ faults \in 0..MaxFaults
      /\ late = Idle \/ late \in LateCommands
    BY Types
<1>2. IsCandidate
    BY DEF PlayCandidate
<1> DEFINE p == Cleared(port)
           r == Released(p)
<1>3. /\ p \in Port /\ p.gen = None /\ p.pending = None /\ p.current = None
      /\ p.hold = "none" /\ ~p.replay /\ ~p.eos /\ p.state = port.state
      /\ p.pipe = port.pipe /\ p.watch = port.watch
      /\ p.closing = port.closing /\ p.closed = port.closed
    BY <1>1, ClearedFacts
<1> HIDE DEF p
<1>4. /\ r \in Port /\ r.gen = None /\ r.pending = None /\ r.current = None
      /\ r.hold = "none" /\ ~r.replay /\ ~r.eos /\ r.state = port.state
      /\ r.pipe = None /\ r.watch = IF port.pipe = None THEN port.watch ELSE None
      /\ r.closing = port.closing /\ r.closed = port.closed
    BY <1>3, ReleasedFacts
<1> HIDE DEF r
<1>5. CASE Accepts("PLAYING") /\ port' = [port EXCEPT !.play = TRUE] /\ UNCHANGED <<late, natively>>
    <2>1. gst' \in Pipelines /\ OnlyOwnAsked /\ faults' = faults
        BY <1>1, <1>5, AcceptsFacts DEF Accepts
    <2>2. /\ port' \in Port /\ SameOwner(port, port') /\ port'.state = port.state
          /\ port'.hold = port.hold /\ port'.direct = port.direct
          /\ port'.replay = port.replay /\ port'.eos = port.eos
        BY <1>1, <1>5 DEF Port, SameOwner
    <2> QED
        BY <1>1, <1>2, <1>5, <2>1, <2>2, OwnTransport DEF SameOwner
<1>6. CASE Refuses /\ port' = p /\ UNCHANGED <<late, natively>>
    BY <1>1, <1>2, <1>3, <1>6, FaultyFacts DEF Refuses, OneTransport
<1>7. CASE GivenUp("refuse", p)
    <2>1. /\ gst' \in Pipelines /\ OneTransport' /\ faults' \in 0..MaxFaults
          /\ late' = Idle \/ late' \in LateCommands
          /\ \/ port' = r /\ natively' = natively \ {port.watch} /\ late' = late
             \/ port' = p /\ natively' = natively /\ (late' = late \/ WatchStays)
        BY <1>7, GivenUpFacts DEF r
    <2> QED
        BY <1>2, <1>3, <1>4, <2>1
<1> QED
    BY <1>5, <1>6, <1>7 DEF PlayCandidate, p, r

LEMMA PlayKeepsInv ==
    ASSUME Inv, Play
    PROVE  Inv'
<1>1. /\ TypeOK /\ OneTransport /\ ArmingInv /\ EventsInv /\ HoldInv
      /\ port.pipe # None /\ Starts /\ StartsOver
      /\ pumping' = pumping /\ residual' = residual /\ queue' = queue
      /\ stack' = stack /\ loads' = loads
    BY DEF Inv, Play
<1>2. ~IsArming
    BY <1>1 DEF ArmingInv
<1>3. /\ port' \in Port /\ port'.closed = port.closed /\ gst' \in Pipelines /\ OneTransport'
      /\ natively' \subseteq natively /\ faults' \in 0..MaxFaults /\ HoldInv'
      /\ late' = Idle \/ late' \in LateCommands
    <2>1. CASE PlayHeld /\ UNCHANGED <<late, natively>>
        <3>1. IsArming' <=> IsArming
            BY <1>1 DEF IsArming
        <3> QED
            BY <1>1, <1>2, <2>1, <3>1, Types, PlayHeldFacts, OwnTransport DEF HoldInv, SameOwner
    <2>2. CASE PlayAgain /\ UNCHANGED <<late, natively>>
        BY <1>1, <1>2, <2>2, Types, PlayAgainFacts, OwnTransport DEF HoldInv, SameOwner
    <2>3. CASE PlayAccepted /\ UNCHANGED <<late, natively>>
        BY <1>1, <1>2, <2>3, Types, PlayAcceptedFacts, OwnTransport DEF HoldInv, SameOwner
    <2>4. CASE PlayCandidate
        BY <1>1, <1>2, <2>4, PlayCandidateFacts DEF HoldInv, SameOwner
    <2> QED
        BY <1>1, <2>1, <2>2, <2>3, <2>4 DEF Starts
<1>4. ArmingInv'
    BY <1>1, <1>2 DEF ArmingInv, IsArming
<1>5. EventsInv'
    BY <1>1 DEF EventsInv
<1>6. TypeOK'
    BY <1>1, <1>3, Types, TypeParts, StartsOverFacts
<1> QED
    BY <1>3, <1>4, <1>5, <1>6 DEF Inv

LEMMA PauseKeepsInv ==
    ASSUME Inv, Pause
    PROVE  Inv'
<1>1. /\ TypeOK /\ OneTransport /\ ArmingInv /\ EventsInv /\ HoldInv
      /\ port.pipe # None
      /\ late' = late /\ pumping' = pumping /\ residual' = residual /\ queue' = queue
      /\ natively' = natively /\ answer' = answer
      /\ stack' = stack /\ loads' = loads
    BY DEF Inv, Pause
<1>2. /\ port' \in Port /\ SameOwner(port, port') /\ port'.hold = port.hold
      /\ port'.direct = port.direct /\ port'.replay = port.replay /\ port'.eos = port.eos
      /\ gst' \in Pipelines /\ OnlyOwnAsked /\ faults' \in 0..MaxFaults
    <2>1. port \in Port /\ gst \in Pipelines /\ faults \in 0..MaxFaults
        BY <1>1, Types
    <2>2. CASE Accepts("PAUSED") /\ port' = [port EXCEPT !.play = FALSE]
        <3>1. gst' \in Pipelines /\ OnlyOwnAsked /\ faults' = faults
            BY <2>1, <2>2, AcceptsFacts DEF Accepts
        <3> QED
            BY <2>1, <2>2, <3>1 DEF Port, SameOwner
    <2>3. CASE Refuses /\ UNCHANGED port
        BY <1>1, <2>1, <2>3, FaultyFacts DEF Refuses, SameOwner, OnlyOwnAsked
    <2> QED
        BY <2>2, <2>3 DEF Pause
<1>3. OneTransport' /\ HoldInv' /\ ArmingInv' /\ EventsInv'
    <2>1. OneTransport'
        BY <1>1, <1>2, OwnTransport DEF SameOwner
    <2>2. IsArming' <=> IsArming
        BY <1>1 DEF IsArming
    <2>3. HoldInv' /\ ArmingInv'
        BY <1>1, <1>2, <2>2 DEF HoldInv, ArmingInv, SameOwner
    <2>4. EventsInv'
        BY <1>1 DEF EventsInv
    <2> QED
        BY <2>1, <2>3, <2>4
<1>4. TypeOK'
    BY <1>1, <1>2, Types, TypeParts
<1> QED
    BY <1>3, <1>4 DEF Inv

(* stop of a candidate, which cancels it, or only retires its hold.        *)
LEMMA StopCandidateFacts ==
    ASSUME TypeOK, OneTransport, StopCandidate
    PROVE  /\ IsCandidate /\ port.pipe # None
           /\ port' \in Port /\ port'.closed = port.closed /\ port'.closing = port.closing
           /\ port'.hold \in {"none", "wanted"} /\ ~port'.replay
           /\ gst' \in Pipelines /\ OneTransport'
           /\ natively' \subseteq natively
           /\ late' = Idle \/ late' \in LateCommands
           /\ faults' \in 0..MaxFaults
           /\ \/ /\ Stops
                 /\ port'.gen = None /\ port'.pending = None /\ port'.current = None
                 /\ port'.pipe = None /\ port'.watch = None /\ ~port'.eos
                 /\ port'.hold = "none" /\ port'.state = "STOPPED"
              \/ /\ DoesNotStop \/ StaysWatched
                 /\ SameOwner(port, port') /\ natively' = natively
                 /\ port'.eos = port.eos /\ port'.state = port.state
                 /\ port'.hold = IF port.hold = "none" THEN "none" ELSE "wanted"
<1>1. port \in Port /\ gst \in Pipelines /\ faults \in 0..MaxFaults
      /\ (late = Idle \/ late \in LateCommands)
    BY Types
<1>2. IsCandidate /\ port.pipe # None
    BY DEF StopCandidate
<1> DEFINE p == Retired(port)
           q == Released(Invalidated(port))
<1>3. /\ p \in Port /\ SameOwner(port, p) /\ ~p.replay
      /\ p.hold = IF port.hold = "none" THEN "none" ELSE "wanted"
      /\ p.eos = port.eos /\ p.state = port.state
    BY <1>1, RetiredFacts
<1>4. /\ q \in Port /\ q.gen = None /\ q.pipe = None /\ q.watch = None
      /\ q.hold = "none" /\ ~q.replay /\ q.current = port.current
      /\ q.closing = port.closing /\ q.closed = port.closed
    BY <1>1, <1>2, InvalidatedFacts, ReleasedFacts
<1> HIDE DEF p, q
<1>5. CASE /\ Stops
           /\ port' = [q EXCEPT !.pending = None, !.play = FALSE,
                        !.eos = FALSE, !.direct = FALSE, !.state = "STOPPED"]
    <2>1. /\ gst' \in Pipelines /\ Silent' /\ natively' \subseteq natively
          /\ late' = late /\ faults' = faults
        BY <1>5, StopsFacts
    <2>2. /\ port' \in Port /\ port'.closed = port.closed /\ port'.closing = port.closing
          /\ port'.gen = None /\ port'.pending = None /\ port'.current = None
          /\ port'.pipe = None /\ port'.watch = None /\ ~port'.eos /\ ~port'.replay
          /\ port'.hold = "none" /\ port'.state = "STOPPED"
        BY <1>2, <1>4, <1>5 DEF Port, IsCandidate, LoadOrNone, None
    <2> QED
        BY <1>1, <1>2, <1>5, <2>1, <2>2, SilentTransport
<1>6. CASE DoesNotStop /\ port' = p
    <2>1. gst' = gst /\ natively' = natively /\ late' = late /\ faults' \in 0..MaxFaults
        BY <1>6, DoesNotStopFacts
    <2>2. OneTransport'
        BY <1>3, <1>6, <2>1 DEF OneTransport, SameOwner
    <2> QED
        BY <1>1, <1>2, <1>3, <1>6, <2>1, <2>2 DEF SameOwner
<1>7. CASE StaysWatched /\ port' = p
    <2>1. /\ gst' \in Pipelines /\ Silent' /\ natively' = natively
          /\ late' = Idle \/ late' \in LateCommands
          /\ faults' \in 0..MaxFaults
        BY <1>7, StaysWatchedFacts
    <2> QED
        BY <1>1, <1>2, <1>3, <1>7, <2>1, SilentTransport DEF SameOwner
<1> QED
    BY <1>5, <1>6, <1>7 DEF StopCandidate, p, q

(* stop of what was accepted, or of nothing.                               *)
LEMMA StopOtherFacts ==
    ASSUME TypeOK, OneTransport,
           \/ StopSource
           \/ /\ port.pipe = None
              /\ port' = Retired(port)
              /\ UNCHANGED <<late, gst, natively, faults>>
    PROVE  /\ port' \in Port /\ SameOwner(port, port')
           /\ port'.hold = IF port.hold = "none" THEN "none" ELSE "wanted"
           /\ ~port'.replay
           /\ port'.eos => port.eos
           /\ port'.state \in {port.state, "STOPPED"}
           /\ gst' \in Pipelines /\ OneTransport'
           /\ late' = late /\ natively' = natively
           /\ faults' \in 0..MaxFaults
<1>1. port \in Port /\ gst \in Pipelines /\ faults \in 0..MaxFaults
    BY Types
<1> DEFINE p == Retired(port)
<1>2. /\ p \in Port /\ SameOwner(port, p) /\ ~p.replay
      /\ p.hold = IF port.hold = "none" THEN "none" ELSE "wanted"
      /\ p.eos = port.eos /\ p.state = port.state
    BY <1>1, RetiredFacts
<1> HIDE DEF p
<1>3. CASE /\ UNCHANGED <<late, natively>>
           /\ Accepts("NULL")
           /\ port' = [p EXCEPT !.play = FALSE, !.eos = FALSE, !.state = "STOPPED"]
    <2>1. gst' \in Pipelines /\ OnlyOwnAsked /\ faults' = faults
        BY <1>1, <1>3, AcceptsFacts DEF Accepts
    <2>2. /\ port' \in Port /\ SameOwner(port, port') /\ ~port'.replay /\ ~port'.eos
          /\ port'.hold = p.hold /\ port'.state = "STOPPED"
        BY <1>2, <1>3 DEF Port, SameOwner
    <2> QED
        BY <1>1, <1>2, <1>3, <2>1, <2>2, OwnTransport DEF SameOwner
<1>4. CASE /\ UNCHANGED <<late, natively>>
           /\ Refuses /\ port' = p
    BY <1>1, <1>2, <1>4, FaultyFacts DEF Refuses, OneTransport, SameOwner
<1>5. CASE port' = p /\ UNCHANGED <<late, gst, natively, faults>>
    BY <1>1, <1>2, <1>5 DEF OneTransport, SameOwner
<1> QED
    BY <1>3, <1>4, <1>5 DEF StopSource, p

LEMMA StopKeepsInv ==
    ASSUME Inv, Stop
    PROVE  Inv'
<1>1. /\ TypeOK /\ OneTransport /\ ArmingInv /\ EventsInv /\ HoldInv
      /\ pumping' = pumping /\ residual' = residual /\ queue' = queue
      /\ stack' = Overtaken /\ loads' = loads /\ StartsOver
    BY DEF Inv, Stop
<1>2. stack' \in Seq(Frame) /\ \A i \in 1..Len(stack') : ~Arming(stack'[i])
    BY <1>1, OvertakenFacts
<1>3. /\ port' \in Port /\ gst' \in Pipelines /\ OneTransport'
      /\ natively' \subseteq natively
      /\ late' = Idle \/ late' \in LateCommands
      /\ faults' \in 0..MaxFaults
      /\ HoldInv'
    <2>1. CASE StopCandidate
        <3>1. /\ IsCandidate /\ port.pipe # None
              /\ port'.hold \in {"none", "wanted"} /\ ~port'.replay
              /\ \/ port'.hold = "none"
                 \/ /\ SameOwner(port, port') /\ port'.eos = port.eos
                    /\ port'.hold = IF port.hold = "none" THEN "none" ELSE "wanted"
            BY <1>1, <2>1, StopCandidateFacts
        <3>2. HoldInv'
            BY <1>1, <3>1 DEF HoldInv, SameOwner
        <3> QED
            BY <1>1, <2>1, <3>2, StopCandidateFacts
    <2>2. CASE \/ StopSource
               \/ /\ port.pipe = None
                  /\ port' = Retired(port)
                  /\ UNCHANGED <<late, gst, natively, faults>>
        <3>1. /\ SameOwner(port, port') /\ ~port'.replay /\ (port'.eos => port.eos)
              /\ port'.hold = IF port.hold = "none" THEN "none" ELSE "wanted"
            BY <1>1, <2>2, StopOtherFacts
        <3>2. HoldInv'
            BY <1>1, <3>1 DEF HoldInv, SameOwner
        <3> QED
            BY <1>1, <2>2, <3>2, StopOtherFacts, Types
    <2> QED
        BY <2>1, <2>2 DEF Stop
<1>4. ArmingInv'
    BY <1>2, NothingArming
<1>5. EventsInv'
    BY <1>1 DEF EventsInv
<1>6. TypeOK'
    BY <1>1, <1>2, <1>3, Types, TypeParts, StartsOverFacts
<1> QED
    BY <1>3, <1>4, <1>5, <1>6 DEF Inv

(* What close does to what the port owns.                                  *)
LEMMA ClosingFacts ==
    ASSUME TypeOK, OneTransport, NEW nulled \in BOOLEAN, NEW detached \in BOOLEAN,
           NEW joined \in BOOLEAN, NEW compensated \in BOOLEAN,
           Closing(nulled, detached, joined, compensated)
    PROVE  /\ port' \in Port
           /\ port'.gen = None /\ port'.pending = None /\ port'.current = None
           /\ port'.hold = "none" /\ ~port'.replay /\ port'.state = port.state
           /\ port'.pipe = IF nulled THEN None ELSE port.pipe
           /\ port'.watch = IF detached THEN None ELSE port.watch
           /\ port'.closing <=> ~port'.closed
           /\ port'.closed => /\ port'.pipe = None /\ port'.watch = None
                              /\ residual' = {} /\ pumping' = "none"
           /\ gst' \in Pipelines /\ OneTransport'
           /\ residual' = IF compensated THEN {} ELSE residual
           /\ natively' = (natively \ (IF detached THEN {port.watch} ELSE {})) \ (residual \ residual')
           /\ pumping' = IF joined THEN "none" ELSE pumping
           /\ joined => (port'.watch = None /\ late = Idle) \/ pumping = "none"
           /\ faults' \in 0..MaxFaults
<1>1. port \in Port /\ gst \in Pipelines /\ faults \in 0..MaxFaults
    BY Types
<1> DEFINE pipe == IF nulled THEN None ELSE port.pipe
           watch == IF detached THEN None ELSE port.watch
           p == Invalidated(port)
<1>2. /\ p \in Port /\ p.gen = None /\ p.hold = "none" /\ ~p.replay /\ p.state = port.state
    BY <1>1, InvalidatedFacts
<1>3. pipe \in LoadOrNone /\ watch \in LoadOrNone
    BY <1>1 DEF Port, LoadOrNone
<1> HIDE DEF p
<1> DEFINE q == [p EXCEPT !.pipe = pipe, !.watch = watch, !.pending = None,
                          !.current = None, !.direct = FALSE]
<1>4. \/ port' = [q EXCEPT !.closing = TRUE, !.closed = FALSE]
      \/ /\ port' = [q EXCEPT !.closing = FALSE, !.closed = TRUE]
         /\ pipe = None /\ watch = None /\ residual' = {} /\ pumping' = "none"
    <2> DEFINE done == /\ pipe = None /\ watch = None /\ residual' = {} /\ pumping' = "none"
                       /\ faults' = faults
    <2>1. port' = [q EXCEPT !.closing = ~done, !.closed = done]
        BY DEF Closing, p
    <2>2. CASE done
        <3>1. port' = [q EXCEPT !.closing = FALSE, !.closed = TRUE]
            BY <2>1, <2>2
        <3> QED
            BY <2>2, <3>1
    <2>3. CASE ~done
        <3>1. port' = [q EXCEPT !.closing = TRUE, !.closed = FALSE]
            BY <2>1, <2>3
        <3> QED
            BY <3>1
    <2> QED
        BY <2>2, <2>3
<1>5. /\ port' \in Port
      /\ port'.gen = None /\ port'.pending = None /\ port'.current = None
      /\ port'.hold = "none" /\ ~port'.replay /\ port'.state = port.state
      /\ port'.pipe = pipe /\ port'.watch = watch
      /\ port'.closing <=> ~port'.closed
      /\ port'.closed => /\ pipe = None /\ watch = None /\ residual' = {} /\ pumping' = "none"
    <2> HIDE DEF p, pipe, watch
    <2>1. q \in Port
        BY <1>2, <1>3 DEF Port, LoadOrNone, None
    <2>2. /\ q.gen = None /\ q.pending = None /\ q.current = None
          /\ q.hold = "none" /\ ~q.replay /\ q.state = port.state
          /\ q.pipe = pipe /\ q.watch = watch
        BY <1>2, <1>3 DEF Port
    <2> HIDE DEF q
    <2>3. CASE port' = [q EXCEPT !.closing = TRUE, !.closed = FALSE]
        BY <2>1, <2>2, <2>3 DEF Port
    <2>4. CASE /\ port' = [q EXCEPT !.closing = FALSE, !.closed = TRUE]
               /\ pipe = None /\ watch = None /\ residual' = {} /\ pumping' = "none"
        BY <2>1, <2>2, <2>4 DEF Port
    <2> QED
        BY <1>4, <2>3, <2>4
<1> HIDE DEF p, q, pipe, watch
<1>6. /\ gst' = IF port.pipe # None /\ nulled THEN Asked("NULL") ELSE gst
      /\ port.pipe = None => nulled
      /\ faults' = faults \/ Faulty("close")
      /\ residual' = IF compensated THEN {} ELSE residual
      /\ natively' = (natively \ (IF detached THEN {port.watch} ELSE {})) \ (residual \ residual')
      /\ pumping' = IF joined THEN "none" ELSE pumping
      /\ joined => (watch = None /\ late = Idle) \/ pumping = "none"
    BY DEF Closing, watch
<1>7. gst' \in Pipelines /\ OneTransport'
    <2>1. CASE port.pipe # None /\ nulled
        BY <1>1, <1>6, <2>1, AcceptsFacts, SilentTransport
    <2>2. CASE ~(port.pipe # None /\ nulled)
        <3>1. gst' = gst /\ port'.pipe = port.pipe
            BY <1>5, <1>6, <2>2 DEF pipe
        <3> QED
            BY <1>1, <3>1 DEF OneTransport
    <2> QED
        BY <2>1, <2>2
<1>8. faults' \in 0..MaxFaults
    BY <1>1, <1>6, FaultyFacts
<1> QED
    BY <1>5, <1>6, <1>7, <1>8 DEF pipe, watch

LEMMA CloseKeepsInv ==
    ASSUME Inv, Close
    PROVE  Inv'
<1>1. /\ TypeOK /\ OneTransport /\ ArmingInv /\ EventsInv /\ HoldInv
      /\ late' = late /\ queue' = queue /\ answer' = answer
      /\ stack' = Overtaken /\ loads' = loads
    BY DEF Inv, Close
<1>2. PICK nulled, detached, joined, compensated \in BOOLEAN :
         Closing(nulled, detached, joined, compensated)
    BY DEF Close
<1>3. /\ port' \in Port /\ port'.hold = "none" /\ ~port'.replay
      /\ gst' \in Pipelines /\ OneTransport'
      /\ residual' \subseteq residual /\ natively' \subseteq natively
      /\ pumping' \in {"none", pumping}
      /\ faults' \in 0..MaxFaults
    <2>1. /\ residual' = IF compensated THEN {} ELSE residual
          /\ natively' = (natively \ (IF detached THEN {port.watch} ELSE {})) \ (residual \ residual')
          /\ pumping' = IF joined THEN "none" ELSE pumping
        BY <1>1, <1>2, ClosingFacts
    <2>2. residual' \subseteq residual /\ natively' \subseteq natively /\ pumping' \in {"none", pumping}
        BY <2>1
    <2> QED
        BY <1>1, <1>2, <2>2, ClosingFacts
<1>4. stack' \in Seq(Frame) /\ \A i \in 1..Len(stack') : ~Arming(stack'[i])
    BY <1>1, OvertakenFacts
<1>5. ArmingInv' /\ HoldInv' /\ EventsInv'
    BY <1>1, <1>3, <1>4, NothingArming DEF HoldInv, EventsInv
<1>6. TypeOK'
    BY <1>1, <1>3, <1>4, Types, TypeParts
<1> QED
    BY <1>3, <1>5, <1>6 DEF Inv

-----------------------------------------------------------------------------
(* Steps of the pump                                                       *)

Kinds == {"ASYNC_DONE", "PLAYING", "PAUSED", "STOPPED", "EOS", "ERROR", "DIED"}

LEMMA PostsFacts ==
    ASSUME TypeOK, EventsInv, NEW w \in Loads, NEW kinds \in Seq(Kinds), Posts(w, kinds)
    PROVE  queue' \in Seq(Event) /\ EventsInv'
<1>1. queue \in Seq(Event) /\ Len(queue) \in Nat /\ Len(kinds) \in Nat
    BY Types, LenProperties
<1> DEFINE posted == [i \in 1..Len(kinds) |-> [gen |-> w, kind |-> kinds[i]]]
<1>2. \A i \in 1..Len(kinds) : [gen |-> w, kind |-> kinds[i]] \in Event
    BY ElementOfSeq DEF Kinds, Event, LoadOrNone
<1>3. posted \in Seq(Event) /\ Len(posted) = Len(kinds)
    <2>1. posted \in [1..Len(kinds) -> Event]
        BY <1>2
    <2> QED
        BY <1>1, <2>1, IsASeq, LenProperties
<1>4. \A i \in 1..Len(kinds) : posted[i].gen # None
    BY DEF Loads, None
<1>5. queue' = queue \o posted
    BY DEF Posts
<1> HIDE DEF posted
<1>6. /\ queue' \in Seq(Event) /\ Len(queue') = Len(queue) + Len(posted)
      /\ \A i \in 1..Len(queue) + Len(posted) :
            queue'[i] = IF i <= Len(queue) THEN queue[i] ELSE posted[i - Len(queue)]
    <2>1. posted \in Seq(Event) /\ queue \in Seq(Event)
        BY <1>1, <1>3
    <2> QED
        BY <1>5, <2>1, ConcatProperties
<1>7. ASSUME NEW i \in 1..Len(queue'), queue'[i].gen = None PROVE queue'[i].kind = "DIED"
    <2>1. CASE i <= Len(queue)
        BY <1>1, <1>6, <1>7, <2>1 DEF EventsInv
    <2>2. CASE ~(i <= Len(queue))
        BY <1>1, <1>3, <1>4, <1>6, <1>7, <2>2
    <2> QED
        BY <2>1, <2>2
<1> QED
    BY <1>6, <1>7 DEF EventsInv

LEMMA MovesFacts ==
    ASSUME gst \in Pipelines, NEW w \in Loads,
           NEW at \in {"NULL", "READY", "PAUSED", "PLAYING", "ENDED"}, Moves(w, at)
    PROVE  gst' \in Pipelines /\ \A n \in Loads : gst'[n].to = gst[n].to
BY DEF Moves, Pipelines

LEMMA EmitFacts ==
    ASSUME TypeOK, EventsInv, NEW w \in natively, Emit(w)
    PROVE  /\ gst' \in Pipelines /\ \A n \in Loads : gst'[n].to = gst[n].to
           /\ queue' \in Seq(Event) /\ EventsInv'
           /\ faults' \in 0..MaxFaults
<1>1. w \in Loads /\ gst \in Pipelines /\ faults \in 0..MaxFaults
    BY Types
<1>2. CASE (Message(w) \/ Ends(w)) /\ UNCHANGED faults
    <2>1. \E at \in {"READY", "PAUSED", "PLAYING", "ENDED"} : Moves(w, at)
        BY <1>2 DEF Message, Ends
    <2>2. \E kinds \in Seq(Kinds) : Posts(w, kinds)
        <3>1. /\ <<"STOPPED">> \in Seq(Kinds) /\ <<"PAUSED", "ASYNC_DONE">> \in Seq(Kinds)
              /\ <<"PLAYING", "ASYNC_DONE">> \in Seq(Kinds)
              /\ <<"PLAYING", "EOS", "ASYNC_DONE">> \in Seq(Kinds)
              /\ <<"PLAYING">> \in Seq(Kinds) /\ <<"PAUSED">> \in Seq(Kinds)
              /\ <<"EOS">> \in Seq(Kinds)
            BY DEF Kinds
        <3> QED
            BY <1>2, <3>1 DEF Message, Ends
    <2> QED
        BY <1>1, <1>2, <2>1, <2>2, MovesFacts, PostsFacts
<1>3. CASE Errs(w)
    <2>1. <<"ERROR">> \in Seq(Kinds) /\ Posts(w, <<"ERROR">>) /\ gst' = gst /\ Faulty("error")
        BY <1>3 DEF Errs, Kinds
    <2> QED
        BY <1>1, <2>1, PostsFacts, FaultyFacts
<1> QED
    BY <1>2, <1>3 DEF Emit

LEMMA EmitKeepsInv ==
    ASSUME Inv, NEW w \in natively, Emit(w)
    PROVE  Inv'
<1>1. /\ TypeOK /\ OneTransport /\ ArmingInv /\ EventsInv /\ HoldInv
      /\ port' = port /\ late' = late /\ pumping' = pumping /\ natively' = natively
      /\ residual' = residual /\ stack' = stack /\ answer' = answer /\ loads' = loads
    BY DEF Inv, Emit
<1>2. /\ gst' \in Pipelines /\ \A n \in Loads : gst'[n].to = gst[n].to
      /\ queue' \in Seq(Event) /\ EventsInv'
      /\ faults' \in 0..MaxFaults
    BY <1>1, EmitFacts
<1>3. TypeOK'
    BY <1>1, <1>2, Types, TypeParts
<1>4. OneTransport' /\ ArmingInv' /\ HoldInv'
    BY <1>1, <1>2 DEF OneTransport, ArmingInv, HoldInv, IsArming
<1> QED
    BY <1>2, <1>3, <1>4 DEF Inv

(* The port after a late command, or after the death of the pump: it may   *)
(* have lost its watch.                                                    *)
LEMMA WatchDropped ==
    ASSUME Inv, port' = port \/ port' = [port EXCEPT !.watch = None],
           stack' = stack, gst' = gst
    PROVE  port' \in Port /\ OneTransport' /\ ArmingInv' /\ HoldInv'
<1>1. port \in Port /\ OneTransport /\ ArmingInv /\ HoldInv
    BY Types DEF Inv
<1>2. /\ port' \in Port
      /\ port'.hold = port.hold /\ port'.direct = port.direct
      /\ port'.replay = port.replay /\ port'.eos = port.eos
      /\ port'.pipe = port.pipe /\ port'.current = port.current /\ port'.closed = port.closed
    BY <1>1 DEF Port, LoadOrNone, None
<1>3. IsArming' <=> IsArming
    BY DEF IsArming
<1> QED
    BY <1>1, <1>2, <1>3 DEF OneTransport, ArmingInv, HoldInv

LEMMA LateKeepsInv ==
    ASSUME Inv, LateCommand
    PROVE  Inv'
<1>1. /\ TypeOK /\ late # Idle
      /\ late' = Idle /\ pumping' = pumping /\ gst' = gst /\ queue' = queue
      /\ stack' = stack /\ answer' = answer /\ loads' = loads
    BY DEF Inv, LateCommand, LateAttach, LateDetach, Idle
<1>2. /\ natively' \subseteq natively
      /\ residual' \subseteq residual \cup {late.watch}
      /\ port' = port \/ port' = [port EXCEPT !.watch = None]
      /\ faults' \in 0..MaxFaults
    <2>1. port \in Port /\ faults \in 0..MaxFaults
        BY <1>1, Types
    <2>2. CASE LateAttach
        BY <1>1, <2>1, <2>2, FaultyFacts DEF LateAttach
    <2>3. CASE LateDetach
        <3>1. port' = port \/ port' = [port EXCEPT !.watch = None]
            <4>1. port' = [port EXCEPT !.watch = IF @ = late.watch THEN None ELSE @]
                BY <2>3 DEF LateDetach
            <4> QED
                BY <2>1, <4>1 DEF Port
        <3> QED
            BY <2>1, <2>3, <3>1 DEF LateDetach
    <2> QED
        BY <2>2, <2>3 DEF LateCommand
<1>3. late.watch \in Loads
    BY <1>1, Types DEF LateCommands
<1>4. port' \in Port /\ OneTransport' /\ ArmingInv' /\ HoldInv'
    BY <1>1, <1>2, WatchDropped
<1>5. EventsInv'
    BY <1>1 DEF Inv, EventsInv
<1>6. natively' \subseteq Loads /\ residual' \subseteq Loads
    BY <1>1, <1>2, <1>3, Types
<1>7. TypeOK'
    BY <1>1, <1>2, <1>4, <1>6, Types, TypeParts
<1> QED
    BY <1>4, <1>5, <1>7 DEF Inv

LEMMA PumpDiesKeepsInv ==
    ASSUME Inv, PumpDies
    PROVE  Inv'
<1>1. /\ TypeOK /\ EventsInv
      /\ late' = late /\ gst' = gst /\ residual' = residual /\ stack' = stack
      /\ answer' = answer /\ loads' = loads /\ pumping' = "dead"
      /\ natively' \subseteq natively
      /\ port' = port \/ port' = [port EXCEPT !.watch = None]
    BY DEF Inv, PumpDies
<1>2. port' \in Port /\ OneTransport' /\ ArmingInv' /\ HoldInv'
    BY <1>1, WatchDropped
<1> DEFINE e == [gen |-> port.gen, kind |-> "DIED"]
<1>3. e \in Event /\ e.kind = "DIED"
    BY <1>1, Types DEF Event, Port
<1> HIDE DEF e
<1>4. queue' = Append(queue, e)
    BY DEF PumpDies, e
<1>5. queue' \in Seq(Event) /\ EventsInv'
    <2>1. queue \in Seq(Event) /\ Len(queue) \in Nat
        BY <1>1, Types
    <2>2. /\ queue' \in Seq(Event) /\ Len(queue') = Len(queue) + 1
          /\ \A i \in 1..Len(queue) : queue'[i] = queue[i]
          /\ queue'[Len(queue) + 1] = e
        BY <1>3, <1>4, <2>1, AppendProperties
    <2> QED
        BY <1>1, <1>3, <2>1, <2>2 DEF EventsInv
<1>6. faults' \in 0..MaxFaults
    BY <1>1, FaultyFacts, FaultyTwiceFacts DEF PumpDies
<1>7. TypeOK'
    BY <1>1, <1>2, <1>5, <1>6, Types, TypeParts
<1> QED
    BY <1>2, <1>5, <1>7 DEF Inv

-----------------------------------------------------------------------------
(* Steps of the owner's event loop                                         *)

(* A callback is the only handler then, and arms nothing.                  *)
LEMMA CallbackFacts ==
    ASSUME TypeOK, stack = <<>>, port.gen # None,
           NEW rest \in {"accepted", "ended"}, NEW calls \in BOOLEAN, Callback(rest, calls)
    PROVE  /\ stack' \in Seq(Frame) /\ stack' # <<>> /\ Len(stack') = 1
           /\ stack'[1].rest = rest /\ stack'[1].load = port.gen
           /\ ArmingInv' /\ ~IsArming'
<1> DEFINE f == [rest |-> rest, load |-> port.gen, held |-> FALSE, live |-> TRUE, calls |-> calls]
<1>1. f \in Frame /\ f.rest = rest /\ f.load = port.gen
    BY Types DEF Frame, Port, LoadOrNone
<1> HIDE DEF f
<1>2. stack' = <<f>> \o <<>> /\ <<>> \in Seq(Frame) /\ Len(<<>>) = 0
    BY DEF Callback, f
<1>3. stack' \in Seq(Frame) /\ stack' # <<>> /\ Len(stack') = 1 /\ stack'[1] = f
    BY <1>1, <1>2, PushFacts
<1>4. \A i \in 1..Len(stack') : ~Arming(stack'[i])
    BY <1>1, <1>3 DEF Arming
<1> QED
    BY <1>1, <1>3, <1>4, NothingArming

(* The end of a preroll accepts the candidate, or ends a replay, unless    *)
(* the candidate proves to be no Direct one; or nobody waits for it.       *)
LEMMA AcceptFacts ==
    ASSUME TypeOK, OneTransport, HoldInv, stack = <<>>, port.gen # None, Accept
    PROVE  /\ port' \in Port /\ port'.closing = port.closing /\ port'.closed = port.closed
           /\ gst' \in Pipelines /\ OneTransport' /\ HoldInv'
           /\ answer' \in Answers /\ stack' \in Seq(Frame) /\ ArmingInv' /\ ~IsArming'
           /\ late' = Idle \/ late' \in LateCommands
           /\ pumping' = pumping /\ residual' = residual
           /\ natively' \subseteq natively /\ faults' \in 0..MaxFaults
           /\ \/ /\ SameOwner(port, port') /\ UNCHANGED <<late, natively, stack, answer>>
                 /\ port'.state = port.state /\ port'.eos = port.eos /\ (port'.replay => port.replay)
              \/ /\ port.pending # None /\ ~port.replay /\ UNCHANGED <<late, natively>>
                 /\ port'.gen = port.gen /\ port'.pipe = port.pipe /\ port'.watch = port.watch
                 /\ port'.current = port.pending /\ port'.pending = None
                 /\ port'.state = port.state /\ port'.eos = port.eos /\ ~port'.replay
                 /\ Says(port.pending, "accepted")
                 /\ Callback("accepted", TRUE)
              \/ /\ port.pending # None \/ port.replay
                 /\ port'.gen = None /\ port'.pending = None /\ port'.current = None
                 /\ port'.state = port.state /\ ~port'.replay
                 /\ \/ /\ port'.pipe = port.pipe /\ port'.watch = port.watch
                       /\ natively' = natively /\ (late' = late \/ WatchStays)
                    \/ /\ port'.pipe = None
                       /\ port'.watch = IF port.pipe = None THEN port.watch ELSE None
                       /\ natively' = natively \ {port.watch} /\ late' = late
                 /\ Says(port.gen, "rejected") /\ stack' = stack
<1>1. /\ port \in Port /\ gst \in Pipelines /\ faults \in 0..MaxFaults /\ answer \in Answers
      /\ stack \in Seq(Frame) /\ (late = Idle \/ late \in LateCommands)
    BY Types
<1>2. ~IsArming /\ \A i \in 1..Len(stack) : ~Arming(stack[i])
    BY DEF IsArming
<1>3. stack' = stack => ArmingInv' /\ ~IsArming'
    BY <1>1, <1>2, NothingArming
<1>4. CASE port.pending = None /\ ~port.replay
    <2>1. UNCHANGED <<port, native, stack, answer, faults>>
        BY <1>4 DEF Accept
    <2>2. HoldInv' /\ OneTransport'
        BY <1>2, <2>1 DEF HoldInv, OneTransport, native, IsArming
    <2> QED
        BY <1>1, <1>3, <2>1, <2>2 DEF native, SameOwner
<1> DEFINE p == HoldArmed(port)
<1>5. /\ p \in Port /\ SameOwner(port, p) /\ p.direct = port.direct
      /\ p.hold = IF port.hold = "wanted" /\ port.direct THEN "armed" ELSE port.hold
      /\ p.replay = port.replay /\ p.eos = port.eos /\ p.state = port.state
    BY <1>1, HoldFacts
<1> HIDE DEF p
<1>6. CASE /\ UNCHANGED <<native, faults>> /\ port.replay
           /\ port' = [p EXCEPT !.replay = FALSE]
           /\ UNCHANGED <<stack, answer>>
    <2>1. /\ port' \in Port /\ SameOwner(port, port') /\ ~port'.replay
          /\ port'.hold = p.hold /\ port'.direct = p.direct
          /\ port'.eos = port.eos /\ port'.state = port.state
        BY <1>5, <1>6 DEF Port, SameOwner
    <2>2. port.current # None
        BY <1>2, <1>6 DEF HoldInv
    <2>3. HoldInv' /\ OneTransport'
        BY <1>2, <1>5, <1>6, <2>1, <2>2 DEF HoldInv, OneTransport, native, IsArming, SameOwner
    <2> QED
        BY <1>1, <1>3, <1>6, <2>1, <2>3 DEF native, SameOwner
<1>7. CASE /\ UNCHANGED <<native, faults>> /\ ~port.replay /\ port.pending # None
           /\ port' = [p EXCEPT !.current = port.pending, !.pending = None]
           /\ Says(port.pending, "accepted")
           /\ Callback("accepted", TRUE)
    <2>1. /\ port' \in Port /\ port'.gen = port.gen /\ port'.pipe = port.pipe
          /\ port'.watch = port.watch /\ port'.current = port.pending /\ port'.pending = None
          /\ port'.closing = port.closing /\ port'.closed = port.closed
          /\ port'.hold = p.hold /\ port'.direct = p.direct /\ ~port'.replay
          /\ port'.eos = port.eos /\ port'.state = port.state
        BY <1>1, <1>5, <1>7 DEF Port, SameOwner, LoadOrNone, None
    <2>2. stack' \in Seq(Frame) /\ ArmingInv' /\ ~IsArming'
        BY <1>7, CallbackFacts
    <2>3. HoldInv'
        BY <1>2, <1>5, <1>7, <2>1, <2>2 DEF HoldInv
    <2>4. OneTransport'
        BY <1>7, <2>1 DEF OneTransport, native
    <2>5. answer' \in Answers
        BY <1>1, <1>7, SaysFacts DEF Words
    <2> QED
        BY <1>1, <1>7, <2>1, <2>2, <2>3, <2>4, <2>5 DEF native
<1> DEFINE q == [Invalidated(port) EXCEPT !.pending = None, !.current = None, !.direct = FALSE]
           r == Released(q)
<1>8. /\ q \in Port /\ q.gen = None /\ q.pending = None /\ q.current = None
      /\ q.hold = "none" /\ ~q.replay /\ q.state = port.state
      /\ q.pipe = port.pipe /\ q.watch = port.watch
      /\ q.closing = port.closing /\ q.closed = port.closed
    <2> DEFINE i == Invalidated(port)
    <2>1. /\ i \in Port /\ i.gen = None /\ i.hold = "none" /\ ~i.replay /\ i.state = port.state
          /\ i.pipe = port.pipe /\ i.watch = port.watch
          /\ i.closing = port.closing /\ i.closed = port.closed
        BY <1>1, InvalidatedFacts
    <2> HIDE DEF i
    <2>2. q = [i EXCEPT !.pending = None, !.current = None, !.direct = FALSE]
        BY DEF i
    <2> HIDE DEF q
    <2> QED
        BY <2>1, <2>2 DEF Port, LoadOrNone, None
<1> HIDE DEF q
<1>9. /\ r \in Port /\ r.gen = None /\ r.pending = None /\ r.current = None
      /\ r.hold = "none" /\ ~r.replay /\ r.state = port.state
      /\ r.pipe = None /\ r.watch = IF port.pipe = None THEN port.watch ELSE None
      /\ r.closing = port.closing /\ r.closed = port.closed
    BY <1>8, ReleasedFacts
<1> HIDE DEF r
<1> DEFINE Rejected ==
              /\ port.pending # None \/ port.replay
              /\ Says(port.gen, "rejected") /\ UNCHANGED <<pumping, residual, stack>>
              /\ gst' \in Pipelines /\ OneTransport' /\ faults' \in 0..MaxFaults
              /\ late' = Idle \/ late' \in LateCommands
              /\ \/ port' = r /\ natively' = natively \ {port.watch} /\ late' = late
                 \/ port' = q /\ natively' = natively /\ (late' = late \/ WatchStays)
<1>10. CASE Rejected
    <2>1. answer' \in Answers
        BY <1>1, <1>10, SaysFacts DEF Words
    <2>2. HoldInv'
        BY <1>8, <1>9, <1>10 DEF HoldInv
    <2> QED
        BY <1>1, <1>3, <1>8, <1>9, <1>10, <2>1, <2>2
<1>11. ASSUME port.pending # None \/ port.replay, GivenUp("verify", q),
              Says(port.gen, "rejected"), UNCHANGED <<pumping, residual, stack>>
       PROVE  Rejected
    BY <1>11, GivenUpFacts DEF r
<1>12. ASSUME port.pending # None \/ port.replay, FaultyTwice("verify", "refuse"), port' = q,
              UNCHANGED <<late, gst, natively>>,
              Says(port.gen, "rejected"), UNCHANGED <<pumping, residual, stack>>
       PROVE  Rejected
    <2>1. OneTransport'
        BY <1>8, <1>12 DEF OneTransport
    <2> QED
        BY <1>1, <1>12, <2>1, FaultyTwiceFacts
<1> HIDE DEF Rejected
<1> QED
    BY <1>4, <1>6, <1>7, <1>10, <1>11, <1>12 DEF Accept, p, q

(* What the other events do to the port.                                   *)
LEMMA CommitStateFacts ==
    ASSUME port \in Port, NEW status \in {"PLAYING", "PAUSED", "STOPPED"}, CommitState(status)
    PROVE  /\ port' \in Port /\ SameOwner(port, port')
           /\ port'.hold = port.hold /\ port'.direct = port.direct
           /\ port'.replay = port.replay /\ port'.eos = port.eos
           /\ port'.state # port.state =>
                /\ status = "PLAYING" => ~IsCandidate
                /\ status = "PAUSED" => port.pending = None
                /\ port'.state = status
<1>1. \/ port' = [port EXCEPT !.deferred = @ \cup {"PLAYING"}]
      \/ /\ port' = [port EXCEPT !.state = status]
         /\ status = "PLAYING" => ~IsCandidate
         /\ status = "PAUSED" => port.pending = None
      \/ port' = port
    BY DEF CommitState, Defers, Shows
<1> QED
    BY <1>1 DEF Port, SameOwner

LEMMA EndedFacts ==
    ASSUME port \in Port
    PROVE  /\ Ended \in Port /\ SameOwner(port, Ended) /\ Ended.hold = port.hold
           /\ Ended.direct = port.direct /\ Ended.replay = port.replay
           /\ Ended.eos /\ Ended.state = "STOPPED"
BY DEF Ended, Port, SameOwner

LEMMA FailedFacts ==
    ASSUME port \in Port
    PROVE  /\ Failed \in Port /\ Failed.hold = "none" /\ ~Failed.replay
           /\ Failed.gen = port.gen /\ Failed.pending = None /\ Failed.current = None
           /\ Failed.pipe = port.pipe /\ Failed.watch = port.watch
           /\ Failed.closing = port.closing /\ Failed.closed = port.closed
           /\ Failed.eos = port.eos /\ Failed.state = port.state
BY DEF Failed, Port, LoadOrNone, None

LEMMA CommitErrorFacts ==
    ASSUME TypeOK, CommitError
    PROVE  /\ port' = Failed
           /\ port.pending = None /\ port.current = None => answer' = answer
           /\ port.pending # None \/ port.current # None => Says(port.gen, "rejected")
           /\ answer' \in Answers
<1>1. answer \in Answers
    BY Types
<1> QED
    BY <1>1, SaysFacts DEF CommitError, Words

LEMMA DispatchKeepsInv ==
    ASSUME Inv, Dispatch
    PROVE  Inv'
<1>1. /\ TypeOK /\ OneTransport /\ ArmingInv /\ EventsInv /\ HoldInv
      /\ stack = <<>> /\ queue # <<>> /\ queue' = Tail(queue) /\ loads' = loads
    BY DEF Inv, Dispatch
<1>2. /\ port \in Port /\ gst \in Pipelines /\ answer \in Answers
      /\ late = Idle \/ late \in LateCommands
      /\ pumping \in {"none", "alive", "dead"}
      /\ natively \subseteq Loads /\ residual \subseteq Loads
      /\ queue \in Seq(Event) /\ stack \in Seq(Frame)
      /\ loads \in 0..MaxLoads /\ faults \in 0..MaxFaults
    BY <1>1, Types
<1>3. Head(queue) \in Event /\ Head(queue) = queue[1] /\ 1 \in 1..Len(queue)
      /\ queue' \in Seq(Event) /\ EventsInv'
    <2>1. /\ Len(queue) \in Nat \ {0} /\ Head(queue) = queue[1]
          /\ Tail(queue) \in Seq(Event) /\ Len(Tail(queue)) = Len(queue) - 1
          /\ \A i \in 1..Len(queue) - 1 : Tail(queue)[i] = queue[i + 1]
        BY <1>1, <1>2, LenProperties, EmptySeq, HeadTailProperties
    <2>2. queue[1] \in Event
        BY <1>2, <2>1, ElementOfSeq
    <2>3. EventsInv'
        BY <1>1, <2>1 DEF EventsInv
    <2> QED
        BY <1>1, <2>1, <2>2, <2>3
<1>4. ~IsArming /\ \A i \in 1..Len(stack) : ~Arming(stack[i])
    BY <1>1 DEF IsArming
<1>5. stack' = stack => ArmingInv' /\ ~IsArming'
    BY <1>2, <1>4, NothingArming
<1> DEFINE e == Head(queue)
<1>6. e.gen = None => e.kind = "DIED"
    BY <1>1, <1>3 DEF EventsInv
<1>7. ASSUME /\ port' \in Port /\ gst' \in Pipelines /\ OneTransport' /\ HoldInv'
             /\ answer' \in Answers /\ stack' \in Seq(Frame) /\ ArmingInv'
             /\ late' = late \/ late' = Idle \/ late' \in LateCommands
             /\ pumping' = pumping /\ residual' = residual
             /\ natively' \subseteq natively /\ faults' \in 0..MaxFaults
      PROVE  Inv'
    BY <1>1, <1>2, <1>3, <1>7, TypeParts DEF Inv
<1>8. CASE UNCHANGED <<port, native, stack, answer, faults>>
    <2>1. HoldInv' /\ OneTransport'
        BY <1>1, <1>4, <1>8 DEF HoldInv, OneTransport, native, IsArming
    <2> QED
        BY <1>2, <1>5, <1>7, <1>8, <2>1 DEF native
<1>9. CASE ~IsStale(e) /\ Commit(e.kind)
    <2>1. e.gen = port.gen
        BY <1>9 DEF IsStale
    <2>2. CASE e.kind = "ASYNC_DONE" /\ Accept
        <3>1. port.gen # None
            BY <1>6, <2>1, <2>2
        <3> QED
            BY <1>1, <1>7, <2>2, <3>1, AcceptFacts
    <2>3. CASE /\ e.kind \in {"PLAYING", "PAUSED", "STOPPED"}
               /\ CommitState(e.kind)
               /\ UNCHANGED <<native, stack, answer, faults>>
        <3>1. /\ port' \in Port /\ SameOwner(port, port')
              /\ port'.hold = port.hold /\ port'.direct = port.direct
              /\ port'.replay = port.replay /\ port'.eos = port.eos
            BY <1>2, <2>3, CommitStateFacts
        <3>2. HoldInv' /\ OneTransport'
            BY <1>1, <1>4, <2>3, <3>1 DEF HoldInv, OneTransport, native, IsArming, SameOwner
        <3> QED
            BY <1>2, <1>5, <1>7, <2>3, <3>1, <3>2 DEF native
    <2>4. CASE e.kind = "EOS" /\ CommitEos /\ UNCHANGED <<native, answer, faults>>
        <3>1. CASE IsCandidate
            <4>1. port' = [port EXCEPT !.deferred = @ \cup {"EOS"}] /\ stack' = stack
                BY <2>4, <3>1 DEF CommitEos, Defers
            <4>2. /\ port' \in Port /\ SameOwner(port, port')
                  /\ port'.hold = port.hold /\ port'.direct = port.direct
                  /\ port'.replay = port.replay /\ port'.eos = port.eos
                BY <1>2, <4>1 DEF Port, SameOwner
            <4>3. HoldInv' /\ OneTransport'
                BY <1>1, <1>4, <2>4, <4>1, <4>2 DEF HoldInv, OneTransport, native, IsArming, SameOwner
            <4> QED
                BY <1>2, <1>5, <1>7, <2>4, <4>1, <4>2, <4>3 DEF native
        <3>2. CASE ~IsCandidate /\ port.current # None /\ port.play /\ ~port.eos
            <4>1. port' = Ended /\ Callback("ended", port.state # "STOPPED")
                BY <2>4, <3>2 DEF CommitEos
            <4>2. port.gen # None
                BY <1>6, <2>1, <2>4
            <4>3. stack' \in Seq(Frame) /\ ArmingInv' /\ ~IsArming'
                <5>1. (port.state # "STOPPED") \in BOOLEAN
                    OBVIOUS
                <5> QED
                    BY <1>1, <4>1, <4>2, <5>1, CallbackFacts
            <4>4. HoldInv' /\ OneTransport'
                BY <1>1, <1>2, <1>4, <2>4, <3>2, <4>1, EndedFacts
                DEF HoldInv, OneTransport, native, SameOwner
            <4> QED
                BY <1>2, <1>7, <2>4, <4>1, <4>3, <4>4, EndedFacts DEF native
        <3>3. CASE UNCHANGED <<port, stack>>
            BY <1>8, <2>4, <3>3
        <3> QED
            BY <2>4, <3>1, <3>2, <3>3 DEF CommitEos
    <2>5. CASE e.kind = "ERROR" /\ CommitError /\ UNCHANGED <<native, stack, faults>>
        <3>1. port' = Failed /\ answer' \in Answers
            BY <1>1, <2>5, CommitErrorFacts
        <3>2. HoldInv' /\ OneTransport' /\ port' \in Port
            BY <1>1, <1>2, <2>5, <3>1, FailedFacts DEF HoldInv, OneTransport, native
        <3> QED
            BY <1>2, <1>5, <1>7, <2>5, <3>1, <3>2 DEF native
    <2>6. CASE e.kind = "DIED" /\ CommitDeath /\ UNCHANGED <<native, stack, answer, faults>>
        <3>1. /\ port' \in Port /\ SameOwner(port, port')
              /\ port'.hold = "none" /\ ~port'.replay /\ port'.eos = port.eos
            BY <1>2, <2>6 DEF CommitDeath, Port, SameOwner
        <3>2. HoldInv' /\ OneTransport'
            BY <1>1, <2>6, <3>1 DEF HoldInv, OneTransport, native, SameOwner
        <3> QED
            BY <1>2, <1>5, <1>7, <2>6, <3>1, <3>2 DEF native
    <2> QED
        BY <1>9, <2>2, <2>3, <2>4, <2>5, <2>6 DEF Commit
<1> QED
    BY <1>8, <1>9 DEF Dispatch

-----------------------------------------------------------------------------
(* What is left of a handler                                               *)

(* A load that goes on, arms its pipeline, or fails and leaves the port    *)
(* without a candidate; whatever it did, the pipeline is its own.          *)
LEMMA AttemptsFacts ==
    ASSUME TypeOK, Silent, NEW f \in Frame, Attempts(f), port.pipe = None
    PROVE  /\ port' \in Port /\ port'.closing = port.closing /\ port'.closed = port.closed
           /\ port'.current = None /\ ~port'.eos /\ ~port'.replay /\ port'.state = port.state
           /\ port'.hold \in {"none", "wanted"}
           /\ port'.pipe \in {None, f.load}
           /\ gst' \in Pipelines /\ OneTransport'
           /\ answer' \in Answers /\ pumping' \in {"none", "alive", "dead"}
           /\ natively' \subseteq natively \cup {f.load} /\ residual' = residual
           /\ late' = Idle \/ late' \in LateCommands
           /\ faults' \in 0..MaxFaults
           /\ \/ /\ port'.gen = f.load /\ port'.pending = f.load /\ port'.pipe = f.load
                 /\ answer' = answer
              \/ /\ port'.gen = None /\ port'.pending = None
                 /\ answer' = answer
              \/ /\ port'.gen = f.load /\ port'.pending = None
                 /\ Says(f.load, "rejected")
<1>1. /\ port \in Port /\ gst \in Pipelines /\ faults \in 0..MaxFaults /\ answer \in Answers
      /\ pumping \in {"none", "alive", "dead"} /\ (late = Idle \/ late \in LateCommands)
    BY Types
<1>2. f.load \in Loads
    BY DEF Frame
<1>3. pumping' \in {"none", "alive", "dead"}
    BY <1>1 DEF Attempts
<1> DEFINE c == Candidate(f)
<1>4. /\ c \in Port /\ c.gen = f.load /\ c.pending = f.load /\ c.current = None
      /\ ~c.eos /\ ~c.replay /\ c.hold \in {"wanted", "none"} /\ c.state = port.state
      /\ c.pipe = port.pipe /\ c.watch = port.watch
      /\ c.closing = port.closing /\ c.closed = port.closed
    BY <1>1, CandidateFacts
<1> HIDE DEF c
<1>5. CASE Arms(f)
    <2>1. /\ port' = [c EXCEPT !.pipe = f.load, !.watch = f.load]
          /\ gst' = [gst EXCEPT ![f.load].to = "PAUSED"]
          /\ natively' = natively \cup {f.load}
          /\ UNCHANGED <<late, residual, faults, answer>>
        BY <1>5 DEF Arms, c
    <2>2. /\ port' \in Port /\ port'.closing = port.closing /\ port'.closed = port.closed
          /\ port'.current = None /\ ~port'.eos /\ ~port'.replay /\ port'.state = port.state
          /\ port'.hold \in {"none", "wanted"} /\ port'.pipe = f.load
          /\ port'.gen = f.load /\ port'.pending = f.load
        BY <1>2, <1>4, <2>1 DEF Port, LoadOrNone
    <2>3. gst' \in Pipelines /\ OneTransport'
        BY <1>1, <1>2, <2>1, <2>2 DEF Pipelines, OneTransport, Silent
    <2> QED
        BY <1>1, <1>3, <2>1, <2>2, <2>3
<1>6. CASE RollsBack(f)
    <2> DEFINE p == Cleared(c)
    <2>1. /\ p \in Port /\ p.gen = None /\ p.hold = "none" /\ ~p.replay /\ ~p.eos
          /\ p.pending = None /\ p.current = None /\ p.state = port.state
          /\ p.closing = port.closing /\ p.closed = port.closed
        BY <1>4, ClearedFacts
    <2> HIDE DEF p
    <2>2. \E pipe \in {None, f.load}, watch \in LoadOrNone :
             port' = [p EXCEPT !.watch = watch, !.pipe = pipe]
        <3>1. None \in LoadOrNone /\ f.load \in LoadOrNone /\ p.watch \in LoadOrNone
            BY <1>2, <2>1 DEF LoadOrNone, Port
        <3>2. ASSUME NEW detached \in BOOLEAN, port' = RolledBack(f, detached)
              PROVE  \E pipe \in {None, f.load}, watch \in LoadOrNone :
                        port' = [p EXCEPT !.watch = watch, !.pipe = pipe]
            <4>1. port' = [p EXCEPT !.watch = IF detached THEN None ELSE @,
                                    !.pipe = IF port.watch = None \/ detached THEN None ELSE f.load]
                BY <3>2 DEF RolledBack, p, c
            <4>2. port' = [p EXCEPT !.watch = IF detached THEN None ELSE p.watch,
                                    !.pipe = IF port.watch = None \/ detached THEN None ELSE f.load]
                BY <2>1, <4>1 DEF Port
            <4> QED
                BY <3>1, <4>2
        <3>3. CASE port' = RolledBack(f, PumpServes)
            <4>1. PumpServes \in BOOLEAN
                BY DEF PumpServes
            <4> QED
                BY <3>2, <3>3, <4>1
        <3>4. CASE port' = RolledBack(f, FALSE)
            BY <3>2, <3>4
        <3>5. CASE port' = [p EXCEPT !.pipe = f.load, !.watch = f.load]
            <4>1. port' = [p EXCEPT !.watch = f.load, !.pipe = f.load]
                BY <2>1, <3>5 DEF Port
            <4> QED
                BY <3>1, <4>1
        <3> QED
            BY <1>6, <3>3, <3>4, <3>5 DEF RollsBack, p, c
    <2>3. /\ port' \in Port /\ port'.closing = port.closing /\ port'.closed = port.closed
          /\ port'.current = None /\ ~port'.eos /\ ~port'.replay /\ port'.state = port.state
          /\ port'.hold = "none" /\ port'.pipe \in {None, f.load}
          /\ port'.gen = None /\ port'.pending = None
        BY <1>2, <2>1, <2>2 DEF Port, LoadOrNone
    <2>4. /\ gst' = gst /\ residual' = residual /\ answer' = answer
          /\ natively' \subseteq natively \cup {f.load}
        BY <1>6 DEF RollsBack
    <2>5. late' = Idle \/ late' \in LateCommands
        <3>1. late' = late \/ late' = [does |-> "attach", watch |-> f.load]
            BY <1>6 DEF RollsBack
        <3> QED
            BY <1>1, <1>2, <3>1 DEF LateCommands
    <2>6. faults' \in 0..MaxFaults
        BY <1>1, <1>6, FaultyFacts DEF RollsBack
    <2>7. OneTransport'
        BY <2>4 DEF OneTransport, Silent
    <2> QED
        BY <1>1, <1>3, <2>3, <2>4, <2>5, <2>6, <2>7
<1>7. CASE RefusesPreroll(f)
    <2>1. \E pipe \in {None, f.load}, watch \in {None, f.load} :
             port' = [c EXCEPT !.pending = None, !.direct = FALSE, !.pipe = pipe, !.watch = watch]
        BY <1>7 DEF RefusesPreroll, c
    <2>2. /\ port' \in Port /\ port'.closing = port.closing /\ port'.closed = port.closed
          /\ port'.current = None /\ ~port'.eos /\ ~port'.replay /\ port'.state = port.state
          /\ port'.hold \in {"none", "wanted"} /\ port'.pipe \in {None, f.load}
          /\ port'.gen = f.load /\ port'.pending = None
        BY <1>2, <1>4, <2>1 DEF Port, LoadOrNone, None
    <2>3. /\ UNCHANGED <<gst, residual>> /\ Says(f.load, "rejected")
          /\ \/ Faulty("refuse") /\ UNCHANGED <<late, natively>>
             \/ KeepsWatch("refuse", f.load) /\ natively' = natively \cup {f.load}
        BY <1>7 DEF RefusesPreroll
    <2>4. /\ faults' \in 0..MaxFaults /\ answer' \in Answers
          /\ late' = Idle \/ late' \in LateCommands
        BY <1>1, <1>2, <2>3, FaultyFacts, KeepsWatchFacts, SaysFacts DEF Words
    <2>5. OneTransport'
        BY <2>3 DEF OneTransport, Silent
    <2> QED
        BY <1>1, <1>3, <2>2, <2>3, <2>4, <2>5
<1> QED
    BY <1>5, <1>6, <1>7 DEF Attempts

(* A handler that goes on makes room for the one below, which arms nothing *)
(* by then.                                                                *)
LEMMA ReturnFacts ==
    ASSUME TypeOK, ArmingInv, stack # <<>>, stack' = Tail(stack)
    PROVE  /\ stack' \in Seq(Frame) /\ ArmingInv' /\ ~IsArming'
           /\ Len(stack') = Len(stack) - 1 /\ Len(stack) \in Nat \ {0}
           /\ \A i \in 1..Len(stack') : i + 1 \in 2..Len(stack) /\ stack'[i] = stack[i + 1]
<1>1. stack \in Seq(Frame)
    BY Types
<1>2. /\ stack' \in Seq(Frame) /\ Len(stack') = Len(stack) - 1 /\ Len(stack) \in Nat \ {0}
      /\ \A i \in 1..Len(stack') : i + 1 \in 2..Len(stack) /\ stack'[i] = stack[i + 1]
    BY <1>1, PopFacts
<1>3. \A i \in 1..Len(stack') : ~Arming(stack'[i])
    BY <1>2 DEF ArmingInv
<1> QED
    BY <1>2, <1>3, NothingArming

LEMMA ContinueFacts ==
    ASSUME TypeOK, ArmingInv, stack # <<>>, NEW rest \in {"played", "ended"}, NEW calls \in BOOLEAN,
           Continue(rest, calls)
    PROVE  /\ stack' \in Seq(Frame) /\ stack' # <<>> /\ ArmingInv' /\ ~IsArming'
           /\ Len(stack') = Len(stack) /\ Len(stack) \in Nat \ {0}
           /\ stack'[1].rest = rest /\ stack'[1].load = stack[1].load
           /\ \A i \in 2..Len(stack) : stack'[i] = stack[i]
<1>1. stack \in Seq(Frame)
    BY Types
<1>2. /\ Len(stack) \in Nat \ {0} /\ Head(stack) = stack[1] /\ stack[1] \in Frame
      /\ Tail(stack) \in Seq(Frame) /\ Len(Tail(stack)) = Len(stack) - 1
      /\ \A i \in 1..Len(stack) - 1 : i + 1 \in 2..Len(stack) /\ Tail(stack)[i] = stack[i + 1]
    BY <1>1, PopFacts
<1> DEFINE f == [stack[1] EXCEPT !.rest = rest, !.calls = calls]
           t == Tail(stack)
<1>3. f \in Frame /\ f.rest = rest /\ f.load = stack[1].load
    BY <1>2 DEF Frame
<1>4. stack' = <<f>> \o t
    BY <1>2 DEF Continue
<1>5. t \in Seq(Frame) /\ Len(t) = Len(stack) - 1
    BY <1>2
<1> HIDE DEF f
<1>6. /\ stack' \in Seq(Frame) /\ stack' # <<>> /\ Len(stack') = Len(t) + 1
      /\ stack'[1] = f
      /\ \A i \in 2..Len(t) + 1 : i - 1 \in 1..Len(t) /\ stack'[i] = t[i - 1]
    <2> HIDE DEF t
    <2> QED
        BY <1>3, <1>4, <1>5, PushFacts
<1>7. \A i \in 2..Len(stack) : stack'[i] = stack[i]
    BY <1>2, <1>5, <1>6
<1>8. \A i \in 1..Len(stack') : ~Arming(stack'[i])
    BY <1>2, <1>3, <1>5, <1>6, <1>7 DEF ArmingInv, Arming
<1> QED
    BY <1>2, <1>3, <1>5, <1>6, <1>7, <1>8, NothingArming

(* What the rest of an acceptance, or of an end, does to the port.         *)
LEMMA RestFacts ==
    ASSUME TypeOK, stack # <<>>, NEW f, f = Head(stack), Accepted(f) \/ Played(f) \/ EndOfMedia(f)
    PROVE  /\ f \in Frame /\ f = stack[1] /\ f.rest # "arm" /\ ~IsArming
           /\ answer' \in Answers
           /\ port' \in Port /\ SameOwner(port, port') /\ port'.hold = port.hold
           /\ port'.direct = port.direct /\ port'.replay = port.replay
           /\ \/ /\ Accepted(f) /\ StillIts(f) /\ port'.eos = port.eos
                 /\ port'.state \in {port.state, "PLAYING"}
                 /\ \E calls \in BOOLEAN : Continue("played", calls)
                 /\ answer' = answer
              \/ /\ Played(f) /\ StillIts(f) /\ port'.eos /\ port'.state = "STOPPED"
                 /\ \E calls \in BOOLEAN : Continue("ended", calls)
                 /\ answer' = answer
              \/ /\ EndOfMedia(f) /\ StillIts(f) /\ port.eos
                 /\ Says(f.load, "ended") /\ stack' = Tail(stack)
                 /\ port' = port
              \/ /\ stack' = Tail(stack) /\ answer' = answer /\ port' = port
<1>1. port \in Port /\ answer \in Answers /\ stack \in Seq(Frame)
    BY Types
<1>2. f \in Frame /\ f = stack[1]
    BY <1>1, PopFacts
<1>3. f.rest # "arm" /\ ~IsArming
    BY <1>2 DEF Accepted, Played, EndOfMedia, IsArming, Arming
<1>4. CASE Accepted(f)
    <2>1. CASE StillIts(f)
        <3>1. \/ port' = [port EXCEPT !.deferred = @ \ {"PLAYING"}, !.state = "PLAYING"]
              \/ port' = port
            BY <1>4, <2>1 DEF Accepted
        <3>2. /\ port' \in Port /\ SameOwner(port, port') /\ port'.hold = port.hold
              /\ port'.direct = port.direct /\ port'.replay = port.replay
              /\ port'.eos = port.eos /\ port'.state \in {port.state, "PLAYING"}
          <4>1. CASE port' = port
            BY <1>1, <4>1 DEF SameOwner
          <4>2. CASE port' = [port EXCEPT !.deferred = @ \ {"PLAYING"}, !.state = "PLAYING"]
            BY <1>1, <4>2 DEF Port, SameOwner
          <4> QED
            BY <3>1, <4>1, <4>2
        <3>3. Continue("played", port'.state # port.state) /\ answer' = answer
            BY <1>4, <2>1 DEF Accepted
        <3>4. (port'.state # port.state) \in BOOLEAN
            OBVIOUS
        <3> QED
            BY <1>1, <1>2, <1>3, <1>4, <2>1, <3>2, <3>3, <3>4
    <2>2. CASE ~StillIts(f)
        BY <1>1, <1>2, <1>3, <1>4, <2>2 DEF Accepted, Return, SameOwner
    <2> QED
        BY <2>1, <2>2
<1>5. CASE Played(f)
    <2>1. CASE StillIts(f) /\ "EOS" \in port.deferred
        <3>1. Ended \in Port /\ SameOwner(port, Ended) /\ Ended.hold = port.hold
              /\ Ended.direct = port.direct /\ Ended.replay = port.replay
              /\ Ended.eos /\ Ended.state = "STOPPED"
            BY <1>1, EndedFacts
        <3>2. port' = [Ended EXCEPT !.deferred = @ \ {"EOS"}]
              /\ Continue("ended", port.state # "STOPPED") /\ answer' = answer
            BY <1>5, <2>1 DEF Played
        <3>3. /\ port' \in Port /\ SameOwner(port, port') /\ port'.hold = port.hold
              /\ port'.direct = port.direct /\ port'.replay = port.replay
              /\ port'.eos /\ port'.state = "STOPPED"
            BY <3>1, <3>2 DEF Port, SameOwner
        <3>4. (port.state # "STOPPED") \in BOOLEAN
            OBVIOUS
        <3> QED
            BY <1>1, <1>2, <1>3, <1>5, <2>1, <3>2, <3>3, <3>4
    <2>2. CASE ~(StillIts(f) /\ "EOS" \in port.deferred)
        BY <1>1, <1>2, <1>3, <1>5, <2>2 DEF Played, Return, SameOwner
    <2> QED
        BY <2>1, <2>2
<1>6. CASE EndOfMedia(f)
    <2>1. CASE StillIts(f) /\ port.eos
        <3>1. answer' \in Answers
            BY <1>1, <1>6, <2>1, SaysFacts DEF EndOfMedia, Words
        <3> QED
            BY <1>1, <1>2, <1>3, <1>6, <2>1, <3>1 DEF EndOfMedia, Return, SameOwner
    <2>2. CASE ~(StillIts(f) /\ port.eos)
        BY <1>1, <1>2, <1>3, <1>6, <2>2 DEF EndOfMedia, Return, SameOwner
    <2> QED
        BY <2>1, <2>2
<1> QED
    BY <1>4, <1>5, <1>6

LEMMA ResumeKeepsInv ==
    ASSUME Inv, Resume
    PROVE  Inv'
<1> DEFINE f == Head(stack)
<1>1. /\ TypeOK /\ OneTransport /\ ArmingInv /\ EventsInv /\ HoldInv /\ stack # <<>>
    BY DEF Inv, Resume
<1>2. f \in Frame /\ f = stack[1]
    BY <1>1, PopFacts, Types
<1>3. ASSUME queue' = queue, loads' = loads, port' \in Port, gst' \in Pipelines, answer' \in Answers,
             late' = Idle \/ late' \in LateCommands, pumping' \in {"none", "alive", "dead"},
             natively' \subseteq Loads, residual' \subseteq Loads, stack' \in Seq(Frame),
             faults' \in 0..MaxFaults, OneTransport', ArmingInv', HoldInv'
      PROVE  Inv'
    <2>1. EventsInv'
        BY <1>1, <1>3 DEF EventsInv
    <2>2. TypeOK'
        BY <1>1, <1>3, Types, TypeParts
    <2> QED
        BY <1>3, <2>1, <2>2 DEF Inv
<1>4. CASE Arm(f)
    <2>1. /\ f.rest = "arm" /\ stack' = Tail(stack) /\ queue' = queue /\ loads' = loads
        BY <1>4 DEF Arm
    <2>2. stack' \in Seq(Frame) /\ ArmingInv' /\ ~IsArming'
        BY <1>1, <2>1, ReturnFacts
    <2>3. CASE ~f.live /\ UNCHANGED <<port, native, answer, faults>>
        <3>1. ~IsArming
            BY <1>2, <2>3 DEF IsArming, Arming
        <3>2. OneTransport' /\ HoldInv'
            BY <1>1, <2>2, <2>3, <3>1 DEF OneTransport, HoldInv, native
        <3> QED
            BY <1>1, <1>3, <2>1, <2>2, <2>3, <3>2, Types DEF native
    <2>4. CASE f.live /\ Attempts(f)
        <3>1. port.pipe = None
            BY <1>1, <1>2, <2>1, <2>4 DEF ArmingInv, IsArming, Arming
        <3>2. Silent
            BY <1>1, <3>1 DEF Silent, OneTransport, Loads, None
        <3>3. HoldInv'
            BY <1>1, <1>2, <2>4, <3>1, <3>2, AttemptsFacts DEF HoldInv
        <3>4. natively' \subseteq Loads /\ residual' \subseteq Loads
            BY <1>1, <1>2, <2>4, <3>1, <3>2, AttemptsFacts, Types DEF Frame
        <3> QED
            BY <1>1, <1>2, <1>3, <2>1, <2>2, <2>4, <3>1, <3>2, <3>3, <3>4, AttemptsFacts
    <2> QED
        BY <1>4, <2>3, <2>4 DEF Arm
<1>5. CASE /\ Accepted(f) \/ Played(f) \/ EndOfMedia(f)
           /\ UNCHANGED <<native, queue, loads, faults>>
    <2>1. stack' \in Seq(Frame) /\ ArmingInv' /\ ~IsArming'
        BY <1>1, <1>5, RestFacts, ReturnFacts, ContinueFacts
    <2>2. /\ ~IsArming /\ port' \in Port /\ SameOwner(port, port') /\ port'.hold = port.hold
          /\ port'.direct = port.direct /\ port'.replay = port.replay
          /\ port'.eos = port.eos \/ port.current # None
          /\ answer' \in Answers
        BY <1>1, <1>5, RestFacts DEF StillIts
    <2>3. OneTransport' /\ HoldInv'
        BY <1>1, <1>5, <2>2 DEF OneTransport, HoldInv, native, SameOwner
    <2> QED
        BY <1>1, <1>3, <1>5, <2>1, <2>2, <2>3, Types DEF native
<1> QED
    BY <1>4, <1>5 DEF Resume

LEMMA DeadlineKeepsInv ==
    ASSUME Inv, Deadline
    PROVE  Inv'
<1>1. /\ TypeOK /\ OneTransport /\ ArmingInv /\ EventsInv /\ HoldInv
      /\ stack = <<>> /\ port.hold = "armed"
      /\ late' = late /\ pumping' = pumping /\ natively' = natively /\ residual' = residual
      /\ queue' = queue /\ stack' = stack /\ loads' = loads
    BY DEF Inv, Deadline
<1>2. port \in Port /\ gst \in Pipelines /\ answer \in Answers
    BY <1>1, Types
<1>3. ~IsArming /\ ~IsArming'
    BY <1>1 DEF IsArming
<1>4. /\ port' \in Port /\ port'.pipe = port.pipe /\ port'.closed = port.closed
      /\ gst' \in Pipelines /\ OnlyOwnAsked /\ answer' \in Answers /\ faults' \in 0..MaxFaults
      /\ \/ /\ port'.hold # "none" /\ port'.direct = port.direct /\ port'.replay = port.replay
            /\ port'.eos = port.eos /\ port'.current = port.current
         \/ port'.hold = "none" /\ ~port'.replay
    <2>1. CASE /\ port' = [port EXCEPT !.hold = "due"]
               /\ UNCHANGED <<gst, answer, faults>>
        BY <1>1, <1>2, <2>1, Types DEF Port, OnlyOwnAsked
    <2>2. CASE /\ Accepts("PLAYING")
               /\ port' = [port EXCEPT !.hold = "over"]
               /\ UNCHANGED answer
        <3>1. gst' \in Pipelines /\ OnlyOwnAsked /\ faults' \in 0..MaxFaults
            BY <1>1, <1>2, <2>2, AcceptsFacts, Types DEF Accepts
        <3> QED
            BY <1>2, <2>2, <3>1 DEF Port
    <2>3. CASE Refuses /\ CommitError
        BY <1>1, <1>2, <2>3, FaultyFacts, CommitErrorFacts, FailedFacts DEF Refuses, OnlyOwnAsked
    <2> QED
        BY <2>1, <2>2, <2>3 DEF Deadline
<1>5. OneTransport' /\ HoldInv' /\ ArmingInv' /\ EventsInv'
    <2>1. HoldInv'
        BY <1>1, <1>3, <1>4 DEF HoldInv
    <2>2. ArmingInv' /\ EventsInv'
        BY <1>1, <1>3 DEF ArmingInv, EventsInv
    <2> QED
        BY <1>1, <1>4, <2>1, <2>2, OwnTransport
<1>6. TypeOK'
    BY <1>1, <1>4, Types, TypeParts
<1> QED
    BY <1>5, <1>6 DEF Inv

-----------------------------------------------------------------------------
(* The transport                                                           *)

LEMMA InitInv ==
    ASSUME Init
    PROVE  Inv
<1>1. TypeOK
    BY BoundsAssumption DEF Init, TypeOK, LoadOrNone, None, Idle, Words
<1>2. OneTransport
    BY DEF Init, OneTransport
<1>3. ArmingInv /\ EventsInv /\ HoldInv
    BY DEF Init, ArmingInv, EventsInv, HoldInv, IsArming
<1> QED
    BY <1>1, <1>2, <1>3 DEF Inv

LEMMA NextInv ==
    ASSUME Inv, [Next]_vars
    PROVE  Inv'
<1>1. CASE \E held \in BOOLEAN : Load(held)
    BY <1>1, LoadKeepsInv
<1>2. CASE Play
    BY <1>2, PlayKeepsInv
<1>3. CASE Pause
    BY <1>3, PauseKeepsInv
<1>4. CASE Stop
    BY <1>4, StopKeepsInv
<1>5. CASE Close
    BY <1>5, CloseKeepsInv
<1>6. CASE \E w \in natively : Emit(w)
    BY <1>6, EmitKeepsInv
<1>7. CASE LateCommand
    BY <1>7, LateKeepsInv
<1>8. CASE PumpDies
    BY <1>8, PumpDiesKeepsInv
<1>9. CASE Dispatch
    BY <1>9, DispatchKeepsInv
<1>10. CASE Resume
    BY <1>10, ResumeKeepsInv
<1>11. CASE Deadline
    BY <1>11, DeadlineKeepsInv
<1>12. CASE UNCHANGED vars
    BY <1>12 DEF vars, Inv, TypeOK, OneTransport, ArmingInv, EventsInv, HoldInv, IsArming
<1> QED
    BY <1>1, <1>2, <1>3, <1>4, <1>5, <1>6, <1>7, <1>8, <1>9, <1>10, <1>11, <1>12
    DEF Next, Owner, Pump

THEOREM Inductive == Spec => []Inv
BY InitInv, NextInv, PTL DEF Spec

LEMMA HoldIsHeld ==
    ASSUME Inv
    PROVE  HoldIsOwned
BY DEF Inv, HoldInv, HoldIsOwned, IsArming

(* Whatever fails, and whether or not a port whose close failed is used    *)
(* again: the pipeline the port owns is the only one that can make a       *)
(* sound, and a hold belongs to the source of a Direct load.               *)
THEOREM OnePipelineSounds == Spec => [](TypeOK /\ OneTransport /\ HoldIsOwned)
<1>1. Inv => TypeOK /\ OneTransport /\ HoldIsOwned
    BY HoldIsHeld DEF Inv
<1> QED
    BY <1>1, Inductive, PTL

-----------------------------------------------------------------------------
(* What the steps do to the stack and to the port, for the invariants      *)
(* about the watches and about the words                                   *)

LEMMA DispatchCases ==
    ASSUME Inv, Dispatch
    PROVE  /\ stack = <<>> /\ ~port.closed /\ queue' = Tail(queue) /\ loads' = loads
           /\ \/ /\ UNCHANGED <<late, pumping, natively, residual, stack, answer>>
                 /\ SameOwner(port, port') /\ port'.eos = port.eos /\ (port'.replay => port.replay)
                 /\ port'.state # port.state =>
                      port.gen # None /\ (IsCandidate => port'.state = "STOPPED")
              \/ /\ UNCHANGED <<late, pumping, natively, residual, answer>>
                 /\ port.gen # None /\ port.current # None /\ ~port.eos
                 /\ port' = Ended /\ \E calls \in BOOLEAN : Callback("ended", calls)
              \/ /\ UNCHANGED <<late, pumping, natively, residual, stack>>
                 /\ port.gen # None /\ CommitError
              \/ port.gen # None /\ Accept
<1>1. /\ TypeOK /\ EventsInv /\ stack = <<>> /\ queue # <<>> /\ ~port.closed
      /\ queue' = Tail(queue) /\ loads' = loads
    BY DEF Inv, Dispatch
<1>2. port \in Port /\ queue \in Seq(Event)
    BY <1>1, Types
<1> DEFINE e == Head(queue)
<1>3. e \in Event /\ (e.gen = None => e.kind = "DIED")
    <2>1. Len(queue) \in Nat \ {0} /\ Head(queue) = queue[1]
        BY <1>1, <1>2, LenProperties, EmptySeq, HeadTailProperties
    <2>2. queue[1] \in Event
        BY <1>2, <2>1, ElementOfSeq
    <2> QED
        BY <1>1, <2>1, <2>2 DEF EventsInv
<1>4. CASE UNCHANGED <<port, native, stack, answer, faults>>
    BY <1>1, <1>4 DEF native, SameOwner
<1>5. CASE ~IsStale(e) /\ Commit(e.kind)
    <2>1. e.gen = port.gen
        BY <1>5 DEF IsStale
    <2>2. CASE e.kind = "ASYNC_DONE" /\ Accept
        BY <1>1, <1>3, <2>1, <2>2
    <2>3. CASE /\ e.kind \in {"PLAYING", "PAUSED", "STOPPED"}
               /\ CommitState(e.kind)
               /\ UNCHANGED <<native, stack, answer, faults>>
        <3>1. /\ port' \in Port /\ SameOwner(port, port')
              /\ port'.replay = port.replay /\ port'.eos = port.eos
              /\ port'.state # port.state =>
                   /\ e.kind = "PLAYING" => ~IsCandidate
                   /\ e.kind = "PAUSED" => port.pending = None
                   /\ port'.state = e.kind
            BY <1>2, <2>3, CommitStateFacts
        <3>2. port.gen # None
            BY <1>3, <2>1, <2>3
        <3>3. port'.state # port.state /\ IsCandidate => port'.state = "STOPPED"
            BY <2>3, <3>1 DEF IsCandidate
        <3> QED
            BY <1>1, <2>3, <3>1, <3>2, <3>3 DEF native, IsCandidate
    <2>4. CASE e.kind = "EOS" /\ CommitEos /\ UNCHANGED <<native, answer, faults>>
        <3>1. CASE IsCandidate
            <4>1. port' = [port EXCEPT !.deferred = @ \cup {"EOS"}] /\ stack' = stack
                BY <2>4, <3>1 DEF CommitEos, Defers
            <4>2. SameOwner(port, port') /\ port'.eos = port.eos /\ port'.replay = port.replay
                  /\ port'.state = port.state
                BY <1>2, <4>1 DEF Port, SameOwner
            <4> QED
                BY <1>1, <2>4, <4>1, <4>2 DEF native
        <3>2. CASE ~IsCandidate /\ port.current # None /\ port.play /\ ~port.eos
            <4>1. port' = Ended /\ Callback("ended", port.state # "STOPPED")
                BY <2>4, <3>2 DEF CommitEos
            <4>2. port.gen # None
                BY <1>3, <2>1, <2>4
            <4>3. (port.state # "STOPPED") \in BOOLEAN
                OBVIOUS
            <4> QED
                BY <1>1, <2>4, <3>2, <4>1, <4>2, <4>3 DEF native
        <3>3. CASE UNCHANGED <<port, stack>>
            BY <1>1, <2>4, <3>3 DEF native, SameOwner
        <3> QED
            BY <2>4, <3>1, <3>2, <3>3 DEF CommitEos
    <2>5. CASE e.kind = "ERROR" /\ CommitError /\ UNCHANGED <<native, stack, faults>>
        BY <1>1, <1>3, <2>1, <2>5 DEF native
    <2>6. CASE e.kind = "DIED" /\ CommitDeath /\ UNCHANGED <<native, stack, answer, faults>>
        <3>1. /\ SameOwner(port, port') /\ ~port'.replay /\ port'.eos = port.eos
              /\ port'.state = port.state
            BY <1>2, <2>6 DEF CommitDeath, Port, SameOwner
        <3> QED
            BY <1>1, <2>6, <3>1 DEF native
    <2> QED
        BY <1>5, <2>2, <2>3, <2>4, <2>5, <2>6 DEF Commit
<1> QED
    BY <1>4, <1>5 DEF Dispatch

LEMMA DeadlineCases ==
    ASSUME Inv, Deadline
    PROVE  /\ stack = <<>> /\ port.hold = "armed"
           /\ UNCHANGED <<late, pumping, natively, residual, queue, stack, loads>>
           /\ \/ /\ SameOwner(port, port') /\ port'.eos = port.eos /\ port'.replay = port.replay
                 /\ port'.state = port.state /\ answer' = answer
              \/ CommitError
<1>1. port \in Port
    BY Types DEF Inv
<1>2. CASE port' = [port EXCEPT !.hold = "due"] /\ UNCHANGED <<gst, answer, faults>>
    BY <1>1, <1>2 DEF Deadline, Port, SameOwner
<1>3. CASE port' = [port EXCEPT !.hold = "over"] /\ UNCHANGED answer
    BY <1>1, <1>3 DEF Deadline, Port, SameOwner
<1> QED
    BY <1>2, <1>3 DEF Deadline

-----------------------------------------------------------------------------
(* The watches, of a port that is not used again once it is being closed   *)

(* The handlers below keep their loads.                                    *)
KnownFrames == \A i \in 1..Len(stack) : stack[i].rest = "arm" => stack[i].load <= loads

(* A step that leaves the watches alone, and arms nothing.                 *)
LEMMA WatchesLeftAlone ==
    ASSUME WatchInv, UNCHANGED <<late, pumping, natively, residual>>,
           port'.watch = port.watch, port'.pipe = port.pipe,
           port'.closing = port.closing, port'.closed = port.closed,
           port.closing => port'.pending = None /\ ~port'.replay,
           KnownFrames', loads' = loads,
           IsArming' => IsArming /\ stack'[1].load = stack[1].load
    PROVE  WatchInv'
<1>1. NoWatchIsLost' /\ ClosedIsEmpty'
    BY DEF WatchInv, NoWatchIsLost, ClosedIsEmpty
<1>2. LoadsInv' /\ LateInv' /\ ClosingInv'
    BY DEF WatchInv, LoadsInv, LateInv, ClosingInv, KnownFrames
<1> QED
    BY <1>1, <1>2 DEF WatchInv

LEMMA FramesAreKnown ==
    ASSUME WatchInv
    PROVE  KnownFrames
BY DEF WatchInv, LoadsInv, KnownFrames

LEMMA OvertakenAreKnown ==
    ASSUME TypeOK, WatchInv, stack' = Overtaken, loads' = loads \/ loads' = loads + 1
    PROVE  KnownFrames' /\ ~IsArming'
<1>1. /\ Overtaken \in Seq(Frame) /\ Len(Overtaken) = Len(stack)
      /\ \A i \in 1..Len(stack) : /\ ~Arming(Overtaken[i])
                                  /\ Overtaken[i].rest = stack[i].rest
                                  /\ Overtaken[i].load = stack[i].load
    BY OvertakenFacts
<1>2. \A i \in 1..Len(stack) : stack[i].load \in Nat
    <2>1. stack \in Seq(Frame)
        BY Types
    <2>2. \A i \in 1..Len(stack) : stack[i] \in Frame
        BY <2>1, ElementOfSeq
    <2> QED
        BY <2>2, BoundsAssumption DEF Frame, Loads
<1>3. loads \in Nat
    BY Types, BoundsAssumption
<1>4. KnownFrames'
    BY <1>1, <1>2, <1>3, FramesAreKnown DEF KnownFrames
<1> QED
    BY <1>1, <1>4, NothingArming

LEMMA TailIsKnown ==
    ASSUME TypeOK, ArmingInv, WatchInv, stack # <<>>, stack' = Tail(stack), loads' = loads
    PROVE  KnownFrames' /\ ~IsArming'
BY ReturnFacts, FramesAreKnown DEF KnownFrames

(* A step that gives up the port's watch, and takes it down where it is    *)
(* installed.                                                              *)
LEMMA WatchGivenUp ==
    ASSUME TypeOK, WatchInv, UNCHANGED <<late, pumping, residual>>,
           natively' = natively \ {port.watch}, port'.watch = None,
           port'.closing = port.closing, port'.closed = port.closed,
           port.closing => port'.pending = None /\ ~port'.replay,
           KnownFrames', loads' = loads, ~IsArming'
    PROVE  WatchInv'
<1>1. natively \subseteq Loads /\ residual \subseteq Loads /\ None \notin Loads /\ loads \in Nat
    BY Types, BoundsAssumption DEF Loads, None
<1>2. NoWatchIsLost' /\ ClosedIsEmpty'
    BY <1>1 DEF WatchInv, NoWatchIsLost, ClosedIsEmpty
<1>3. LoadsInv' /\ LateInv' /\ ClosingInv'
    BY <1>1 DEF WatchInv, LoadsInv, LateInv, ClosingInv, KnownFrames, None
<1> QED
    BY <1>2, <1>3 DEF WatchInv

(* The pipeline keeps its watch.                                           *)
LEMMA WatchKept ==
    ASSUME TypeOK, WatchInv, WatchStays, UNCHANGED <<pumping, residual>>,
           port'.watch = port.watch, port'.pipe = port.pipe,
           ~port.closing, ~port'.closing, port'.closed = port.closed,
           KnownFrames', loads' = loads \/ loads' = loads + 1, ~IsArming'
    PROVE  WatchInv'
<1>1. /\ port.watch # None /\ natively' = natively
      /\ \/ late' = late
         \/ PumpAnswers /\ late' = [does |-> "detach", watch |-> port.watch]
    BY DEF WatchStays
<1>2. /\ natively \subseteq Loads /\ residual \subseteq Loads /\ None \notin Loads /\ loads \in Nat
      /\ port.watch \in LoadOrNone
    BY Types, BoundsAssumption DEF Loads, None, Port
<1>3. PumpAnswers => late = Idle /\ late.watch = None /\ pumping = "alive"
    BY DEF PumpAnswers, Idle
<1>4. CASE late' = late
    <2>1. NoWatchIsLost' /\ ClosedIsEmpty'
        BY <1>1, <1>2, <1>4 DEF WatchInv, NoWatchIsLost, ClosedIsEmpty
    <2>2. LoadsInv'
        BY <1>1, <1>2, <1>4 DEF WatchInv, LoadsInv, KnownFrames
    <2>3. LateInv' /\ ClosingInv'
        BY <1>1, <1>2, <1>4 DEF WatchInv, LateInv, ClosingInv
    <2> QED
        BY <2>1, <2>2, <2>3 DEF WatchInv
<1>5. CASE PumpAnswers /\ late' = [does |-> "detach", watch |-> port.watch]
    <2>1. late'.does = "detach" /\ late'.watch = port.watch
        BY <1>5
    <2>2. natively \subseteq {port.watch, None} \cup residual
        BY <1>3, <1>5 DEF WatchInv, NoWatchIsLost
    <2>3. NoWatchIsLost' /\ ClosedIsEmpty'
        BY <1>1, <1>2, <2>1, <2>2 DEF WatchInv, NoWatchIsLost, ClosedIsEmpty
    <2>4. LoadsInv'
        BY <1>1, <1>2, <2>1 DEF WatchInv, LoadsInv, KnownFrames
    <2>5. LateInv' /\ ClosingInv'
        BY <1>1, <1>2, <1>3, <1>5, <2>1 DEF WatchInv, LateInv, ClosingInv
    <2> QED
        BY <2>3, <2>4, <2>5 DEF WatchInv
<1> QED
    BY <1>1, <1>4, <1>5

LEMMA LoadKeepsWatch ==
    ASSUME Inv, WatchInv, ~Reused, NEW held \in BOOLEAN, Load(held)
    PROVE  WatchInv'
<1>1. /\ TypeOK /\ OneTransport /\ ArmingInv /\ ~port.closed /\ ~port.closing
      /\ pumping' = pumping /\ residual' = residual /\ loads' = loads + 1 /\ loads < MaxLoads
    BY DEF Inv, Load, Commandable, MayCall
<1>2. /\ port \in Port /\ stack \in Seq(Frame) /\ loads \in Nat /\ loads + 1 \in Loads
      /\ natively \subseteq Loads /\ residual \subseteq Loads /\ None \notin Loads
    BY <1>1, Types, BoundsAssumption DEF Loads, None
<1>3. CASE /\ Stops
           /\ port' = [Released(port) EXCEPT !.direct = held, !.current = None, !.eos = FALSE,
                                             !.play = FALSE, !.state = "STOPPED"]
           /\ stack' = <<[rest |-> "arm", load |-> loads + 1, held |-> held, live |-> TRUE,
                          calls |-> port.state # "STOPPED"]>> \o Overtaken
    <2> DEFINE f == [rest |-> "arm", load |-> loads + 1, held |-> held, live |-> TRUE,
                     calls |-> port.state # "STOPPED"]
    <2>1. f \in Frame /\ f.rest = "arm" /\ f.load = loads + 1
        BY <1>2 DEF Frame
    <2> HIDE DEF f
    <2>2. stack' = <<f>> \o Overtaken
        BY <1>3 DEF f
    <2>3. /\ Overtaken \in Seq(Frame) /\ Len(Overtaken) = Len(stack) /\ Len(stack) \in Nat
          /\ \A i \in 1..Len(stack) : /\ Overtaken[i].rest = stack[i].rest
                                      /\ Overtaken[i].load = stack[i].load
        BY <1>1, <1>2, OvertakenFacts, LenProperties
    <2>4. /\ Len(stack') = Len(stack) + 1 /\ stack'[1] = f
          /\ \A i \in 2..Len(stack) + 1 : i - 1 \in 1..Len(stack) /\ stack'[i] = Overtaken[i - 1]
        BY <2>1, <2>2, <2>3, PushFacts
    <2>5. port.pipe = None => port.watch = None
        BY <1>1 DEF WatchInv, NoWatchIsLost
    <2>6. /\ port'.watch = None /\ port'.closing = port.closing /\ port'.closed = port.closed
        <3> DEFINE r == Released(port)
        <3>1. r \in Port /\ r.watch = None /\ r.closing = port.closing /\ r.closed = port.closed
            BY <1>2, <2>5, ReleasedFacts
        <3> HIDE DEF r
        <3>2. port' = [r EXCEPT !.direct = held, !.current = None, !.eos = FALSE,
                                !.play = FALSE, !.state = "STOPPED"]
            BY <1>3 DEF r
        <3> QED
            BY <3>1, <3>2 DEF Port
    <2>7. late' = late /\ natively' = natively \ {port.watch}
        BY <1>2, <1>3, <2>5 DEF Stops
    <2>8. \A i \in 1..Len(stack) : stack[i] \in Frame /\ stack[i].load \in Nat
        <3>1. \A i \in 1..Len(stack) : stack[i] \in Frame
            BY <1>2, ElementOfSeq
        <3> QED
            BY <3>1, BoundsAssumption DEF Frame, Loads
    <2>9. KnownFrames'
        <3>1. ASSUME NEW i \in 1..Len(stack'), stack'[i].rest = "arm"
              PROVE  stack'[i].load <= loads'
            <4>1. CASE i = 1
                BY <1>1, <1>2, <2>1, <2>4, <4>1
            <4>2. CASE i # 1
                <5>1. i - 1 \in 1..Len(stack) /\ stack'[i] = Overtaken[i - 1]
                    BY <2>3, <2>4, <4>2
                <5>2. stack[i - 1].rest = "arm" /\ stack'[i].load = stack[i - 1].load
                    BY <2>3, <3>1, <5>1
                <5>3. stack[i - 1].load <= loads /\ stack[i - 1].load \in Nat
                    BY <2>8, <5>1, <5>2, FramesAreKnown DEF KnownFrames
                <5> QED
                    BY <1>1, <1>2, <5>2, <5>3
            <4> QED
                BY <4>1, <4>2
        <3> QED
            BY <3>1 DEF KnownFrames
    <2>10. NoWatchIsLost' /\ ClosedIsEmpty'
        BY <1>1, <1>2, <2>6, <2>7 DEF WatchInv, NoWatchIsLost, ClosedIsEmpty
    <2>11. LoadsInv'
        <3>1. /\ residual \subseteq 1..loads /\ late.watch \in 0..loads
            BY DEF WatchInv, LoadsInv
        <3>2. loads + 1 \notin residual \cup {late.watch}
            BY <1>2, <3>1
        <3>3. residual' \subseteq 1..loads' /\ late'.watch \in 0..loads' /\ port'.watch \in 0..loads'
            BY <1>1, <1>2, <2>6, <2>7, <3>1 DEF None
        <3> QED
            BY <1>1, <2>1, <2>4, <2>7, <2>9, <3>2, <3>3 DEF LoadsInv, KnownFrames
    <2>12. LateInv' /\ ClosingInv'
        BY <1>1, <1>2, <2>6, <2>7 DEF WatchInv, LateInv, ClosingInv
    <2> QED
        BY <2>10, <2>11, <2>12 DEF WatchInv
<1>4. CASE /\ StaysWatched
           /\ port' = [Cleared(port) EXCEPT !.state = "STOPPED"]
           /\ stack' = Overtaken
    <2>1. /\ port'.watch = port.watch /\ port'.pipe = port.pipe
          /\ port'.closing = port.closing /\ port'.closed = port.closed
        <3> DEFINE r == Cleared(port)
        <3>1. r \in Port /\ r.watch = port.watch /\ r.pipe = port.pipe
              /\ r.closing = port.closing /\ r.closed = port.closed
            BY <1>2, ClearedFacts
        <3> HIDE DEF r
        <3>2. port' = [r EXCEPT !.state = "STOPPED"]
            BY <1>4 DEF r
        <3> QED
            BY <3>1, <3>2 DEF Port
    <2> QED
        BY <1>1, <1>4, <2>1, OvertakenAreKnown, StaysWatchedFacts, WatchKept DEF WatchStays
<1>5. CASE /\ DoesNotStop
           /\ port' = IF port.current = None THEN Cleared(port) ELSE port
           /\ stack' = Overtaken
    <2>1. natively' = natively /\ late' = late
        BY <1>1, <1>5, DoesNotStopFacts
    <2>2. /\ port'.watch = port.watch /\ port'.pipe = port.pipe
          /\ port'.closing = port.closing /\ port'.closed = port.closed
        BY <1>2, <1>5, ClearedFacts
    <2>3. KnownFrames' /\ ~IsArming'
        BY <1>1, <1>5, OvertakenAreKnown
    <2>4. NoWatchIsLost' /\ ClosedIsEmpty'
        BY <1>1, <2>1, <2>2 DEF WatchInv, NoWatchIsLost, ClosedIsEmpty
    <2>5. LoadsInv'
        BY <1>1, <1>2, <2>1, <2>2, <2>3 DEF WatchInv, LoadsInv, KnownFrames
    <2>6. LateInv' /\ ClosingInv'
        BY <1>1, <2>1, <2>2, <2>3 DEF WatchInv, LateInv, ClosingInv
    <2> QED
        BY <2>4, <2>5, <2>6 DEF WatchInv
<1> QED
    BY <1>3, <1>4, <1>5 DEF Load

LEMMA PlayKeepsWatch ==
    ASSUME Inv, WatchInv, ~Reused, Play
    PROVE  WatchInv'
<1>1. /\ TypeOK /\ OneTransport /\ ArmingInv /\ HoldInv /\ port.pipe # None /\ ~port.closing
      /\ Starts /\ UNCHANGED <<pumping, residual, stack, loads>>
    BY DEF Inv, Play, Commandable, MayCall
<1>2. ~IsArming /\ ~IsArming' /\ KnownFrames'
    BY <1>1, FramesAreKnown DEF ArmingInv, IsArming, KnownFrames
<1>3. CASE (PlayHeld \/ PlayAgain \/ PlayAccepted) /\ UNCHANGED <<late, natively>>
    <2>1. SameOwner(port, port')
        BY <1>1, <1>2, <1>3, PlayHeldFacts, PlayAgainFacts, PlayAcceptedFacts
    <2> QED
        BY <1>1, <1>2, <1>3, <2>1, WatchesLeftAlone DEF SameOwner
<1>4. CASE PlayCandidate
    <2>1. /\ port'.closing = port.closing /\ port'.closed = port.closed
          /\ \/ /\ port'.pipe = port.pipe /\ port'.watch = port.watch
                /\ natively' = natively /\ (late' = late \/ WatchStays)
             \/ port'.watch = None /\ natively' = natively \ {port.watch} /\ late' = late
        BY <1>1, <1>4, PlayCandidateFacts DEF SameOwner
    <2>2. CASE /\ port'.pipe = port.pipe /\ port'.watch = port.watch
               /\ natively' = natively /\ late' = late
        BY <1>1, <1>2, <2>1, <2>2, WatchesLeftAlone
    <2>3. CASE port'.pipe = port.pipe /\ port'.watch = port.watch /\ WatchStays
        BY <1>1, <1>2, <2>1, <2>3, WatchKept
    <2>4. CASE port'.watch = None /\ natively' = natively \ {port.watch} /\ late' = late
        BY <1>1, <1>2, <2>1, <2>4, WatchGivenUp
    <2> QED
        BY <2>1, <2>2, <2>3, <2>4
<1> QED
    BY <1>1, <1>3, <1>4 DEF Starts

LEMMA PauseKeepsWatch ==
    ASSUME Inv, WatchInv, ~Reused, Pause
    PROVE  WatchInv'
<1>1. /\ port \in Port /\ ~port.closing
      /\ UNCHANGED <<late, pumping, natively, residual, stack, loads>>
    BY Types DEF Inv, Pause, Commandable
<1>2. SameOwner(port, port')
    BY <1>1 DEF Pause, Port, SameOwner
<1>3. KnownFrames' /\ (IsArming' => IsArming)
    BY <1>1, FramesAreKnown DEF KnownFrames, IsArming
<1> QED
    BY <1>1, <1>2, <1>3, WatchesLeftAlone DEF SameOwner

LEMMA StopKeepsWatch ==
    ASSUME Inv, WatchInv, ~Reused, Stop
    PROVE  WatchInv'
<1>1. /\ TypeOK /\ OneTransport /\ ~port.closing
      /\ UNCHANGED <<pumping, residual, loads>> /\ stack' = Overtaken
    BY DEF Inv, Stop, Commandable
<1>2. KnownFrames' /\ ~IsArming'
    BY <1>1, OvertakenAreKnown
<1>3. CASE StopCandidate
    <2>1. /\ port.pipe # None
          /\ port'.closed = port.closed /\ port'.closing = port.closing
          /\ \/ Stops /\ port'.watch = None
             \/ (DoesNotStop \/ StaysWatched) /\ SameOwner(port, port')
        BY <1>1, <1>3, StopCandidateFacts
    <2>2. CASE Stops /\ port'.watch = None
        <3>1. late' = late /\ natively' = natively \ {port.watch}
            BY <2>1, <2>2 DEF Stops
        <3> QED
            BY <1>1, <1>2, <2>1, <2>2, <3>1, WatchGivenUp
    <2>3. CASE DoesNotStop /\ SameOwner(port, port')
        BY <1>1, <1>2, <2>3, DoesNotStopFacts, WatchesLeftAlone DEF SameOwner
    <2>4. CASE StaysWatched /\ SameOwner(port, port')
        BY <1>1, <1>2, <2>4, StaysWatchedFacts, WatchKept DEF SameOwner, WatchStays
    <2> QED
        BY <2>1, <2>2, <2>3, <2>4
<1>4. CASE \/ StopSource
           \/ /\ port.pipe = None
              /\ port' = Retired(port)
              /\ UNCHANGED <<late, gst, natively, faults>>
    <2>1. SameOwner(port, port') /\ late' = late /\ natively' = natively
        BY <1>1, <1>4, StopOtherFacts
    <2> QED
        BY <1>1, <1>2, <2>1, WatchesLeftAlone DEF SameOwner
<1> QED
    BY <1>3, <1>4 DEF Stop

LEMMA CloseKeepsWatch ==
    ASSUME Inv, WatchInv, Close
    PROVE  WatchInv'
<1>1. /\ TypeOK /\ OneTransport /\ UNCHANGED <<late, loads>> /\ stack' = Overtaken
    BY DEF Inv, Close
<1>2. PICK nulled, detached, joined, compensated \in BOOLEAN :
         Closing(nulled, detached, joined, compensated)
    BY DEF Close
<1>3. /\ port'.pending = None /\ ~port'.replay
      /\ port'.watch = IF detached THEN None ELSE port.watch
      /\ port'.closing <=> ~port'.closed
      /\ port'.closed => port'.watch = None /\ residual' = {} /\ pumping' = "none"
      /\ residual' = IF compensated THEN {} ELSE residual
      /\ natively' = (natively \ (IF detached THEN {port.watch} ELSE {})) \ (residual \ residual')
      /\ pumping' = IF joined THEN "none" ELSE pumping
      /\ joined => late = Idle \/ pumping = "none"
    BY <1>1, <1>2, ClosingFacts
<1>4. KnownFrames' /\ ~IsArming'
    BY <1>1, OvertakenAreKnown
<1>5. natively \subseteq Loads /\ residual \subseteq Loads /\ None \notin Loads
      /\ loads \in Nat
    BY <1>1, Types, BoundsAssumption DEF Loads, None
<1>6. residual' \subseteq residual
    BY <1>3
<1>7. LateInv' /\ ClosingInv' /\ LoadsInv'
    <2>1. LateInv'
        BY <1>1, <1>3, <1>5, <1>6 DEF WatchInv, LateInv
    <2>2. ClosingInv'
        BY <1>3, <1>4 DEF ClosingInv
    <2>3. LoadsInv'
        <3>1. /\ residual \subseteq 1..loads /\ late.watch \in 0..loads
              /\ port.watch \in 0..loads
            BY DEF WatchInv, LoadsInv
        <3>2. residual' \subseteq 1..loads' /\ late'.watch \in 0..loads'
            BY <1>1, <1>6, <3>1
        <3>3. port'.watch \in {None, port.watch}
            BY <1>3
        <3>4. port'.watch \in 0..loads'
            BY <1>1, <1>5, <3>1, <3>3 DEF None
        <3> QED
            BY <1>4, <3>2, <3>4 DEF LoadsInv, KnownFrames
    <2> QED
        BY <2>1, <2>2, <2>3
<1>8. natively' \subseteq {port'.watch, late'.watch} \cup residual'
    BY <1>1, <1>3 DEF WatchInv, NoWatchIsLost
<1>9. NoWatchIsLost'
    BY <1>3, <1>8 DEF WatchInv, NoWatchIsLost, LateInv
<1>10. ClosedIsEmpty'
    <2>1. SUFFICES ASSUME port'.closed PROVE natively' = {} /\ pumping' = "none"
        BY DEF ClosedIsEmpty
    <2>2. late'.watch = None
        BY <1>1, <1>3, <1>7, <2>1 DEF LateInv, Idle
    <2>3. natively' \subseteq {None} /\ natively' \subseteq Loads
        BY <1>3, <1>5, <1>8, <2>1, <2>2
    <2> QED
        BY <1>3, <1>5, <2>1, <2>3
<1> QED
    BY <1>7, <1>9, <1>10 DEF WatchInv

LEMMA EmitKeepsWatch ==
    ASSUME Inv, WatchInv, NEW w \in natively, Emit(w)
    PROVE  WatchInv'
<1>1. UNCHANGED <<port, late, pumping, natively, residual, stack, loads>>
    BY DEF Emit
<1> QED
    BY <1>1 DEF WatchInv, NoWatchIsLost, ClosedIsEmpty, LoadsInv, LateInv, ClosingInv, IsArming

LEMMA LateKeepsWatch ==
    ASSUME Inv, WatchInv, LateCommand
    PROVE  WatchInv'
<1>1. /\ TypeOK /\ late # Idle /\ late' = Idle /\ UNCHANGED <<pumping, stack, loads>>
    BY DEF Inv, LateCommand, LateAttach, LateDetach, Idle
<1>2. /\ port \in Port /\ late \in LateCommands /\ late.watch \in Loads /\ late'.watch = None
      /\ natively \subseteq Loads /\ residual \subseteq Loads /\ None \notin Loads /\ loads \in Nat
      /\ stack \in Seq(Frame)
    BY <1>1, Types, BoundsAssumption DEF LateCommands, Idle, Loads, None
<1>3. pumping = "alive" /\ ~port.closed
    BY <1>1 DEF WatchInv, LateInv, ClosedIsEmpty
<1>4. KnownFrames' /\ (IsArming' <=> IsArming)
    BY <1>1, FramesAreKnown DEF KnownFrames, IsArming
<1>5. IsArming => stack[1].load \in Loads
    <2>1. stack # <<>> => 1 \in 1..Len(stack)
        BY <1>2, LenProperties, EmptySeq
    <2>2. stack # <<>> => stack[1] \in Frame
        BY <1>2, <2>1, ElementOfSeq
    <2> QED
        BY <2>2 DEF IsArming, Frame
<1>6. CASE LateAttach
    <2>1. /\ port' = port /\ port.watch = None
          /\ natively' \subseteq natively /\ residual' \subseteq residual \cup {late.watch}
          /\ residual \subseteq residual'
          /\ late.watch \in natively' => late.watch \in residual'
        BY <1>6 DEF LateAttach, WatchInv, LateInv
    <2>2. NoWatchIsLost' /\ ClosedIsEmpty'
        BY <1>1, <1>2, <1>3, <2>1 DEF WatchInv, NoWatchIsLost, ClosedIsEmpty
    <2>3. LoadsInv'
        <3>1. residual' \subseteq 1..loads' /\ late'.watch \in 0..loads' /\ port'.watch \in 0..loads'
            BY <1>1, <1>2, <2>1 DEF WatchInv, LoadsInv, Loads, None
        <3>2. IsArming' => stack'[1].load \notin residual' \cup {late'.watch}
            BY <1>1, <1>2, <1>4, <1>5, <2>1 DEF WatchInv, LoadsInv
        <3> QED
            BY <1>4, <3>1, <3>2 DEF LoadsInv, KnownFrames
    <2>4. LateInv'
        BY <1>1, <1>2, <2>1 DEF LateInv, Idle
    <2>5. ClosingInv'
        BY <1>1, <1>4, <2>1 DEF WatchInv, ClosingInv
    <2> QED
        BY <2>2, <2>3, <2>4, <2>5 DEF WatchInv
<1>7. CASE LateDetach
    <2>1. /\ natively' = natively \ {late.watch} /\ residual' = residual
          /\ port' = [port EXCEPT !.watch = IF @ = late.watch THEN None ELSE @]
        BY <1>7 DEF LateDetach
    <2>2. /\ port'.watch = IF port.watch = late.watch THEN None ELSE port.watch
          /\ port'.pipe = port.pipe /\ port'.closing = port.closing /\ port'.closed = port.closed
          /\ port'.pending = port.pending /\ port'.replay = port.replay
        BY <1>2, <2>1 DEF Port
    <2>3. NoWatchIsLost' /\ ClosedIsEmpty'
        BY <1>1, <1>2, <1>3, <2>1, <2>2 DEF WatchInv, NoWatchIsLost, ClosedIsEmpty
    <2>4. LoadsInv'
        <3>1. residual' \subseteq 1..loads' /\ late'.watch \in 0..loads' /\ port'.watch \in 0..loads'
            BY <1>1, <1>2, <2>1, <2>2 DEF WatchInv, LoadsInv, None
        <3>2. IsArming' => stack'[1].load \notin residual' \cup {late'.watch}
            BY <1>1, <1>2, <1>4, <1>5, <2>1 DEF WatchInv, LoadsInv
        <3> QED
            BY <1>4, <3>1, <3>2 DEF LoadsInv, KnownFrames
    <2>5. LateInv'
        <3>1. port'.watch \in {None, port.watch} /\ port.watch \notin residual
            BY <2>2 DEF WatchInv, LateInv
        <3> QED
            BY <1>1, <1>2, <2>1, <3>1 DEF LateInv, Idle
    <2>6. ClosingInv'
        BY <1>1, <1>4, <2>2 DEF WatchInv, ClosingInv
    <2> QED
        BY <2>3, <2>4, <2>5, <2>6 DEF WatchInv
<1> QED
    BY <1>6, <1>7 DEF LateCommand

LEMMA PumpDiesKeepsWatch ==
    ASSUME Inv, WatchInv, PumpDies
    PROVE  WatchInv'
<1>1. /\ TypeOK /\ late = Idle /\ pumping = "alive" /\ pumping' = "dead" /\ ~port.closing
      /\ \/ natively' = natively \ {port.watch} /\ port' = [port EXCEPT !.watch = None]
         \/ UNCHANGED <<port, natively>>
      /\ UNCHANGED <<late, residual, stack, loads>>
    BY DEF Inv, PumpDies, PumpAnswers
<1>2. /\ port \in Port /\ natively \subseteq Loads /\ residual \subseteq Loads /\ None \notin Loads
      /\ loads \in Nat
    BY <1>1, Types, BoundsAssumption DEF Loads, None
<1>3. /\ ~port'.closing /\ port'.closed = port.closed /\ port'.pipe = port.pipe
      /\ \/ port'.watch = None /\ natively' = natively \ {port.watch}
         \/ port'.watch = port.watch /\ natively' = natively
    BY <1>1, <1>2 DEF Port
<1>4. NoWatchIsLost' /\ ClosedIsEmpty'
    BY <1>1, <1>2, <1>3 DEF WatchInv, NoWatchIsLost, ClosedIsEmpty
<1>5. KnownFrames' /\ (IsArming' <=> IsArming)
    BY <1>1, FramesAreKnown DEF KnownFrames, IsArming
<1>6. LoadsInv'
    <2>1. residual' \subseteq 1..loads' /\ late'.watch \in 0..loads'
          /\ port'.watch \in 0..loads'
        BY <1>1, <1>2, <1>3 DEF WatchInv, LoadsInv, None
    <2>2. IsArming' => stack'[1].load \notin residual' \cup {late'.watch}
        BY <1>1, <1>5 DEF WatchInv, LoadsInv
    <2> QED
        BY <1>5, <2>1, <2>2 DEF LoadsInv, KnownFrames
<1>7. LateInv' /\ ClosingInv'
    BY <1>1, <1>2, <1>3, <1>5 DEF WatchInv, LateInv, ClosingInv, Idle
<1> QED
    BY <1>4, <1>6, <1>7 DEF WatchInv

LEMMA DispatchKeepsWatch ==
    ASSUME Inv, WatchInv, Dispatch
    PROVE  WatchInv'
<1>1. /\ TypeOK /\ OneTransport /\ HoldInv /\ port \in Port
      /\ stack = <<>> /\ loads' = loads /\ ~port.closed
    BY Types, DispatchCases DEF Inv
<1>2. CASE /\ UNCHANGED <<late, pumping, natively, residual, stack>>
           /\ port'.watch = port.watch /\ port'.pipe = port.pipe
           /\ port'.closing = port.closing /\ port'.closed = port.closed
           /\ port.closing => port'.pending = None /\ ~port'.replay
    <2>1. KnownFrames' /\ ~IsArming'
        BY <1>1, <1>2, FramesAreKnown DEF KnownFrames, IsArming
    <2> QED
        BY <1>1, <1>2, <2>1, WatchesLeftAlone
<1>3. ASSUME NEW rest \in {"accepted", "ended"}, NEW calls \in BOOLEAN, Callback(rest, calls),
             port.gen # None
      PROVE  KnownFrames' /\ ~IsArming'
    <2>1. Len(stack') = 1 /\ stack'[1].rest = rest /\ ~IsArming'
        BY <1>1, <1>3, CallbackFacts
    <2> QED
        BY <2>1 DEF KnownFrames
<1>4. CASE /\ UNCHANGED <<late, pumping, natively, residual, stack, answer>>
           /\ SameOwner(port, port') /\ (port'.replay => port.replay)
    BY <1>2, <1>4 DEF SameOwner, WatchInv, ClosingInv
<1>5. CASE /\ UNCHANGED <<late, pumping, natively, residual, answer>>
           /\ port.gen # None /\ port' = Ended /\ \E calls \in BOOLEAN : Callback("ended", calls)
    <2>1. SameOwner(port, port') /\ port'.replay = port.replay
        BY <1>1, <1>5, EndedFacts
    <2>2. KnownFrames' /\ ~IsArming'
        BY <1>3, <1>5
    <2> QED
        BY <1>1, <1>5, <2>1, <2>2, WatchesLeftAlone DEF SameOwner, WatchInv, ClosingInv
<1>6. CASE /\ UNCHANGED <<late, pumping, natively, residual, stack>> /\ CommitError
    BY <1>1, <1>2, <1>6, CommitErrorFacts, FailedFacts
<1>7. CASE port.gen # None /\ Accept
    <2>1. /\ UNCHANGED <<pumping, residual>>
          /\ port'.closing = port.closing /\ port'.closed = port.closed /\ ~IsArming'
          /\ \/ /\ SameOwner(port, port') /\ UNCHANGED <<late, natively, stack>>
                /\ port'.replay => port.replay
             \/ /\ UNCHANGED <<late, natively>> /\ Callback("accepted", TRUE)
                /\ port'.pipe = port.pipe /\ port'.watch = port.watch
                /\ port'.pending = None /\ ~port'.replay
             \/ /\ port.pending # None \/ port.replay
                /\ port'.pending = None /\ ~port'.replay /\ stack' = stack
                /\ \/ /\ port'.pipe = port.pipe /\ port'.watch = port.watch
                      /\ natively' = natively /\ (late' = late \/ WatchStays)
                   \/ /\ port'.watch = IF port.pipe = None THEN port.watch ELSE None
                      /\ natively' = natively \ {port.watch} /\ late' = late
        BY <1>1, <1>7, AcceptFacts
    <2>2. CASE /\ SameOwner(port, port') /\ UNCHANGED <<late, natively, stack>>
               /\ port'.replay => port.replay
        BY <1>2, <2>1, <2>2 DEF SameOwner, WatchInv, ClosingInv
    <2>3. CASE /\ UNCHANGED <<late, natively>> /\ Callback("accepted", TRUE)
               /\ port'.pipe = port.pipe /\ port'.watch = port.watch
               /\ port'.pending = None /\ ~port'.replay
        BY <1>1, <1>3, <1>7, <2>1, <2>3, WatchesLeftAlone
    <2>4. CASE /\ port.pending # None \/ port.replay
               /\ port'.pending = None /\ ~port'.replay /\ stack' = stack
               /\ port'.watch = IF port.pipe = None THEN port.watch ELSE None
               /\ natively' = natively \ {port.watch} /\ late' = late
        <3>1. port'.watch = None
            BY <2>4 DEF WatchInv, ClosingInv, NoWatchIsLost
        <3>2. KnownFrames'
            BY <1>1, <2>4, FramesAreKnown DEF KnownFrames
        <3> QED
            BY <1>1, <2>1, <2>4, <3>1, <3>2, WatchGivenUp
    <2>5. CASE /\ port'.pending = None /\ ~port'.replay /\ stack' = stack
               /\ port'.pipe = port.pipe /\ port'.watch = port.watch
               /\ natively' = natively /\ late' = late
        BY <1>2, <2>1, <2>5
    <2>6. CASE /\ port.pending # None \/ port.replay
               /\ stack' = stack /\ port'.pipe = port.pipe /\ port'.watch = port.watch
               /\ WatchStays
        <3>1. KnownFrames' /\ ~port.closing
            BY <1>1, <2>6, FramesAreKnown DEF KnownFrames, WatchInv, ClosingInv
        <3> QED
            BY <1>1, <2>1, <2>6, <3>1, WatchKept
    <2> QED
        BY <2>1, <2>2, <2>3, <2>4, <2>5, <2>6
<1> QED
    BY <1>4, <1>5, <1>6, <1>7, DispatchCases

(* What becomes of the watch of a load that goes on.                       *)
LEMMA AttemptsWatch ==
    ASSUME TypeOK, NEW f \in Frame, Attempts(f), port.watch = None, port.pipe = None
    PROVE  /\ residual' = residual /\ (pumping = "alive" => pumping' = "alive")
           /\ \/ /\ late = Idle /\ natively' = natively \cup {f.load}
                 /\ port'.watch = f.load /\ port'.pipe = f.load
                 /\ \/ late' = late
                    \/ pumping' = "alive" /\ late' = [does |-> "detach", watch |-> f.load]
              \/ late' = late /\ natively' = natively /\ port'.watch = None
              \/ /\ late = Idle /\ late' = [does |-> "attach", watch |-> f.load]
                 /\ pumping' = "alive" /\ natively' = natively \cup {f.load}
                 /\ port'.watch = None
<1> DEFINE c == Candidate(f)
<1>1. c \in Port /\ c.watch = None /\ f.load \in Loads
    BY CandidateFacts, Types DEF Frame
<1>2. /\ residual' = residual /\ (pumping = "alive" => pumping' = "alive")
    BY DEF Attempts, Arms, RollsBack, RefusesPreroll
<1> HIDE DEF c
<1>3. CASE Arms(f)
    <2>1. /\ port' = [c EXCEPT !.pipe = f.load, !.watch = f.load]
          /\ natively' = natively \cup {f.load} /\ late' = late /\ late = Idle
        BY <1>3 DEF Arms, PumpServes, c
    <2>2. port'.watch = f.load /\ port'.pipe = f.load
        BY <1>1, <2>1 DEF Port
    <2> QED
        BY <1>2, <2>1, <2>2
<1>4. CASE RollsBack(f)
    <2> DEFINE p == Cleared(c)
    <2>1. p \in Port /\ p.watch = None
        BY <1>1, ClearedFacts
    <2> HIDE DEF p
    <2>2. ASSUME NEW detached \in BOOLEAN, port' = RolledBack(f, detached)
          PROVE  port'.watch = None
        <3>1. port' = [p EXCEPT !.watch = IF detached THEN None ELSE @,
                                !.pipe = IF port.watch = None \/ detached THEN None ELSE f.load]
            BY <2>2 DEF RolledBack, p, c
        <3> QED
            BY <2>1, <3>1 DEF Port
    <2>3. CASE port' = RolledBack(f, PumpServes) /\ UNCHANGED <<late, natively>>
        <3>1. PumpServes \in BOOLEAN
            BY DEF PumpServes
        <3> QED
            BY <1>2, <2>2, <2>3, <3>1
    <2>4. CASE /\ PumpServes
               /\ late' = [does |-> "attach", watch |-> f.load]
               /\ port' = RolledBack(f, FALSE)
               /\ natively' = natively \cup {f.load}
        BY <1>2, <2>2, <2>4 DEF PumpServes
    <2>5. CASE /\ PumpServes
               /\ port' = [p EXCEPT !.pipe = f.load, !.watch = f.load]
               /\ natively' = natively \cup {f.load}
               /\ UNCHANGED late
        <3>1. port'.watch = f.load /\ port'.pipe = f.load
            BY <1>1, <2>1, <2>5 DEF Port
        <3> QED
            BY <1>2, <2>5, <3>1 DEF PumpServes
    <2> QED
        BY <1>4, <2>3, <2>4, <2>5 DEF RollsBack, p, c
<1>5. CASE RefusesPreroll(f)
    <2>1. PumpServes
        BY <1>5 DEF RefusesPreroll
    <2>2. CASE /\ \E kept \in {None, f.load} :
                    port' = [c EXCEPT !.pending = None, !.direct = FALSE, !.pipe = kept,
                                      !.watch = None]
               /\ UNCHANGED <<late, natively>>
        <3>1. port'.watch = None
            BY <1>1, <2>2 DEF Port
        <3> QED
            BY <1>2, <2>2, <3>1
    <2>3. CASE /\ KeepsWatch("refuse", f.load) /\ natively' = natively \cup {f.load}
               /\ port' = [c EXCEPT !.pending = None, !.direct = FALSE, !.pipe = f.load,
                                    !.watch = f.load]
        <3>1. port'.watch = f.load /\ port'.pipe = f.load
            BY <1>1, <2>3 DEF Port
        <3> QED
            BY <1>1, <1>2, <2>1, <2>3, <3>1, KeepsWatchFacts DEF PumpServes
    <2> QED
        BY <1>5, <2>2, <2>3 DEF RefusesPreroll, c
<1> QED
    BY <1>3, <1>4, <1>5 DEF Attempts

LEMMA ResumeKeepsWatch ==
    ASSUME Inv, WatchInv, Resume
    PROVE  WatchInv'
<1> DEFINE f == Head(stack)
<1>1. /\ TypeOK /\ OneTransport /\ ArmingInv /\ stack # <<>> /\ loads' = loads
    BY DEF Inv, Resume, Arm
<1>2. f \in Frame /\ f = stack[1] /\ Len(stack) \in Nat \ {0} /\ f.load \in Loads /\ None \notin Loads
    BY <1>1, PopFacts, Types DEF Frame, Loads, None
<1>3. KnownFrames
    BY FramesAreKnown
<1> HIDE DEF f
<1>4. CASE Arm(f) /\ ~f.live
    <2>1. stack' = Tail(stack) /\ UNCHANGED <<port, late, pumping, natively, residual>>
        BY <1>4 DEF Arm, native
    <2>2. KnownFrames' /\ ~IsArming'
        BY <1>1, <2>1, TailIsKnown
    <2> QED
        BY <1>1, <2>1, <2>2, WatchesLeftAlone DEF WatchInv, ClosingInv
<1>5. CASE Arm(f) /\ f.live
    <2>1. f.rest = "arm" /\ stack' = Tail(stack) /\ Attempts(f)
        BY <1>5 DEF Arm
    <2>2. IsArming
        BY <1>1, <1>2, <1>5, <2>1 DEF IsArming, Arming
    <2>3. /\ port.pipe = None /\ ~port.closed /\ port.watch = None /\ ~port.closing
          /\ f.load \notin residual \cup {late.watch} /\ f.load <= loads
        BY <1>1, <1>2, <1>3, <2>1, <2>2 DEF WatchInv, ArmingInv, ClosingInv, LoadsInv, KnownFrames
    <2>4. KnownFrames' /\ ~IsArming'
        BY <1>1, <2>1, TailIsKnown
    <2>5. Silent
        BY <1>1, <2>3 DEF Silent, OneTransport, Loads, None
    <2>6. port'.closing = port.closing /\ port'.closed = port.closed
        BY <1>1, <1>2, <2>1, <2>3, <2>5, AttemptsFacts
    <2>7. /\ natively \subseteq Loads /\ residual \subseteq Loads /\ loads \in Nat
          /\ f.load \in 1..loads
        BY <1>1, <1>2, <2>3, Types, BoundsAssumption DEF Loads
    <2>8. /\ residual' = residual /\ (pumping = "alive" => pumping' = "alive")
          /\ \/ /\ late = Idle /\ natively' = natively \cup {f.load}
                /\ port'.watch = f.load /\ port'.pipe = f.load
                /\ \/ late' = late
                   \/ pumping' = "alive" /\ late' = [does |-> "detach", watch |-> f.load]
             \/ late' = late /\ natively' = natively /\ port'.watch = None
             \/ /\ late = Idle /\ late' = [does |-> "attach", watch |-> f.load]
                /\ pumping' = "alive" /\ natively' = natively \cup {f.load}
                /\ port'.watch = None
        BY <1>1, <1>2, <2>1, <2>3, AttemptsWatch
    <2>9. /\ natively \subseteq {late.watch} \cup residual
          /\ residual \subseteq 1..loads /\ late.watch \in 0..loads
          /\ (late # Idle => pumping = "alive")
        BY <1>2, <2>3, <2>7 DEF WatchInv, NoWatchIsLost, LoadsInv, LateInv
    <2>10. ClosedIsEmpty' /\ ClosingInv'
        BY <2>3, <2>4, <2>6 DEF ClosedIsEmpty, ClosingInv
    <2>11. CASE /\ late = Idle /\ natively' = natively \cup {f.load}
                /\ port'.watch = f.load /\ port'.pipe = f.load
                /\ \/ late' = late
                   \/ pumping' = "alive" /\ late' = [does |-> "detach", watch |-> f.load]
        <3>1. /\ late.watch = None /\ late'.watch \in {None, f.load} /\ late'.does # "attach"
              /\ late' # Idle => pumping' = "alive"
            BY <2>11 DEF Idle
        <3>2. NoWatchIsLost'
            BY <1>2, <2>7, <2>8, <2>9, <2>11, <3>1 DEF NoWatchIsLost
        <3>3. LoadsInv'
            BY <1>1, <2>4, <2>7, <2>8, <2>9, <2>11, <3>1 DEF LoadsInv, KnownFrames, None
        <3>4. LateInv'
            BY <2>3, <2>8, <2>11, <3>1 DEF LateInv
        <3> QED
            BY <2>10, <3>2, <3>3, <3>4 DEF WatchInv
    <2>12. CASE late' = late /\ natively' = natively /\ port'.watch = None
        <3>1. NoWatchIsLost'
            BY <2>8, <2>9, <2>12 DEF NoWatchIsLost
        <3>2. LoadsInv'
            BY <1>1, <2>4, <2>7, <2>8, <2>9, <2>12 DEF LoadsInv, KnownFrames, None
        <3>3. LateInv'
            BY <1>2, <2>7, <2>8, <2>9, <2>12 DEF LateInv
        <3> QED
            BY <2>10, <3>1, <3>2, <3>3 DEF WatchInv
    <2>13. CASE /\ late = Idle /\ late' = [does |-> "attach", watch |-> f.load]
                /\ pumping' = "alive" /\ natively' = natively \cup {f.load}
                /\ port'.watch = None
        <3>1. late.watch = None /\ late'.watch = f.load /\ late'.does = "attach"
            BY <2>13 DEF Idle
        <3>2. NoWatchIsLost'
            BY <1>2, <2>7, <2>8, <2>9, <2>13, <3>1 DEF NoWatchIsLost
        <3>3. LoadsInv'
            BY <1>1, <2>4, <2>7, <2>8, <2>9, <2>13, <3>1 DEF LoadsInv, KnownFrames, None
        <3>4. LateInv'
            BY <1>2, <2>7, <2>8, <2>13 DEF LateInv
        <3> QED
            BY <2>10, <3>2, <3>3, <3>4 DEF WatchInv
    <2> QED
        BY <2>8, <2>11, <2>12, <2>13
<1>6. CASE /\ Accepted(f) \/ Played(f) \/ EndOfMedia(f)
           /\ UNCHANGED <<native, queue, loads, faults>>
    <2>1. /\ SameOwner(port, port') /\ port'.replay = port.replay /\ f.rest # "arm"
          /\ \/ \E rest \in {"played", "ended"}, calls \in BOOLEAN : Continue(rest, calls)
             \/ stack' = Tail(stack)
        BY <1>1, <1>6, RestFacts DEF f
    <2>2. KnownFrames' /\ ~IsArming'
        <3>1. CASE stack' = Tail(stack)
            BY <1>1, <3>1, TailIsKnown
        <3>2. CASE \E rest \in {"played", "ended"}, calls \in BOOLEAN : Continue(rest, calls)
            <4>1. /\ ~IsArming' /\ Len(stack') = Len(stack) /\ stack'[1].rest # "arm"
                  /\ \A i \in 2..Len(stack) : stack'[i] = stack[i]
                BY <1>1, <3>2, ContinueFacts
            <4> QED
                BY <1>1, <1>2, <1>3, <4>1 DEF KnownFrames
        <3> QED
            BY <2>1, <3>1, <3>2
    <2> QED
        BY <1>1, <1>6, <2>1, <2>2, WatchesLeftAlone DEF SameOwner, WatchInv, ClosingInv, native
<1> QED
    BY <1>4, <1>5, <1>6 DEF Resume, Arm, f

LEMMA DeadlineKeepsWatch ==
    ASSUME Inv, WatchInv, Deadline
    PROVE  WatchInv'
<1>1. /\ stack = <<>> /\ UNCHANGED <<late, pumping, natively, residual, stack, loads>>
      /\ port \in Port
      /\ \/ SameOwner(port, port') /\ port'.replay = port.replay
         \/ CommitError
    BY DeadlineCases, Types DEF Inv
<1>2. /\ port'.watch = port.watch /\ port'.pipe = port.pipe
      /\ port'.closing = port.closing /\ port'.closed = port.closed
      /\ port.closing => port'.pending = None /\ ~port'.replay
    BY <1>1, CommitErrorFacts, FailedFacts DEF Inv, SameOwner, WatchInv, ClosingInv
<1>3. KnownFrames' /\ ~IsArming'
    BY <1>1, FramesAreKnown DEF KnownFrames, IsArming
<1> QED
    BY <1>1, <1>2, <1>3, WatchesLeftAlone

LEMMA InitWatch ==
    ASSUME Init
    PROVE  WatchInv
BY BoundsAssumption DEF Init, WatchInv, NoWatchIsLost, ClosedIsEmpty, LoadsInv, LateInv, ClosingInv,
                        Idle, None, IsArming

LEMMA NextWatch ==
    ASSUME ~Reused, Inv, WatchInv, [Next]_vars
    PROVE  WatchInv'
<1>1. CASE \E held \in BOOLEAN : Load(held)
    BY <1>1, LoadKeepsWatch
<1>2. CASE Play
    BY <1>2, PlayKeepsWatch
<1>3. CASE Pause
    BY <1>3, PauseKeepsWatch
<1>4. CASE Stop
    BY <1>4, StopKeepsWatch
<1>5. CASE Close
    BY <1>5, CloseKeepsWatch
<1>6. CASE \E w \in natively : Emit(w)
    BY <1>6, EmitKeepsWatch
<1>7. CASE LateCommand
    BY <1>7, LateKeepsWatch
<1>8. CASE PumpDies
    BY <1>8, PumpDiesKeepsWatch
<1>9. CASE Dispatch
    BY <1>9, DispatchKeepsWatch
<1>10. CASE Resume
    BY <1>10, ResumeKeepsWatch
<1>11. CASE Deadline
    BY <1>11, DeadlineKeepsWatch
<1>12. CASE UNCHANGED vars
    BY <1>12 DEF vars, WatchInv, NoWatchIsLost, ClosedIsEmpty, LoadsInv, LateInv, ClosingInv, IsArming
<1> QED
    BY <1>1, <1>2, <1>3, <1>4, <1>5, <1>6, <1>7, <1>8, <1>9, <1>10, <1>11, <1>12
    DEF Next, Owner, Pump

(* A port that is not used again after a close that failed keeps account   *)
(* of every watch: none that is installed is forgotten, whatever the pump  *)
(* does late, and a port that says it is closed has left none behind.      *)
THEOREM PortConsistent == ASSUME ~Reused PROVE Spec => []Consistent
<1>1. Init => Inv /\ WatchInv
    BY InitInv, InitWatch
<1>2. Inv /\ WatchInv /\ [Next]_vars => Inv' /\ WatchInv'
    BY NextInv, NextWatch
<1>3. Inv /\ WatchInv => Consistent
    BY HoldIsHeld DEF Inv, WatchInv, Consistent
<1> QED
    BY <1>1, <1>2, <1>3, PTL DEF Spec

-----------------------------------------------------------------------------
(* The words                                                               *)

Orderly == WordsInv /\ WordsAreInOrder

(* No frame is about a load that has not begun, and only the outermost is  *)
(* what is left of an event.                                               *)
FramesInOrder ==
    /\ \A i \in 1..Len(stack) : stack[i].load <= loads
    /\ \A i \in 1..Len(stack) : stack[i].rest # "arm" => i = Len(stack)

LEMMA FramesAreInOrder ==
    ASSUME WordsInv
    PROVE  FramesInOrder
BY DEF WordsInv, FreshInv, HandlersInv, FramesInOrder

LEMMA OvertakenInOrder ==
    ASSUME TypeOK, WordsInv, stack' = Overtaken, loads' = loads \/ loads' = loads + 1
    PROVE  FramesInOrder' /\ ~IsArming'
<1>1. /\ Overtaken \in Seq(Frame) /\ Len(Overtaken) = Len(stack)
      /\ \A i \in 1..Len(stack) : /\ ~Arming(Overtaken[i])
                                  /\ Overtaken[i].rest = stack[i].rest
                                  /\ Overtaken[i].load = stack[i].load
    BY OvertakenFacts
<1>2. stack \in Seq(Frame) /\ loads \in Nat
    BY Types, BoundsAssumption
<1>3. \A i \in 1..Len(stack) : stack[i] \in Frame
    BY <1>2, ElementOfSeq
<1>4. \A i \in 1..Len(stack) : stack[i].load \in Nat
    BY <1>3, BoundsAssumption DEF Frame, Loads
<1>5. FramesInOrder'
    BY <1>1, <1>2, <1>4, FramesAreInOrder DEF FramesInOrder
<1> QED
    BY <1>1, <1>5, NothingArming

LEMMA TailInOrder ==
    ASSUME TypeOK, ArmingInv, WordsInv, stack # <<>>, stack' = Tail(stack), loads' = loads
    PROVE  FramesInOrder' /\ ~IsArming'
<1>1. /\ ~IsArming' /\ Len(stack') = Len(stack) - 1 /\ Len(stack) \in Nat \ {0}
      /\ \A i \in 1..Len(stack') : i + 1 \in 2..Len(stack) /\ stack'[i] = stack[i + 1]
    BY ReturnFacts
<1>2. ASSUME NEW i \in 1..Len(stack')
      PROVE  i + 1 \in 1..Len(stack) /\ (i + 1 = Len(stack) => i = Len(stack'))
    <2>1. i + 1 \in 2..Len(stack) /\ i \in Nat
        BY <1>1
    <2>2. Len(stack) \in Nat /\ Len(stack') = Len(stack) - 1
        BY <1>1
    <2>3. i + 1 \in 1..Len(stack)
        BY <2>1, <2>2
    <2>4. ASSUME i + 1 = Len(stack)
          PROVE  i = Len(stack')
        <3>1. Len(stack') = (i + 1) - 1
            BY <2>2, <2>4
        <3>2. (i + 1) - 1 = i
            BY <2>1
        <3> QED
            BY <3>1, <3>2
    <2> QED
        BY <2>3, <2>4
<1> QED
    BY <1>1, <1>2, FramesAreInOrder DEF FramesInOrder

(* A command finds nothing pending where a load is about to arm.           *)
LEMMA NothingPendingBelow ==
    ASSUME TypeOK, WordsInv, MayCall, IsArming
    PROVE  port.pending = None
<1>1. stack # <<>> /\ Head(stack) = stack[1]
    BY PopFacts, Types DEF IsArming
<1> QED
    BY <1>1 DEF MayCall, WordsInv, PendingInv

(* A step that leaves the port what it owns.                               *)
LEMMA WordsKept ==
    ASSUME TypeOK, Orderly, SameOwner(port, port'), port'.eos => port.eos, StartsOver,
           loads' = loads \/ loads' = loads + 1,
           \/ port'.state \in {port.state, "STOPPED"}
           \/ port.gen # None /\ port.pending = None /\ ~IsArming',
           FramesInOrder', HandlersInv',
           IsArming' => /\ IsArming
                        /\ stack'[1].load = stack[1].load /\ stack'[1].calls = stack[1].calls,
           IsArming /\ ~IsArming' => port.pending = None
    PROVE  Orderly'
<1>1. /\ answer \in Answers /\ port \in Port /\ loads \in Nat /\ None \notin Loads
      /\ Loads \subseteq Nat
    BY Types, BoundsAssumption DEF Loads, None
<1>2. /\ port'.gen = port.gen /\ port'.pending = port.pending /\ port'.current = port.current
      /\ port'.pipe = port.pipe
    BY DEF SameOwner
<1>3. /\ \A n \in Loads : \/ answer'[n] = answer[n]
                          \/ answer[n] = "ended" /\ answer'[n] = "accepted"
      /\ port.eos /\ ~port'.eos => \A n \in Loads : n = port.pipe => answer'[n] # "ended"
    BY <1>1, StartsOverFacts
<1>4. port.gen \in LoadOrNone /\ port.pending \in LoadOrNone /\ port.current \in LoadOrNone
      /\ port.pipe \in LoadOrNone
    BY <1>1 DEF Port
<1>5. IsArming => stack[1].load \in Loads
    <2>1. stack \in Seq(Frame)
        BY Types
    <2>2. stack # <<>> => stack[1] \in Frame
        BY <2>1, PopFacts
    <2> QED
        BY <2>2 DEF IsArming, Frame
<1>6. /\ FreshInv /\ PendingInv /\ CurrentInv /\ GenerationInv /\ HandlersInv
      /\ WordsAreInOrder
    BY DEF Orderly, WordsInv
<1>7. FreshInv'
    <2>1. \A n \in Loads : n > loads' => answer'[n] = "none"
        BY <1>1, <1>3, <1>6 DEF FreshInv
    <2>2. {port'.gen, port'.pipe} \subseteq 0..loads'
        BY <1>1, <1>2, <1>6 DEF FreshInv
    <2>3. IsArming' => answer'[stack'[1].load] = "none" /\ port'.state = "STOPPED"
        BY <1>3, <1>5, <1>6 DEF FreshInv
    <2> QED
        BY <2>1, <2>2, <2>3 DEF FreshInv, FramesInOrder
<1>8. PendingInv'
    BY <1>2, <1>3, <1>4, <1>6 DEF PendingInv, LoadOrNone
<1>9. CurrentInv'
    BY <1>2, <1>3, <1>4, <1>6 DEF CurrentInv, LoadOrNone
<1>10. GenerationInv'
    BY <1>2, <1>3, <1>4, <1>6 DEF GenerationInv, LoadOrNone
<1>11. WordsAreInOrder'
    <2>1. \A n \in Loads : answer'[n] # "astray"
        BY <1>3, <1>6 DEF WordsAreInOrder
    <2>2. port'.state = "PLAYING" /\ port'.pipe # None => answer'[port'.pipe] # "none"
        BY <1>2, <1>3, <1>4, <1>6 DEF WordsAreInOrder, GenerationInv, LoadOrNone
    <2> QED
        BY <2>1, <2>2 DEF WordsAreInOrder
<1> QED
    BY <1>7, <1>8, <1>9, <1>10, <1>11 DEF Orderly, WordsInv

(* What is kept of the words where nobody says one.                        *)
LEMMA NothingSaid ==
    ASSUME answer \in Answers, answer' = answer, port'.eos = port.eos
    PROVE  StartsOver
BY DEF StartsOver, Answers

(* The same handlers, in the same order, for a source that ended no later. *)
LEMMA HandlersKept ==
    ASSUME TypeOK, Orderly, FramesInOrder', Len(stack') = Len(stack),
           \A i \in 1..Len(stack) : stack'[i].rest = stack[i].rest /\ stack'[i].load = stack[i].load,
           port'.gen = port.gen, port'.current = port.current, port'.eos => port.eos,
           \A n \in Loads : answer[n] = "accepted" => answer'[n] = "accepted"
    PROVE  HandlersInv'
<1>1. port.gen \in LoadOrNone /\ port.current \in LoadOrNone
    BY Types DEF Port
<1>2. HandlersInv /\ CurrentInv
    BY DEF Orderly, WordsInv
<1> QED
    BY <1>1, <1>2 DEF HandlersInv, CurrentInv, FramesInOrder, LoadOrNone

(* A step after which nothing is loaded: what was, was answered.           *)
LEMMA WordsUnloaded ==
    ASSUME TypeOK, Orderly, port'.pending = None, port'.current = None,
           loads' = loads \/ loads' = loads + 1,
           \A n \in Loads : answer'[n] = answer[n] \/ (n <= loads /\ answer'[n] \in Words),
           port'.gen # None => /\ port'.gen \in Loads /\ port'.gen <= loads
                               /\ answer'[port'.gen] # "none"
                               /\ port'.pipe # None => port'.gen = port'.pipe,
           \/ port'.pipe \in {None, port.pipe} /\ port'.state \in {port.state, "STOPPED"}
           \/ port'.pipe \in Loads /\ port'.pipe <= loads /\ port'.state = "STOPPED",
           FramesInOrder', ~IsArming'
    PROVE  Orderly'
<1>1. /\ answer \in Answers /\ port \in Port /\ loads \in Nat /\ None \notin Loads
      /\ Loads \subseteq Nat /\ port.pipe \in LoadOrNone /\ None = 0
    BY Types, BoundsAssumption DEF Loads, None, Port
<1>2. FreshInv /\ WordsAreInOrder
    BY DEF Orderly, WordsInv
<1>3. FreshInv'
    <2>1. \A n \in Loads : n > loads' => answer'[n] = "none"
        BY <1>1, <1>2 DEF FreshInv
    <2>2. port.pipe \in 0..loads
        BY <1>2 DEF FreshInv
    <2>3. loads' \in Nat /\ loads <= loads' /\ None \in 0..loads'
        BY <1>1
    <2>4. port'.gen = None \/ (port'.gen \in Nat /\ port'.gen <= loads)
        BY <1>1
    <2>5. port'.pipe = None \/ port'.pipe \in 0..loads
        <3>1. CASE port'.pipe \in {None, port.pipe}
            BY <2>2, <3>1
        <3>2. CASE port'.pipe \in Loads /\ port'.pipe <= loads
            <4>1. port'.pipe \in Nat /\ port'.pipe <= loads
                BY <1>1, <3>2
            <4> QED
                BY <1>1, <4>1
        <3> QED
            BY <3>1, <3>2
    <2>6. port'.gen \in 0..loads'
        BY <1>1, <2>3, <2>4
    <2>7. port'.pipe \in 0..loads'
        BY <1>1, <2>3, <2>5
    <2> QED
        BY <2>1, <2>6, <2>7 DEF FreshInv, FramesInOrder
<1>4. PendingInv' /\ CurrentInv' /\ GenerationInv' /\ HandlersInv'
    BY DEF PendingInv, CurrentInv, GenerationInv, HandlersInv, FramesInOrder
<1>5. WordsAreInOrder'
    <2>1. \A n \in Loads : answer'[n] # "astray"
        BY <1>2 DEF WordsAreInOrder, Words
    <2>2. port'.state = "PLAYING" /\ port'.pipe # None => answer'[port'.pipe] # "none"
        BY <1>1, <1>2 DEF WordsAreInOrder, Words, LoadOrNone
    <2> QED
        BY <2>1, <2>2 DEF WordsAreInOrder
<1> QED
    BY <1>3, <1>4, <1>5 DEF Orderly, WordsInv

(* What plays ends, and its end is still to be told.                       *)
LEMMA WordsEnded ==
    ASSUME TypeOK, Orderly, SameOwner(port, port'), port.current # None, ~port.eos,
           port'.eos, port'.state = "STOPPED", answer' = answer, loads' = loads,
           Len(stack') = 1, stack'[1].rest = "ended", stack'[1].load <= loads, ~IsArming'
    PROVE  Orderly'
<1>1. FreshInv /\ PendingInv /\ CurrentInv /\ GenerationInv /\ WordsAreInOrder
    BY DEF Orderly, WordsInv
<1>2. port'.gen = port.gen /\ port'.pending = port.pending /\ port'.current = port.current
      /\ port'.pipe = port.pipe
    BY DEF SameOwner
<1>3. FreshInv'
    BY <1>1, <1>2 DEF FreshInv
<1>4. PendingInv' /\ CurrentInv' /\ GenerationInv'
    BY <1>1, <1>2 DEF PendingInv, CurrentInv, GenerationInv
<1>5. HandlersInv'
    BY <1>1, <1>2 DEF HandlersInv, CurrentInv
<1>6. WordsAreInOrder'
    BY <1>1 DEF WordsAreInOrder
<1> QED
    BY <1>3, <1>4, <1>5, <1>6 DEF Orderly, WordsInv

LEMMA LoadKeepsWords ==
    ASSUME Inv, Orderly, NEW held \in BOOLEAN, Load(held)
    PROVE  Orderly'
<1>1. /\ TypeOK /\ OneTransport /\ ArmingInv /\ WordsInv /\ WordsAreInOrder
      /\ answer' = answer /\ loads' = loads + 1 /\ loads < MaxLoads /\ MayCall
    BY DEF Inv, Orderly, Load, Commandable
<1>2. /\ port \in Port /\ stack \in Seq(Frame) /\ loads \in Nat /\ loads + 1 \in Loads
      /\ answer \in Answers /\ None \notin Loads /\ Loads \subseteq Nat
    BY <1>1, Types, BoundsAssumption DEF Loads, None
<1>3. CASE /\ Stops
           /\ port' = [Released(port) EXCEPT !.direct = held, !.current = None, !.eos = FALSE,
                                             !.play = FALSE, !.state = "STOPPED"]
           /\ stack' = <<[rest |-> "arm", load |-> loads + 1, held |-> held, live |-> TRUE,
                          calls |-> port.state # "STOPPED"]>> \o Overtaken
    <2> DEFINE f == [rest |-> "arm", load |-> loads + 1, held |-> held, live |-> TRUE,
                     calls |-> port.state # "STOPPED"]
    <2>1. /\ f \in Frame /\ f.rest = "arm" /\ f.load = loads + 1 /\ f.live
          /\ (port.state = "STOPPED" => ~f.calls)
        BY <1>2 DEF Frame
    <2> HIDE DEF f
    <2>2. stack' = <<f>> \o Overtaken
        BY <1>3 DEF f
    <2>3. /\ Overtaken \in Seq(Frame) /\ Len(Overtaken) = Len(stack) /\ Len(stack) \in Nat
          /\ \A i \in 1..Len(stack) : /\ Overtaken[i].rest = stack[i].rest
                                      /\ Overtaken[i].load = stack[i].load
        BY <1>1, <1>2, OvertakenFacts, LenProperties
    <2>4. /\ Len(stack') = Len(stack) + 1 /\ stack'[1] = f
          /\ \A i \in 2..Len(stack) + 1 : i - 1 \in 1..Len(stack) /\ stack'[i] = Overtaken[i - 1]
        BY <2>1, <2>2, <2>3, PushFacts
    <2>5. /\ port'.gen = port.gen /\ port'.pending = port.pending /\ port'.current = None
          /\ port'.pipe = None /\ ~port'.eos /\ port'.state = "STOPPED"
        <3> DEFINE r == Released(port)
        <3>1. r \in Port /\ r.pipe = None /\ r.gen = port.gen /\ r.pending = port.pending
            BY <1>2, ReleasedFacts
        <3> HIDE DEF r
        <3>2. port' = [r EXCEPT !.direct = held, !.current = None, !.eos = FALSE,
                                !.play = FALSE, !.state = "STOPPED"]
            BY <1>3 DEF r
        <3> QED
            BY <3>1, <3>2 DEF Port
    <2>6. \A i \in 1..Len(stack) : stack[i].load \in Nat
        <3>1. \A i \in 1..Len(stack) : stack[i] \in Frame
            BY <1>2, ElementOfSeq
        <3> QED
            BY <1>2, <3>1 DEF Frame
    <2>7. FramesInOrder'
        <3>1. ASSUME NEW i \in 1..Len(stack')
              PROVE  /\ stack'[i].load <= loads'
                     /\ stack'[i].rest # "arm" => i = Len(stack')
            <4>1. CASE i = 1
                BY <1>1, <1>2, <2>1, <2>4, <4>1
            <4>2. CASE i # 1
                <5>1. i \in 2..Len(stack) + 1 /\ i - 1 \in 1..Len(stack) /\ i \in Nat
                    BY <2>3, <2>4, <4>2
                <5>2. stack'[i] = Overtaken[i - 1]
                    BY <2>4, <5>1
                <5>3. stack'[i].rest = stack[i - 1].rest /\ stack'[i].load = stack[i - 1].load
                    BY <2>3, <5>1, <5>2
                <5>4. stack[i - 1].load <= loads /\ (stack[i - 1].rest # "arm" => i - 1 = Len(stack))
                    BY <1>1, <5>1, FramesAreInOrder DEF FramesInOrder
                <5>5. stack[i - 1].load \in Nat
                    BY <2>6, <5>1
                <5> QED
                    BY <1>1, <1>2, <2>3, <2>4, <5>1, <5>3, <5>4, <5>5
            <4> QED
                BY <4>1, <4>2
        <3> QED
            BY <3>1 DEF FramesInOrder
    <2>8. FreshInv'
        <3>1. FreshInv
            BY <1>1 DEF WordsInv
        <3>2. answer'[f.load] = "none" /\ \A n \in Loads : n > loads' => answer'[n] = "none"
            BY <1>1, <1>2, <2>1, <3>1 DEF FreshInv
        <3>3. port.gen \in 0..loads
            BY <3>1 DEF FreshInv
        <3>4. {port'.gen, port'.pipe} \subseteq 0..loads'
            BY <1>1, <1>2, <2>5, <3>3 DEF None
        <3> QED
            BY <2>4, <2>5, <2>7, <3>2, <3>4 DEF FreshInv, FramesInOrder
    <2>9. PendingInv'
        <3>1. port.pending # None => port.state = "STOPPED" /\ port.pending = port.gen
                                     /\ answer[port.pending] = "none"
            BY <1>1 DEF WordsInv, PendingInv
        <3>2. IsArming'
            <4>1. stack' # <<>>
                BY <2>1, <2>2, <2>3, PushFacts
            <4> QED
                BY <2>1, <2>4, <4>1 DEF IsArming, Arming
        <3> QED
            BY <1>1, <2>1, <2>4, <2>5, <3>1, <3>2 DEF PendingInv
    <2>10. CurrentInv' /\ GenerationInv' /\ HandlersInv'
        BY <1>1, <2>5, <2>7 DEF CurrentInv, GenerationInv, HandlersInv, FramesInOrder, WordsInv
    <2>11. WordsAreInOrder'
        BY <1>1, <2>5 DEF WordsAreInOrder
    <2> QED
        BY <2>8, <2>9, <2>10, <2>11 DEF Orderly, WordsInv
<1>4. CASE StaysWatched \/ DoesNotStop
    <2>1. port.pipe # None /\ ~IsArming
        BY <1>1, <1>4 DEF StaysWatched, DoesNotStop, ArmingInv
    <2>2. stack' = Overtaken => FramesInOrder' /\ ~IsArming'
        BY <1>1, OvertakenInOrder
    <2>3. CASE /\ stack' = Overtaken
               /\ \/ port' = [Cleared(port) EXCEPT !.state = "STOPPED"]
                  \/ port' = Cleared(port)
        <3> DEFINE r == Cleared(port)
        <3>1. /\ r \in Port /\ r.gen = None /\ r.pending = None /\ r.current = None
              /\ r.pipe = port.pipe /\ r.state = port.state
            BY <1>2, ClearedFacts
        <3> HIDE DEF r
        <3>2. /\ port'.gen = None /\ port'.pending = None /\ port'.current = None
              /\ port'.pipe = port.pipe /\ port'.state \in {port.state, "STOPPED"}
            BY <2>3, <3>1 DEF Port, r
        <3> QED
            BY <1>1, <2>2, <2>3, <3>2, WordsUnloaded
    <2>4. CASE stack' = Overtaken /\ port' = port
        <3>1. StartsOver
            BY <1>1, <1>2, <2>4, NothingSaid
        <3>2. HandlersInv'
            BY <1>1, <2>2, <2>4, OvertakenFacts, HandlersKept
        <3> QED
            BY <1>1, <2>1, <2>2, <2>4, <3>1, <3>2, WordsKept DEF SameOwner
    <2>5. \/ /\ stack' = Overtaken
             /\ \/ port' = [Cleared(port) EXCEPT !.state = "STOPPED"]
                \/ port' = Cleared(port)
                \/ port' = port
          \/ /\ Stops
             /\ port' = [Released(port) EXCEPT !.direct = held, !.current = None, !.eos = FALSE,
                                               !.play = FALSE, !.state = "STOPPED"]
             /\ stack' = <<[rest |-> "arm", load |-> loads + 1, held |-> held, live |-> TRUE,
                            calls |-> port.state # "STOPPED"]>> \o Overtaken
        BY DEF Load
    <2> QED
        BY <1>3, <2>3, <2>4, <2>5
<1> QED
    BY <1>3, <1>4 DEF Load

LEMMA PlayKeepsWords ==
    ASSUME Inv, Orderly, Play
    PROVE  Orderly'
<1>1. /\ TypeOK /\ OneTransport /\ ArmingInv /\ HoldInv /\ port.pipe # None
      /\ Starts /\ StartsOver /\ stack' = stack /\ loads' = loads
    BY DEF Inv, Play
<1>2. port \in Port /\ answer \in Answers
    BY <1>1, Types
<1>3. ~IsArming /\ ~IsArming' /\ FramesInOrder'
    BY <1>1, FramesAreInOrder DEF ArmingInv, IsArming, FramesInOrder, Orderly
<1>4. ASSUME SameOwner(port, port'), port'.state = port.state, port'.eos => port.eos
      PROVE  Orderly'
    <2>1. \A n \in Loads : answer[n] = "accepted" => answer'[n] = "accepted"
        BY <1>1, <1>2, StartsOverFacts
    <2>2. HandlersInv'
        BY <1>1, <1>3, <1>4, <2>1, HandlersKept DEF SameOwner
    <2> QED
        BY <1>1, <1>3, <1>4, <2>2, WordsKept
<1>5. CASE (PlayHeld \/ PlayAgain \/ PlayAccepted) /\ UNCHANGED natively
    BY <1>1, <1>3, <1>4, <1>5, PlayHeldFacts, PlayAgainFacts, PlayAcceptedFacts
<1>6. CASE PlayCandidate
    <2>1. CASE SameOwner(port, port') /\ port'.eos = port.eos
        BY <1>1, <1>4, <1>6, <2>1, PlayCandidateFacts
    <2>2. CASE /\ port'.gen = None /\ port'.pending = None /\ port'.current = None /\ ~port'.eos
               /\ port'.pipe = port.pipe \/ port'.pipe = None
        <3>1. ~port.eos /\ port'.state = port.state
            BY <1>1, <1>6, PlayCandidateFacts DEF IsCandidate, Orderly, WordsInv, PendingInv
        <3>2. port'.eos = port.eos
            BY <1>1, <1>2, <1>6, <2>2, <3>1, PlayCandidateFacts DEF Port
        <3>3. answer' = answer
            BY <1>1, <1>2, <3>2, StartsOverFacts
        <3> QED
            BY <1>1, <1>3, <2>2, <3>1, <3>3, WordsUnloaded
    <2> QED
        BY <1>1, <1>6, <2>1, <2>2, PlayCandidateFacts
<1> QED
    BY <1>1, <1>5, <1>6 DEF Starts

LEMMA PauseKeepsWords ==
    ASSUME Inv, Orderly, Pause
    PROVE  Orderly'
<1>1. /\ TypeOK /\ port \in Port /\ answer \in Answers /\ UNCHANGED <<stack, answer, loads>>
    BY Types DEF Inv, Pause
<1>2. SameOwner(port, port') /\ port'.eos = port.eos /\ port'.state = port.state
    BY <1>1 DEF Pause, Port, SameOwner
<1>3. FramesInOrder' /\ (IsArming' <=> IsArming)
    BY <1>1, FramesAreInOrder DEF FramesInOrder, Orderly, IsArming
<1>4. StartsOver
    BY <1>1, <1>2, NothingSaid
<1>5. HandlersInv'
    BY <1>1, <1>2, <1>3, HandlersKept DEF SameOwner
<1> QED
    BY <1>1, <1>2, <1>3, <1>4, <1>5, WordsKept

LEMMA StopKeepsWords ==
    ASSUME Inv, Orderly, Stop
    PROVE  Orderly'
<1>1. /\ TypeOK /\ OneTransport /\ ArmingInv /\ WordsInv /\ MayCall
      /\ StartsOver /\ stack' = Overtaken /\ loads' = loads
    BY DEF Inv, Orderly, Stop, Commandable
<1>2. port \in Port /\ answer \in Answers
    BY <1>1, Types
<1>3. FramesInOrder' /\ ~IsArming' /\ (IsArming => port.pending = None)
    BY <1>1, OvertakenInOrder, NothingPendingBelow
<1>4. ASSUME SameOwner(port, port'), port'.state \in {port.state, "STOPPED"}, port'.eos => port.eos
      PROVE  Orderly'
    <2>1. \A n \in Loads : answer[n] = "accepted" => answer'[n] = "accepted"
        BY <1>1, <1>2, StartsOverFacts
    <2>2. HandlersInv'
        BY <1>1, <1>3, <1>4, <2>1, OvertakenFacts, HandlersKept DEF SameOwner
    <2> QED
        BY <1>1, <1>3, <1>4, <2>2, WordsKept
<1>5. CASE StopCandidate
    <2>1. CASE SameOwner(port, port') /\ port'.eos = port.eos /\ port'.state = port.state
        BY <1>4, <2>1
    <2>2. CASE /\ port'.gen = None /\ port'.pending = None /\ port'.current = None
               /\ port'.pipe = None /\ ~port'.eos /\ port'.state = "STOPPED"
        <3>1. ~port.eos
            BY <1>1, <1>5, StopCandidateFacts DEF IsCandidate, WordsInv, PendingInv
        <3>2. port'.eos = port.eos
            BY <1>1, <1>2, <1>5, <2>2, <3>1, StopCandidateFacts DEF Port
        <3>3. answer' = answer
            BY <1>1, <1>2, <3>2, StartsOverFacts
        <3> QED
            BY <1>1, <1>3, <2>2, <3>3, WordsUnloaded
    <2> QED
        BY <1>1, <1>5, <2>1, <2>2, StopCandidateFacts
<1>6. CASE \/ StopSource
           \/ /\ port.pipe = None
              /\ port' = Retired(port)
              /\ UNCHANGED <<late, gst, natively, faults>>
    BY <1>1, <1>4, <1>6, StopOtherFacts
<1> QED
    BY <1>5, <1>6 DEF Stop

LEMMA CloseKeepsWords ==
    ASSUME Inv, Orderly, Close
    PROVE  Orderly'
<1>1. /\ TypeOK /\ OneTransport /\ WordsInv /\ UNCHANGED <<answer, loads>> /\ stack' = Overtaken
    BY DEF Inv, Orderly, Close
<1>2. PICK nulled, detached, joined, compensated \in BOOLEAN :
         Closing(nulled, detached, joined, compensated)
    BY DEF Close
<1>3. /\ port'.gen = None /\ port'.pending = None /\ port'.current = None
      /\ port'.pipe \in {None, port.pipe} /\ port'.state = port.state
    BY <1>1, <1>2, ClosingFacts
<1>4. FramesInOrder' /\ ~IsArming'
    BY <1>1, OvertakenInOrder
<1> QED
    BY <1>1, <1>3, <1>4, WordsUnloaded

(* The two ports know the same of their media: only the watch differs.     *)
SameMedia(p, q) ==
    /\ q.gen = p.gen /\ q.pending = p.pending /\ q.current = p.current
    /\ q.pipe = p.pipe /\ q.eos = p.eos /\ q.state = p.state

LEMMA PumpKeepsWords ==
    ASSUME Inv, Orderly,
           port' = port \/ port' = [port EXCEPT !.watch = None],
           UNCHANGED <<stack, answer, loads>>
    PROVE  Orderly'
<1>1. TypeOK /\ port \in Port /\ answer \in Answers
    BY Types DEF Inv
<1>2. SameMedia(port, port')
    BY <1>1 DEF Port, SameMedia
<1> QED
    BY <1>2 DEF SameMedia, Orderly, WordsInv, FreshInv, PendingInv, CurrentInv, GenerationInv,
                HandlersInv, WordsAreInOrder, IsArming

LEMMA EmitKeepsWords ==
    ASSUME Inv, Orderly, NEW w \in natively, Emit(w)
    PROVE  Orderly'
BY PumpKeepsWords DEF Emit

LEMMA LateKeepsWords ==
    ASSUME Inv, Orderly, LateCommand
    PROVE  Orderly'
<1>1. port \in Port
    BY Types DEF Inv
<1>2. port' = port \/ port' = [port EXCEPT !.watch = None]
    BY <1>1 DEF LateCommand, LateAttach, LateDetach, Port
<1> QED
    BY <1>2, PumpKeepsWords DEF LateCommand

LEMMA PumpDiesKeepsWords ==
    ASSUME Inv, Orderly, PumpDies
    PROVE  Orderly'
BY PumpKeepsWords DEF PumpDies

(* The media that failed is rejected: it was not before.                   *)
LEMMA RejectedInOrder ==
    ASSUME TypeOK, Orderly, NEW n \in Loads, n <= loads,
           answer[n] \in {"none", "accepted", "ended"}, Says(n, "rejected")
    PROVE  /\ \A m \in Loads : answer'[m] = answer[m] \/ (m <= loads /\ answer'[m] \in Words)
           /\ answer'[n] = "rejected"
BY Types, SaysFacts DEF Words

LEMMA ErrorKeepsWords ==
    ASSUME Inv, Orderly, stack = <<>>, port.gen # None \/ port.current # None, CommitError,
           stack' = stack, loads' = loads
    PROVE  Orderly'
<1>1. /\ TypeOK /\ port \in Port /\ answer \in Answers /\ port' = Failed /\ Loads \subseteq Nat
    BY Types, CommitErrorFacts, BoundsAssumption DEF Inv, Loads
<1>2. /\ port'.gen = port.gen /\ port'.pending = None /\ port'.current = None
      /\ port'.pipe = port.pipe /\ port'.state = port.state
    BY <1>1, FailedFacts
<1>3. FreshInv /\ PendingInv /\ CurrentInv /\ GenerationInv
    BY DEF Orderly, WordsInv
<1>4. /\ port.gen \in Loads /\ port.gen <= loads
    <2>1. port.gen \in LoadOrNone
        BY <1>1 DEF Port
    <2>2. port.gen # None /\ port.gen \in 0..loads
        BY <1>3 DEF CurrentInv, FreshInv
    <2> QED
        BY <2>1, <2>2, <1>1 DEF LoadOrNone
<1>5. FramesInOrder' /\ ~IsArming'
    BY FramesAreInOrder DEF Orderly, FramesInOrder, IsArming
<1>6. /\ \A n \in Loads : answer'[n] = answer[n] \/ (n <= loads /\ answer'[n] \in Words)
      /\ answer'[port.gen] # "none"
    <2>1. CASE port.pending = None /\ port.current = None
        <3>1. answer' = answer
            BY <1>1, <2>1, CommitErrorFacts
        <3>2. port.gen # None
            BY <1>4, BoundsAssumption DEF Loads, None
        <3> QED
            BY <1>3, <2>1, <3>1, <3>2 DEF GenerationInv
    <2>2. CASE port.pending # None \/ port.current # None
        <3>1. Says(port.gen, "rejected")
            BY <1>1, <2>2, CommitErrorFacts
        <3>2. answer[port.gen] \in {"none", "accepted", "ended"}
            BY <1>3, <2>2 DEF PendingInv, CurrentInv
        <3> QED
            BY <1>1, <1>4, <3>1, <3>2, RejectedInOrder
    <2> QED
        BY <2>1, <2>2
<1>7. port'.gen # None => /\ port'.gen \in Loads /\ port'.gen <= loads
                          /\ answer'[port'.gen] # "none"
                          /\ port'.pipe # None => port'.gen = port'.pipe
    BY <1>2, <1>3, <1>4, <1>6 DEF GenerationInv
<1> QED
    BY <1>1, <1>2, <1>5, <1>6, <1>7, WordsUnloaded

LEMMA AcceptKeepsWords ==
    ASSUME Inv, Orderly, stack = <<>>, port.gen # None, Accept, loads' = loads
    PROVE  Orderly'
<1>1. /\ TypeOK /\ OneTransport /\ HoldInv /\ port \in Port /\ answer \in Answers /\ ~IsArming
      /\ Loads \subseteq Nat /\ None \notin Loads
    BY Types, BoundsAssumption DEF Inv, IsArming, Loads, None
<1>2. FreshInv /\ PendingInv /\ CurrentInv /\ GenerationInv /\ WordsAreInOrder
    BY DEF Orderly, WordsInv
<1>3. port.gen \in Loads /\ port.gen <= loads
    <2>1. port.gen \in LoadOrNone
        BY <1>1 DEF Port
    <2>2. port.gen \in 0..loads
        BY <1>2 DEF FreshInv
    <2> QED
        BY <1>1, <2>1, <2>2 DEF LoadOrNone
<1>4. stack' = stack => FramesInOrder' /\ ~IsArming'
    BY FramesAreInOrder DEF Orderly, FramesInOrder, IsArming
<1>5. CASE /\ SameOwner(port, port') /\ UNCHANGED <<stack, answer>>
           /\ port'.state = port.state /\ port'.eos = port.eos
    <2>1. StartsOver
        BY <1>1, <1>5, NothingSaid
    <2>2. HandlersInv'
        BY <1>1, <1>4, <1>5, HandlersKept DEF SameOwner
    <2> QED
        BY <1>1, <1>4, <1>5, <2>1, <2>2, WordsKept
<1>6. CASE /\ port.pending # None
           /\ port'.gen = port.gen /\ port'.pipe = port.pipe
           /\ port'.current = port.pending /\ port'.pending = None
           /\ port'.state = port.state /\ port'.eos = port.eos
           /\ Says(port.pending, "accepted")
           /\ Callback("accepted", TRUE)
    <2>1. /\ Len(stack') = 1 /\ stack'[1].rest = "accepted" /\ stack'[1].load = port.gen
          /\ ~IsArming'
        BY <1>1, <1>6, CallbackFacts
    <2>2. /\ port.pending = port.gen /\ port.pipe = port.gen /\ port.state = "STOPPED" /\ ~port.eos
          /\ answer[port.gen] = "none"
        BY <1>1, <1>2, <1>6 DEF PendingInv
    <2>3. /\ answer'[port.gen] = "accepted" /\ \A m \in Loads : m # port.gen => answer'[m] = answer[m]
        BY <1>1, <1>3, <1>6, <2>2, SaysFacts DEF Words
    <2>4. FreshInv'
        <3>1. loads \in Nat
            BY <1>1, Types, BoundsAssumption
        <3>2. \A n \in Loads : n > loads' => answer'[n] = "none"
            BY <1>1, <1>2, <1>3, <2>3, <3>1 DEF FreshInv
        <3>3. \A i \in 1..Len(stack') : stack'[i].load <= loads'
            BY <1>3, <2>1
        <3>4. {port'.gen, port'.pipe} \subseteq 0..loads'
            BY <1>2, <1>6 DEF FreshInv
        <3> QED
            BY <2>1, <3>2, <3>3, <3>4 DEF FreshInv
    <2>5. PendingInv' /\ CurrentInv' /\ GenerationInv'
        BY <1>6, <2>2, <2>3 DEF PendingInv, CurrentInv, GenerationInv
    <2>6. HandlersInv'
        BY <1>6, <2>1, <2>2 DEF HandlersInv
    <2>7. WordsAreInOrder'
        BY <1>2, <1>6, <2>2, <2>3 DEF WordsAreInOrder
    <2> QED
        BY <2>4, <2>5, <2>6, <2>7 DEF Orderly, WordsInv
<1>7. CASE /\ port.pending # None \/ port.replay
           /\ port'.gen = None /\ port'.pending = None /\ port'.current = None
           /\ port'.state = port.state
           /\ port'.pipe \in {None, port.pipe}
           /\ Says(port.gen, "rejected") /\ stack' = stack
    <2>1. answer[port.gen] \in {"none", "accepted", "ended"}
        BY <1>1, <1>2, <1>7 DEF PendingInv, CurrentInv, HoldInv
    <2>2. \A m \in Loads : answer'[m] = answer[m] \/ (m <= loads /\ answer'[m] \in Words)
        BY <1>1, <1>3, <1>7, <2>1, RejectedInOrder
    <2> QED
        BY <1>1, <1>4, <1>7, <2>2, WordsUnloaded
<1> QED
    BY <1>1, <1>5, <1>6, <1>7, AcceptFacts

LEMMA DispatchKeepsWords ==
    ASSUME Inv, Orderly, Dispatch
    PROVE  Orderly'
<1>1. /\ TypeOK /\ port \in Port /\ answer \in Answers /\ stack = <<>> /\ loads' = loads
    BY Types, DispatchCases DEF Inv
<1>2. FreshInv /\ PendingInv /\ CurrentInv
    BY DEF Orderly, WordsInv
<1>3. CASE /\ UNCHANGED <<stack, answer>>
           /\ SameOwner(port, port') /\ port'.eos = port.eos
           /\ port'.state # port.state => port.gen # None /\ (IsCandidate => port'.state = "STOPPED")
    <2>1. StartsOver
        BY <1>1, <1>3, NothingSaid
    <2>2. FramesInOrder' /\ ~IsArming'
        BY <1>1, <1>3, FramesAreInOrder DEF Orderly, FramesInOrder, IsArming
    <2>3. HandlersInv'
        BY <1>1, <1>3, <2>2, HandlersKept DEF SameOwner
    <2>4. \/ port'.state \in {port.state, "STOPPED"}
          \/ port.gen # None /\ port.pending = None
        BY <1>2, <1>3 DEF IsCandidate, PendingInv
    <2> QED
        BY <1>1, <1>3, <2>1, <2>2, <2>3, <2>4, WordsKept DEF IsArming
<1>4. CASE /\ UNCHANGED answer
           /\ port.gen # None /\ port.current # None /\ ~port.eos
           /\ port' = Ended /\ \E calls \in BOOLEAN : Callback("ended", calls)
    <2>1. SameOwner(port, port') /\ port'.eos /\ port'.state = "STOPPED"
        BY <1>1, <1>4, EndedFacts
    <2>2. /\ Len(stack') = 1 /\ stack'[1].rest = "ended" /\ stack'[1].load = port.gen
          /\ ~IsArming'
        BY <1>1, <1>4, CallbackFacts
    <2>3. port.gen <= loads
        BY <1>2 DEF FreshInv
    <2> QED
        BY <1>1, <1>4, <2>1, <2>2, <2>3, WordsEnded
<1>5. CASE stack' = stack /\ port.gen # None /\ CommitError
    BY <1>1, <1>5, ErrorKeepsWords
<1>6. CASE port.gen # None /\ Accept
    BY <1>1, <1>6, AcceptKeepsWords
<1> QED
    BY <1>3, <1>4, <1>5, <1>6, DispatchCases

LEMMA ArmKeepsWords ==
    ASSUME Inv, Orderly, stack # <<>>, NEW f, f = stack[1], f.rest = "arm", f.live,
           stack' = Tail(stack), Attempts(f), loads' = loads
    PROVE  Orderly'
<1>1. /\ TypeOK /\ OneTransport /\ ArmingInv /\ WordsInv /\ answer \in Answers /\ stack \in Seq(Frame)
      /\ Loads \subseteq Nat /\ None \notin Loads /\ Len(stack) \in Nat \ {0}
    BY Types, PopFacts, BoundsAssumption DEF Inv, Orderly, Loads, None
<1>2. IsArming /\ port.pipe = None /\ f \in Frame /\ f.load \in Loads
    BY <1>1, PopFacts DEF ArmingInv, IsArming, Arming, Frame
<1>3. answer[f.load] = "none" /\ port.state = "STOPPED" /\ f.load <= loads
    BY <1>1, <1>2 DEF WordsInv, FreshInv
<1>4. FramesInOrder' /\ ~IsArming'
    BY <1>1, TailInOrder
<1>5. Silent
    BY <1>1, <1>2 DEF Silent, OneTransport, Loads, None
<1>6. /\ port'.current = None /\ ~port'.eos /\ port'.state = "STOPPED"
      /\ port'.pipe \in {None, f.load}
      /\ \/ /\ port'.gen = f.load /\ port'.pending = f.load /\ port'.pipe = f.load
            /\ answer' = answer
         \/ /\ port'.gen = None /\ port'.pending = None
            /\ answer' = answer
         \/ /\ port'.gen = f.load /\ port'.pending = None
            /\ Says(f.load, "rejected")
    BY <1>1, <1>2, <1>3, <1>5, AttemptsFacts
<1>7. CASE /\ port'.gen = f.load /\ port'.pending = f.load /\ port'.pipe = f.load
           /\ answer' = answer
    <2>1. FreshInv'
        <3>1. TypeOK /\ f.load \in Loads /\ Loads \subseteq Nat
            BY <1>1, <1>2
        <3>2. f.load \in 0..loads
            <4>1. loads \in Nat
                BY <3>1, Types, BoundsAssumption
            <4>2. f.load \in Nat
                BY <3>1
            <4> QED
                BY <1>3, <4>1, <4>2
        <3>3. FreshInv
            BY <1>1 DEF WordsInv
        <3> QED
            BY <1>4, <1>7, <3>2, <3>3 DEF FreshInv, FramesInOrder
    <2>2. PendingInv' /\ CurrentInv' /\ GenerationInv'
        BY <1>3, <1>4, <1>6, <1>7 DEF PendingInv, CurrentInv, GenerationInv
    <2>3. HandlersInv'
        BY <1>4, <1>6 DEF HandlersInv, FramesInOrder
    <2>4. WordsAreInOrder'
        BY <1>6, <1>7 DEF WordsAreInOrder, Orderly
    <2> QED
        BY <2>1, <2>2, <2>3, <2>4 DEF Orderly, WordsInv
<1>8. CASE port'.gen = None /\ port'.pending = None /\ answer' = answer
    BY <1>1, <1>2, <1>3, <1>4, <1>6, <1>8, WordsUnloaded
<1>9. CASE /\ port'.gen = f.load /\ port'.pending = None
           /\ Says(f.load, "rejected")
    <2>1. /\ \A n \in Loads : answer'[n] = answer[n] \/ (n <= loads /\ answer'[n] \in Words)
          /\ answer'[f.load] = "rejected"
        BY <1>1, <1>2, <1>3, <1>9, RejectedInOrder
    <2> QED
        BY <1>1, <1>2, <1>3, <1>4, <1>6, <1>9, <2>1, WordsUnloaded
<1> QED
    BY <1>6, <1>7, <1>8, <1>9

LEMMA ResumeKeepsWords ==
    ASSUME Inv, Orderly, Resume
    PROVE  Orderly'
<1> DEFINE f == Head(stack)
<1>1. /\ TypeOK /\ ArmingInv /\ WordsInv /\ stack # <<>> /\ loads' = loads
      /\ answer \in Answers /\ port \in Port
    BY Types DEF Inv, Orderly, Resume, Arm
<1>2. /\ f \in Frame /\ f = stack[1] /\ Len(stack) \in Nat \ {0} /\ f.load \in Loads
      /\ None \notin Loads
    BY <1>1, PopFacts, Types DEF Frame, Loads, None
<1>3. /\ FreshInv /\ PendingInv /\ CurrentInv /\ GenerationInv /\ HandlersInv
      /\ WordsAreInOrder
    BY DEF Orderly, WordsInv
<1> HIDE DEF f
<1>4. CASE stack' = Tail(stack) /\ port' = port /\ answer' = answer /\ ~IsArming
    <2>1. FramesInOrder' /\ ~IsArming'
        BY <1>1, <1>4, TailInOrder
    <2>2. StartsOver
        BY <1>1, <1>4, NothingSaid
    <2>3. HandlersInv'
        <3>1. \A i \in 1..Len(stack') : i + 1 \in 2..Len(stack) /\ stack'[i] = stack[i + 1]
            BY <1>1, <1>4, ReturnFacts
        <3>2. \A i \in 1..Len(stack') : i + 1 \in 1..Len(stack)
            BY <1>2, <3>1
        <3> QED
            BY <1>3, <1>4, <2>1, <3>1, <3>2 DEF HandlersInv, FramesInOrder
    <2> QED
        BY <1>1, <1>4, <2>1, <2>2, <2>3, WordsKept DEF SameOwner
<1>5. CASE Arm(f) /\ ~f.live
    BY <1>2, <1>4, <1>5 DEF Arm, IsArming, Arming
<1>6. CASE Arm(f) /\ f.live
    BY <1>1, <1>2, <1>6, ArmKeepsWords DEF Arm
<1>7. CASE Accepted(f) \/ Played(f) \/ EndOfMedia(f)
    <2>1. /\ f.rest # "arm" /\ ~IsArming /\ SameOwner(port, port')
          /\ \/ /\ Accepted(f) /\ StillIts(f) /\ port'.eos = port.eos
                /\ port'.state \in {port.state, "PLAYING"}
                /\ \E calls \in BOOLEAN : Continue("played", calls)
                /\ answer' = answer
             \/ /\ Played(f) /\ StillIts(f) /\ port'.eos /\ port'.state = "STOPPED"
                /\ \E calls \in BOOLEAN : Continue("ended", calls)
                /\ answer' = answer
             \/ /\ EndOfMedia(f) /\ StillIts(f) /\ port.eos
                /\ Says(f.load, "ended") /\ stack' = Tail(stack)
                /\ port' = port
             \/ /\ stack' = Tail(stack) /\ answer' = answer /\ port' = port
        BY <1>1, <1>7, RestFacts DEF f
    <2>2. Len(stack) = 1
        <3>1. 1 \in 1..Len(stack)
            BY <1>2
        <3> QED
            BY <1>2, <1>3, <2>1, <3>1 DEF HandlersInv
    <2>3. StillIts(f) =>
            /\ port.current # None /\ port.gen = f.load /\ port.pipe = f.load /\ port.pending = None
            /\ port.eos => f.rest = "ended" /\ answer[f.load] = "accepted"
        <3>1. 1 \in 1..Len(stack)
            BY <1>2
        <3> QED
            BY <1>2, <1>3, <2>1, <3>1 DEF StillIts, PendingInv, CurrentInv, HandlersInv
    <2>4. f.load <= loads
        <3>1. 1 \in 1..Len(stack)
            BY <1>2
        <3> QED
            BY <1>2, <1>3, <3>1 DEF FreshInv
    <2>5. ASSUME NEW rest \in {"played", "ended"}, NEW calls \in BOOLEAN, Continue(rest, calls)
          PROVE  /\ Len(stack') = 1 /\ stack'[1].rest = rest /\ stack'[1].load = f.load /\ ~IsArming'
        BY <1>1, <1>2, <2>2, <2>5, ContinueFacts
    <2>6. CASE /\ Accepted(f) /\ StillIts(f) /\ port'.eos = port.eos
               /\ port'.state \in {port.state, "PLAYING"}
               /\ \E calls \in BOOLEAN : Continue("played", calls)
               /\ answer' = answer
        <3>1. ~port.eos
            BY <2>3, <2>6 DEF Accepted
        <3>2. /\ Len(stack') = 1 /\ stack'[1].rest = "played" /\ stack'[1].load = f.load /\ ~IsArming'
            BY <2>5, <2>6
        <3>3. FramesInOrder' /\ HandlersInv'
            BY <1>1, <2>4, <2>6, <3>1, <3>2 DEF FramesInOrder, HandlersInv
        <3>4. StartsOver
            BY <1>1, <2>6, NothingSaid
        <3>5. port.gen # None /\ port.pending = None
            BY <1>2, <2>3, <2>6
        <3> QED
            BY <1>1, <2>1, <2>6, <3>2, <3>3, <3>4, <3>5, WordsKept
    <2>7. CASE /\ Played(f) /\ StillIts(f) /\ port'.eos /\ port'.state = "STOPPED"
               /\ \E calls \in BOOLEAN : Continue("ended", calls)
               /\ answer' = answer
        <3>1. ~port.eos /\ port.current # None
            BY <2>3, <2>7 DEF Played
        <3>2. /\ Len(stack') = 1 /\ stack'[1].rest = "ended" /\ stack'[1].load = f.load /\ ~IsArming'
            BY <2>5, <2>7
        <3> QED
            BY <1>1, <2>1, <2>4, <2>7, <3>1, <3>2, WordsEnded
    <2>8. CASE /\ EndOfMedia(f) /\ StillIts(f) /\ port.eos
               /\ Says(f.load, "ended") /\ stack' = Tail(stack)
               /\ port' = port
        <3>1. /\ answer'[f.load] = "ended" /\ \A m \in Loads : m # f.load => answer'[m] = answer[m]
            BY <1>1, <1>2, <2>3, <2>8, SaysFacts DEF Words
        <3>2. Len(stack') = 0 /\ ~IsArming'
            BY <1>1, <2>2, <2>8, ReturnFacts
        <3>3. FreshInv'
            <4>1. \A n \in Loads : n > loads' => answer'[n] = "none"
                BY <1>1, <1>2, <1>3, <2>4, <3>1, Types, BoundsAssumption DEF FreshInv, Loads
            <4> QED
                BY <1>1, <1>3, <2>8, <3>2, <4>1 DEF FreshInv
        <3>4. PendingInv' /\ CurrentInv' /\ GenerationInv'
            BY <1>2, <1>3, <2>3, <2>8, <3>1 DEF PendingInv, CurrentInv, GenerationInv
        <3>5. HandlersInv'
            BY <3>2 DEF HandlersInv
        <3>6. WordsAreInOrder'
            BY <1>3, <2>3, <2>8, <3>1 DEF WordsAreInOrder
        <3> QED
            BY <3>3, <3>4, <3>5, <3>6 DEF Orderly, WordsInv
    <2> QED
        BY <1>4, <2>1, <2>6, <2>7, <2>8
<1> QED
    BY <1>5, <1>6, <1>7 DEF Resume, f

LEMMA DeadlineKeepsWords ==
    ASSUME Inv, Orderly, Deadline
    PROVE  Orderly'
<1>1. /\ TypeOK /\ HoldInv /\ port \in Port /\ answer \in Answers
      /\ stack = <<>> /\ port.hold = "armed" /\ UNCHANGED <<stack, loads>>
      /\ \/ /\ SameOwner(port, port') /\ port'.eos = port.eos
            /\ port'.state = port.state /\ answer' = answer
         \/ CommitError
    BY Types, DeadlineCases DEF Inv
<1>2. FramesInOrder' /\ ~IsArming /\ ~IsArming'
    BY <1>1, FramesAreInOrder DEF Orderly, FramesInOrder, IsArming
<1>3. CASE /\ SameOwner(port, port') /\ port'.eos = port.eos
           /\ port'.state = port.state /\ answer' = answer
    <2>1. StartsOver
        BY <1>1, <1>3, NothingSaid
    <2>2. HandlersInv'
        BY <1>1, <1>2, <1>3, HandlersKept DEF SameOwner
    <2> QED
        BY <1>1, <1>2, <1>3, <2>1, <2>2, WordsKept
<1>4. CASE CommitError
    <2>1. port.current # None
        BY <1>1, <1>2 DEF HoldInv
    <2> QED
        BY <1>1, <1>4, <2>1, ErrorKeepsWords
<1> QED
    BY <1>1, <1>3, <1>4

LEMMA InitWords ==
    ASSUME Init
    PROVE  Orderly
BY BoundsAssumption DEF Init, Orderly, WordsInv, FreshInv, PendingInv, CurrentInv, GenerationInv,
                        HandlersInv, WordsAreInOrder, IsArming, None

LEMMA NextWords ==
    ASSUME Inv, Orderly, [Next]_vars
    PROVE  Orderly'
<1>1. CASE \E held \in BOOLEAN : Load(held)
    BY <1>1, LoadKeepsWords
<1>2. CASE Play
    BY <1>2, PlayKeepsWords
<1>3. CASE Pause
    BY <1>3, PauseKeepsWords
<1>4. CASE Stop
    BY <1>4, StopKeepsWords
<1>5. CASE Close
    BY <1>5, CloseKeepsWords
<1>6. CASE \E w \in natively : Emit(w)
    BY <1>6, EmitKeepsWords
<1>7. CASE LateCommand
    BY <1>7, LateKeepsWords
<1>8. CASE PumpDies
    BY <1>8, PumpDiesKeepsWords
<1>9. CASE Dispatch
    BY <1>9, DispatchKeepsWords
<1>10. CASE Resume
    BY <1>10, ResumeKeepsWords
<1>11. CASE Deadline
    BY <1>11, DeadlineKeepsWords
<1>12. CASE UNCHANGED vars
    BY <1>12 DEF vars, Orderly, WordsInv, FreshInv, PendingInv, CurrentInv, GenerationInv,
                 HandlersInv, WordsAreInOrder, IsArming
<1> QED
    BY <1>1, <1>2, <1>3, <1>4, <1>5, <1>6, <1>7, <1>8, <1>9, <1>10, <1>11, <1>12
    DEF Next, Owner, Pump

(* Whatever a listener calls back, and whatever fails: nobody hears of a   *)
(* load what does not follow from what was said of it before, nor PLAYING  *)
(* of what is loaded before its load was answered.                         *)
THEOREM WordsStayInOrder == Spec => []WordsAreInOrder
<1>1. Init => Inv /\ Orderly
    BY InitInv, InitWords
<1>2. Inv /\ Orderly /\ [Next]_vars => Inv' /\ Orderly'
    BY NextInv, NextWords
<1>3. Orderly => WordsAreInOrder
    BY DEF Orderly
<1> QED
    BY <1>1, <1>2, <1>3, PTL DEF Spec

=============================================================================
