-------------------------- MODULE ServerInputDrain --------------------------
(***************************************************************************)
(* The drain of waiting server inputs (serverChatInputDrain.cjs): the      *)
(* envelopes of the inputs that wait for an earlier input, a timer, and    *)
(* passes that ask the owner of the inputs about each of them and start    *)
(* the ones that are ready. A pass awaits the owner twice for an input;    *)
(* meanwhile inputs are added, predecessors publish and the storage is     *)
(* reset, which fences the passes that are still awaiting.                 *)
(*                                                                         *)
(* The owner is reduced to the answer of loadExecution for each input. The *)
(* owner itself is modelled by ServerChatInput.                            *)
(***************************************************************************)
EXTENDS Naturals, Sequences, FiniteSets, SequencesExt

CONSTANTS
    Inputs,      \* operations whose input may have to wait
    MaxAttempts, \* failures and starts after which an envelope is dropped
    MaxDrops     \* bound: answers of the owner that are lost or refused

ASSUME DrainAssumption ==
    /\ MaxAttempts \in Nat \ {0}
    /\ MaxDrops \in Nat

VARIABLES
    execution,  \* what the owner says of each input
    waiting,    \* the envelopes, in the order they were added
    attempts,   \* failures and starts of each envelope
    drainTimer, \* a pass is scheduled
    active,     \* a pass is running
    generation, \* advanced by every reset
    passes,     \* the passes in flight, the fenced ones included
    drops       \* answers lost or refused so far

drainVars == <<execution, waiting, attempts, drainTimer, active, generation,
               passes, drops>>

Executions == {"none", "waiting", "ready", "blocked", "started"}
Pass == [gen : Nat, seen : SUBSET Inputs, input : Inputs,
         at : {"load", "start", "answered", "failed"}]

DrainInit ==
    /\ execution = [i \in Inputs |-> "none"]
    /\ waiting = <<>>
    /\ attempts = [i \in Inputs |-> 0]
    /\ drainTimer = FALSE
    /\ active = FALSE
    /\ generation = 0
    /\ passes = {}
    /\ drops = 0
---------------------------------------------------------------------------
Envelopes == ToSet(waiting)

(* A start request of an input that has to wait. The envelope is kept with *)
(* its first body and counter.                                             *)
EnqueueInput(i) ==
    /\ execution[i] \in {"none", "waiting"}
    /\ execution' = [execution EXCEPT ![i] = "waiting"]
    /\ waiting' = IF i \in Envelopes THEN waiting ELSE Append(waiting, i)
    /\ attempts' = IF i \in Envelopes THEN attempts
                   ELSE [attempts EXCEPT ![i] = 0]
    /\ drainTimer' = TRUE
    /\ UNCHANGED <<active, generation, passes, drops>>

(* The predecessor of a waiting input publishes or fails for good.         *)
AdvanceInput(i) ==
    /\ execution[i] = "waiting"
    /\ \E status \in {"ready", "blocked"} :
          execution' = [execution EXCEPT ![i] = status]
    /\ UNCHANGED <<waiting, attempts, drainTimer, active, generation, passes, drops>>

(* The place of the first envelope that a pass has not visited, or 0.      *)
Unvisited(envelopes, seen) == SelectInSeq(envelopes, LAMBDA i : i \notin seen)
Without(i) == RemoveFirst(waiting, i)

(* The timer runs out; a pass starts unless one is running.                *)
BeginPass ==
    /\ drainTimer
    /\ drainTimer' = FALSE
    /\ IF active \/ waiting = <<>> THEN UNCHANGED <<passes, active>>
       ELSE /\ active' = TRUE
            /\ passes' = passes \cup {[gen |-> generation, seen |-> {},
                                       input |-> Head(waiting), at |-> "load"]}
    /\ UNCHANGED <<execution, waiting, attempts, generation, drops>>

(* Mutation: a pass that a reset fenced goes on with what it was told.     *)
NeverFenced(p) == FALSE

(* The storage was reset while pass p awaited the owner.                   *)
Fenced(p) == p.gen # generation

(* Mutation: the pass does not schedule the next one.                      *)
FinishSilently(p, envelopes) ==
    /\ passes' = passes \ {p}
    /\ active' = IF p.gen = generation THEN FALSE ELSE active
    /\ UNCHANGED drainTimer

(* The finally block: only the pass of this generation ends the activity   *)
(* and schedules the next pass.                                            *)
Finish(p, envelopes) ==
    /\ passes' = passes \ {p}
    /\ IF p.gen = generation
       THEN /\ active' = FALSE
            /\ drainTimer' = (drainTimer \/ envelopes # <<>>)
       ELSE UNCHANGED <<active, drainTimer>>

(* Pass p leaves its input, goes to the next one or finishes.              *)
GoOn(p, envelopes) ==
    LET seen == (p.seen \cup {p.input}) \cap ToSet(envelopes)
        next == Unvisited(envelopes, seen)
    IN  /\ waiting' = envelopes
        /\ IF next = 0 THEN Finish(p, envelopes)
           ELSE /\ passes' = (passes \ {p}) \cup
                      {[p EXCEPT !.seen = seen, !.input = envelopes[next], !.at = "load"]}
                /\ UNCHANGED <<active, drainTimer>>

(* A fenced pass returns and touches nothing else.                         *)
Return(p) ==
    /\ Finish(p, waiting)
    /\ UNCHANGED <<waiting, attempts>>

(* loadExecution throws: counted, and the envelope dropped at the limit.   *)
LoadFails(p) ==
    /\ p.at = "load" /\ drops < MaxDrops
    /\ drops' = drops + 1
    /\ IF Fenced(p) THEN Return(p)
       ELSE LET failures == attempts[p.input] + 1
                given == failures >= MaxAttempts
            IN  /\ attempts' = [attempts EXCEPT
                                   ![p.input] = IF given THEN 0 ELSE failures]
                /\ GoOn(p, IF given THEN Without(p.input) ELSE waiting)
    /\ UNCHANGED <<execution, generation>>

(* loadExecution answers: a waiting input is left, a ready one goes on to  *)
(* its start, and any other needs no envelope.                             *)
Load(p) ==
    /\ p.at = "load"
    /\ \/ /\ Fenced(p)
          /\ Return(p)
       \/ /\ ~Fenced(p) /\ execution[p.input] = "waiting"
          /\ GoOn(p, waiting)
          /\ UNCHANGED attempts
       \/ /\ ~Fenced(p) /\ execution[p.input] = "ready"
          /\ attempts' = [attempts EXCEPT ![p.input] = @ + 1]
          /\ passes' = (passes \ {p}) \cup {[p EXCEPT !.at = "start"]}
          /\ UNCHANGED <<waiting, active, drainTimer>>
       \/ /\ ~Fenced(p) /\ execution[p.input] \notin {"waiting", "ready"}
          /\ attempts' = [attempts EXCEPT ![p.input] = 0]
          /\ GoOn(p, Without(p.input))
    /\ UNCHANGED <<execution, generation, drops>>

(* The start path: a ready input is started, one that has to wait after    *)
(* all or an error leaves the envelope, anything else is refused with 409. *)
StartInput(p) ==
    /\ p.at = "start"
    /\ \/ /\ execution[p.input] # "waiting"
          /\ execution' = [execution EXCEPT
                  ![p.input] = IF @ = "ready" THEN "started" ELSE @]
          /\ passes' = (passes \ {p}) \cup {[p EXCEPT !.at = "answered"]}
          /\ UNCHANGED drops
       \/ /\ drops < MaxDrops \/ execution[p.input] = "waiting"
          /\ drops' = IF execution[p.input] = "waiting" THEN drops ELSE drops + 1
          /\ passes' = (passes \ {p}) \cup {[p EXCEPT !.at = "failed"]}
          /\ UNCHANGED execution
    /\ UNCHANGED <<waiting, attempts, drainTimer, active, generation>>

StartReturns(p) ==
    /\ p.at \in {"answered", "failed"}
    /\ IF Fenced(p) THEN Return(p)
       ELSE LET done == p.at = "answered" \/ attempts[p.input] >= MaxAttempts
            IN  /\ attempts' = IF done THEN [attempts EXCEPT ![p.input] = 0]
                               ELSE attempts
                /\ GoOn(p, IF done THEN Without(p.input) ELSE waiting)
    /\ UNCHANGED <<execution, generation, drops>>

PassStep(p) == Load(p) \/ StartInput(p) \/ StartReturns(p)

DrainNext ==
    \/ \E i \in Inputs : AdvanceInput(i)
    \/ BeginPass
    \/ \E p \in passes : PassStep(p) \/ LoadFails(p)

(* Mutation: a reset leaves it to the fenced pass to end the activity.     *)
DrainResetStillActive ==
    /\ generation' = generation + 1
    /\ waiting' = <<>>
    /\ attempts' = [i \in Inputs |-> 0]
    /\ drainTimer' = FALSE
    /\ UNCHANGED active

(* The storage reset discards the envelopes and fences the passes.         *)
DrainReset ==
    /\ generation' = generation + 1
    /\ waiting' = <<>>
    /\ attempts' = [i \in Inputs |-> 0]
    /\ drainTimer' = FALSE
    /\ active' = FALSE

(* A new process has no envelopes; the owner's records are durable. The    *)
(* generation starts again, and only tells apart passes of one process.    *)
DrainRestart ==
    /\ waiting' = <<>>
    /\ attempts' = [i \in Inputs |-> 0]
    /\ drainTimer' = FALSE
    /\ active' = FALSE
    /\ generation' = generation + 1
    /\ passes' = {}

(* Timers run out and the owner answers or fails.                          *)
DrainFairness ==
    /\ WF_drainVars(BeginPass)
    /\ WF_drainVars(\E p \in passes : PassStep(p))
---------------------------------------------------------------------------
DrainTypeOK ==
    /\ execution \in [Inputs -> Executions]
    /\ waiting \in Seq(Inputs) /\ IsInjective(waiting)
    /\ attempts \in [Inputs -> 0..MaxAttempts]
    /\ drainTimer \in BOOLEAN /\ active \in BOOLEAN
    /\ generation \in Nat /\ drops \in 0..MaxDrops
    /\ passes \in SUBSET Pass
    /\ \A p \in passes : p.gen <= generation

(* The flag that keeps two passes apart says exactly whether a pass of     *)
(* this generation is in flight, however many fenced ones still are: set   *)
(* without a pass it would stop the drain, and clear with one it would     *)
(* start an input twice.                                                   *)
OneLivePass ==
    LET current == {p \in passes : p.gen = generation}
    IN  Cardinality(current) <= 1 /\ (active <=> current # {})

(* Nothing wakes the drain for an envelope but its own timer, so one is    *)
(* scheduled or a pass is running whenever there is an envelope.           *)
EnvelopeHasWakeup == waiting # <<>> => drainTimer \/ active

(* An envelope goes only when its input needs it no more, after its own    *)
(* failures, or with a reset: never because of a pass that was fenced.     *)
EnvelopeGoes ==
    \A i \in Envelopes \ ToSet(waiting') :
        \/ generation' # generation
        \/ execution[i] \notin {"waiting", "ready"}
        \/ attempts[i] >= MaxAttempts - 1
EnvelopesKept == [][EnvelopeGoes]_drainVars

(* An envelope whose input is ready is started or given up, also when a    *)
(* reset came in between.                                                  *)
ReadyIsDrained ==
    \A i \in Inputs :
        i \in Envelopes /\ execution[i] = "ready" ~> i \notin Envelopes
=============================================================================
