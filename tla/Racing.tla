------------------------------- MODULE Racing -------------------------------
(***************************************************************************)
(* racing.Execute as runCombo calls it, one call after another.  A race    *)
(* runs a goroutine per target; each sends its outcome to a buffered       *)
(* channel that Execute reads until a response or the end of the channel.  *)
(* The other strategies try one target after the other.  An attempt is the *)
(* function runCombo passes: it asks for a key and calls the provider, and *)
(* for a stream it takes whatever arrived before the stream ended.         *)
(***************************************************************************)
EXTENDS Integers, Sequences, FiniteSets

CONSTANTS
    Targets,   \* provider and model
    Combos,    \* the combos that are saved
    Usages     \* what RequestsUsed adds up to, per target's provider

Strategies == {"strict", "round_robin", "least_used", "race"}

ASSUME RacingAssumption ==
    /\ Combos \subseteq [strategy : Strategies, targets : Seq(Targets), size : Nat \ {0, 1}]
    /\ \A co \in Combos : co.targets # <<>>
    /\ Usages \subseteq [Targets -> Nat]

VARIABLES
    pc,        \* where Execute is
    combo,     \* its combo
    stream,    \* the request asks for a stream
    order,     \* the targets as orderTargets put them
    att,       \* what became of the attempt at each of them
    late,      \* the attempts whose AttemptTimeout is over
    sent,      \* the goroutines that sent their outcome
    results,   \* the channel: the attempts whose outcome is in it
    closed,    \* the channel is closed
    cancelled, \* ctxAll is cancelled
    gone,      \* the caller's context is done
    ret        \* what Execute returned: an attempt, or why there is none

vars == <<pc, combo, stream, order, att, late, sent, results, closed, cancelled, gone, ret>>

Attempts == DOMAIN order
Racing == combo.strategy = "race" /\ Len(order) > 1

\* How many targets race.
Take == IF combo.size > Len(order) THEN Len(order) ELSE combo.size

Launched == IF Racing THEN 1..Take ELSE {}
Won == {"ok", "partial"}

\* Types; no more attempts are launched than there are targets, and one has an
\* outcome before it is sent.
TypeOK ==
    /\ pc \in {"race", "failover", "done"}
    /\ combo \in Combos
    /\ stream \in BOOLEAN
    /\ order \in Seq(Targets)
    /\ att \in [Attempts -> {"new", "running", "ok", "partial", "err"}]
    /\ late \subseteq Attempts
    /\ Launched \subseteq Attempts
    /\ sent \subseteq Launched /\ \A i \in sent : att[i] \notin {"new", "running"}
    /\ results \in Seq(sent)
    /\ closed \in BOOLEAN /\ cancelled \in BOOLEAN /\ gone \in BOOLEAN
    /\ ret \in Attempts \cup {-2, -1, 0}

\* ret, besides an attempt.
None == 0
AllFailed == -1
CallerGone == -2

-----------------------------------------------------------------------------
\* sortLeastUsed, a stable sort.
Sorted(targets, usage) ==
    LET Before(i, j) == \/ usage[targets[i]] < usage[targets[j]]
                        \/ usage[targets[i]] = usage[targets[j]] /\ i < j
        Sorting(f) == \A m, n \in DOMAIN targets : m < n => Before(f[m], f[n])
    IN  {[n \in DOMAIN targets |-> targets[f[n]]] :
            f \in {f \in [DOMAIN targets -> DOMAIN targets] : Sorting(f)}}

\* What orderTargets may return.
Orders(co, usage) ==
    IF co.strategy = "least_used" THEN Sorted(co.targets, usage) ELSE {co.targets}

Path(co) == IF co.strategy = "race" /\ Len(co.targets) > 1 THEN "race" ELSE "failover"

Init ==
    /\ combo \in Combos
    /\ \E usage \in Usages : order \in Orders(combo, usage)
    /\ pc = Path(combo)
    /\ stream \in BOOLEAN
    /\ att = [i \in DOMAIN order |-> "new"]
    /\ late = {} /\ sent = {} /\ results = <<>>
    /\ closed = FALSE /\ cancelled = FALSE /\ gone = FALSE
    /\ ret = None

\* Every goroutine of the call has ended.
Quiet == pc = "done" /\ sent = Launched /\ (Racing => closed)

\* The next call.
Execute(co, usage, s) ==
    /\ Quiet
    /\ combo' = co
    /\ order' \in Orders(co, usage)
    /\ pc' = Path(co)
    /\ stream' = s
    /\ att' = [i \in DOMAIN order' |-> "new"]
    /\ late' = {} /\ sent' = {} /\ results' = <<>>
    /\ closed' = FALSE /\ cancelled' = FALSE /\ gone' = FALSE
    /\ ret' = None

-----------------------------------------------------------------------------
\* A goroutine of the race begins its attempt, or failover's turn comes to it.
Start(i) ==
    /\ att[i] = "new"
    /\ IF Racing THEN i \in Launched
       ELSE pc = "failover" /\ \A j \in 1..i - 1 : att[j] = "err"
    /\ att' = [att EXCEPT ![i] = "running"]
    /\ UNCHANGED <<pc, combo, stream, order, late, sent, results, closed, cancelled, gone, ret>>

\* Mutant of Over: an attempt has no timeout of its own.
OverTimeless(i) == gone \/ cancelled

\* The context of an attempt is done.
Over(i) == gone \/ cancelled \/ i \in late

\* An attempt returns; a stream that was cut short returns what it has.
Finish(i, outcome) ==
    /\ att[i] = "running"
    /\ outcome = "partial" => stream
    /\ att' = [att EXCEPT ![i] = outcome]
    /\ UNCHANGED <<pc, combo, stream, order, late, sent, results, closed, cancelled, gone, ret>>

\* Mutant of CutOff: it goes on when nobody waits for it any more.
CutOffWaiting(i) == pc # "done" /\ Over(i) /\ \E outcome \in {"partial", "err"} : Finish(i, outcome)

\* It must return once its context is done.
CutOff(i) == Over(i) /\ \E outcome \in {"partial", "err"} : Finish(i, outcome)

Timeout(i) ==
    /\ att[i] = "running"
    /\ i \notin late
    /\ late' = late \cup {i}
    /\ UNCHANGED <<pc, combo, stream, order, att, sent, results, closed, cancelled, gone, ret>>

\* The room in the channel.
Capacity == Take

Send(i) ==
    /\ i \in Launched \ sent
    /\ att[i] \notin {"new", "running"}
    /\ Len(results) < Capacity
    /\ sent' = sent \cup {i}
    /\ results' = Append(results, i)
    /\ UNCHANGED <<pc, combo, stream, order, att, late, closed, cancelled, gone, ret>>

\* The closer, after wg.Wait.
Close ==
    /\ Racing /\ ~closed
    /\ sent = Launched
    /\ closed' = TRUE
    /\ UNCHANGED <<pc, combo, stream, order, att, late, sent, results, cancelled, gone, ret>>

\* The client goes away.
Leave ==
    /\ pc # "done" /\ ~gone
    /\ gone' = TRUE
    /\ UNCHANGED <<pc, combo, stream, order, att, late, sent, results, closed, cancelled, ret>>

-----------------------------------------------------------------------------
\* Execute returns; on the way out of a race ctxAll is cancelled.
Return(r) ==
    /\ pc' = "done"
    /\ ret' = r
    /\ cancelled' = Racing
    /\ UNCHANGED <<combo, stream, order, att, late, sent, closed, gone>>

\* Mutant of Win: nobody tells the losers.
WinQuietly ==
    /\ pc = "race"
    /\ results # <<>>
    /\ att[Head(results)] \in Won
    /\ results' = Tail(results)
    /\ pc' = "done"
    /\ ret' = Head(results)
    /\ UNCHANGED <<combo, stream, order, att, late, sent, closed, cancelled, gone>>

\* The select of race: a response,
Win ==
    /\ pc = "race"
    /\ results # <<>>
    /\ att[Head(results)] \in Won
    /\ results' = Tail(results)
    /\ Return(Head(results))

\* Mutant of Lose: the first error is the answer.
LoseAtOnce ==
    /\ pc = "race"
    /\ results # <<>>
    /\ att[Head(results)] = "err"
    /\ results' = Tail(results)
    /\ Return(AllFailed)

\* an error, which is kept as lastErr,
Lose ==
    /\ pc = "race"
    /\ results # <<>>
    /\ att[Head(results)] = "err"
    /\ results' = Tail(results)
    /\ UNCHANGED <<pc, combo, stream, order, att, late, sent, closed, cancelled, gone, ret>>

\* the end of the channel,
RunOut ==
    /\ pc = "race"
    /\ results = <<>> /\ closed
    /\ Return(AllFailed)
    /\ UNCHANGED results

\* or the end of the caller's context.
Abandon ==
    /\ pc = "race"
    /\ gone
    /\ Return(CallerGone)
    /\ UNCHANGED results

\* failover returns the first response, or the last error.
FailoverWins(i) ==
    /\ pc = "failover"
    /\ att[i] \in Won
    /\ Return(i)
    /\ UNCHANGED results

FailoverFails ==
    /\ pc = "failover"
    /\ \A i \in Attempts : att[i] = "err"
    /\ Return(AllFailed)
    /\ UNCHANGED results

Next ==
    \/ \E co \in Combos, usage \in Usages, s \in BOOLEAN : Execute(co, usage, s)
    \/ \E i \in Attempts :
          \/ Start(i) \/ Timeout(i) \/ Send(i) \/ FailoverWins(i)
          \/ \E outcome \in {"ok", "partial", "err"} : Finish(i, outcome)
    \/ Close \/ Leave
    \/ Win \/ Lose \/ RunOut \/ Abandon \/ FailoverFails

Spec == Init /\ [][Next]_vars

\* Goroutines are scheduled, timeouts fire, and an attempt returns once its
\* context is done: the provider's request and the wait for a key both carry
\* that context.
FairSpec ==
    /\ Spec
    /\ WF_vars(\E i \in Attempts : Start(i))
    /\ WF_vars(\E i \in Attempts : Timeout(i))
    /\ WF_vars(\E i \in Attempts : CutOff(i))
    /\ WF_vars(\E i \in Attempts : Send(i))
    /\ WF_vars(Close)
    /\ WF_vars(Win \/ Lose \/ RunOut \/ Abandon)
    /\ WF_vars(FailoverFails \/ \E i \in Attempts : FailoverWins(i))

-----------------------------------------------------------------------------
\* Execute returns a response of an attempt it made, and gives up only when
\* every attempt failed: no success is lost in the channel, and failover's
\* response is that of the first target in order that had one.
OutcomeRight ==
    /\ ret > 0 =>
          /\ att[ret] \in Won
          /\ ~Racing => \A j \in 1..ret - 1 : att[j] = "err"
    /\ ret = AllFailed =>
          \A i \in (IF Racing THEN Launched ELSE Attempts) : att[i] = "err"

\* No more targets than race_size are out at once, and one without a race.
FanOut ==
    Cardinality({i \in Attempts : att[i] = "running"}) <= IF Racing THEN combo.size ELSE 1

\* When Execute has returned, every attempt still out is cancelled.
LosersCancelled == pc = "done" => \A i \in Attempts : att[i] = "running" => Over(i)

\* Every call of Execute returns.
ExecuteReturns == pc # "done" ~> pc = "done"

\* No goroutine stays behind a call that returned.
NoneLeaks == pc = "done" ~> Quiet
=============================================================================
