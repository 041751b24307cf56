--------------------------- MODULE Racing_proofs ---------------------------
(***************************************************************************)
(* Proofs about Racing: what Execute returns is what its attempts came to, *)
(* losers are cancelled, and no more targets are out at once than allowed, *)
(* for any combos, any number of targets and any timing.                   *)
(***************************************************************************)
EXTENDS Racing, FiniteSetTheorems, TLAPS

\* While the race is on, a success that was sent is still in the channel.
NothingLost ==
    pc = "race" => \A i \in sent : att[i] = "err" \/ \E n \in DOMAIN results : results[n] = i

\* Where Execute is, and what that says of its result.
Phase ==
    /\ pc = "race" => Racing /\ ret = None
    /\ pc = "failover" => ~Racing /\ ret = None
    /\ pc = "done" => ret # None /\ (Racing => cancelled) /\ (~Racing => ret # CallerGone)
    /\ closed => sent = Launched

\* failover begins an attempt when those before it failed.
InTurn ==
    ~Racing => \A i \in Attempts : att[i] # "new" => \A j \in 1..i - 1 : att[j] = "err"

\* A race begins no attempt but those it launched.
Bounded == Racing => \A i \in Attempts : att[i] # "new" => i \in Launched

Inv == TypeOK /\ Phase /\ NothingLost /\ InTurn /\ Bounded /\ OutcomeRight

\* What orderTargets returns is a list of as many targets.
LEMMA OrdersType ==
    ASSUME NEW co \in Combos, NEW usage \in Usages, NEW o \in Orders(co, usage)
    PROVE  /\ o \in Seq(Targets) /\ o # <<>>
           /\ DOMAIN o = 1..Len(o) /\ Len(o) \in Nat
           /\ Len(o) = Len(co.targets)
<1> USE RacingAssumption
<1>1. co.targets \in Seq(Targets) /\ co.targets # <<>>
  OBVIOUS
<1>2. CASE co.strategy # "least_used"
  BY <1>1, <1>2 DEF Orders
<1>3. CASE co.strategy = "least_used"
  <2>1. PICK f \in [DOMAIN co.targets -> DOMAIN co.targets] :
           o = [n \in DOMAIN co.targets |-> co.targets[f[n]]]
    BY <1>3 DEF Orders, Sorted
  <2>2. DOMAIN co.targets = 1..Len(co.targets) /\ Len(co.targets) \in Nat \ {0}
    BY <1>1
  <2>3. \A n \in 1..Len(co.targets) : co.targets[f[n]] \in Targets
    BY <1>1, <2>1, <2>2
  <2>4. o = [n \in 1..Len(co.targets) |-> co.targets[f[n]]]
    BY <2>1, <2>2
  <2>5. o \in [1..Len(co.targets) -> Targets]
    BY <2>3, <2>4
  <2>6. o \in Seq(Targets) /\ Len(o) = Len(co.targets)
    BY <2>2, <2>5
  <2> QED BY <2>2, <2>5, <2>6
<1> QED BY <1>2, <1>3

\* A call that has just begun.
Begun ==
    /\ combo \in Combos /\ stream \in BOOLEAN
    /\ \E usage \in Usages : order \in Orders(combo, usage)
    /\ pc = Path(combo)
    /\ att = [i \in DOMAIN order |-> "new"]
    /\ late = {} /\ sent = {} /\ results = <<>>
    /\ closed = FALSE /\ cancelled = FALSE /\ gone = FALSE /\ ret = None

LEMMA BeginHolds == Begun => Inv
<1> SUFFICES ASSUME Begun PROVE Inv
  OBVIOUS
<1> USE DEF Begun
<1>1. /\ order \in Seq(Targets)
      /\ DOMAIN order = 1..Len(order) /\ Len(order) \in Nat \ {0}
      /\ Len(order) = Len(combo.targets)
  BY OrdersType
<1>2. Launched \subseteq Attempts
  BY <1>1, RacingAssumption DEF Launched, Take, Attempts
<1>3. TypeOK
  <2>1. results \in Seq(sent)
    OBVIOUS
  <2>2. pc \in {"race", "failover", "done"}
    BY DEF Path
  <2>3. att \in [Attempts -> {"new", "running", "ok", "partial", "err"}]
    BY DEF Attempts
  <2> QED BY <1>1, <1>2, <2>1, <2>2, <2>3 DEF TypeOK, None
<1>4. Phase
  BY <1>1 DEF Phase, Path, Racing
<1>5. NothingLost /\ InTurn /\ Bounded /\ OutcomeRight
  BY DEF NothingLost, InTurn, Bounded, OutcomeRight, Attempts, None, AllFailed
<1> QED BY <1>3, <1>4, <1>5 DEF Inv

\* The shape of the call does not change while it runs.
LEMMA SameCall ==
    ASSUME combo' = combo, order' = order
    PROVE  /\ Attempts' = Attempts /\ (Racing' <=> Racing) /\ Take' = Take
           /\ Launched' = Launched
BY DEF Attempts, Racing, Take, Launched

\* An attempt begins.
LEMMA StartHolds ==
    ASSUME Inv, NEW i \in Attempts, Start(i)
    PROVE  Inv'
<1>1. /\ pc' = pc /\ combo' = combo /\ order' = order /\ stream' = stream
      /\ late' = late /\ sent' = sent /\ results' = results
      /\ closed' = closed /\ cancelled' = cancelled /\ gone' = gone /\ ret' = ret
      /\ att' = [att EXCEPT ![i] = "running"] /\ att[i] = "new"
  BY DEF Start
<1>2. /\ Attempts' = Attempts /\ (Racing' <=> Racing) /\ Take' = Take /\ Launched' = Launched
  BY <1>1, SameCall
<1>3. i \notin sent
  BY <1>1 DEF Inv, TypeOK
<1>4. TypeOK'
  <2>1. att' \in [Attempts -> {"new", "running", "ok", "partial", "err"}]
    BY <1>1 DEF Inv, TypeOK
  <2>2. \A j \in sent : att'[j] = att[j]
    BY <1>1, <1>3 DEF Inv, TypeOK
  <2> QED BY <1>1, <1>2, <2>1, <2>2 DEF Inv, TypeOK
<1>5. Phase' /\ NothingLost'
  <2>1. \A j \in sent : att'[j] = att[j]
    BY <1>1, <1>3 DEF Inv, TypeOK
  <2> QED BY <1>1, <1>2, <2>1 DEF Inv, Phase, NothingLost
<1>6. InTurn'
  <2> SUFFICES ASSUME ~Racing, NEW a \in Attempts, att'[a] # "new", NEW j \in 1..a - 1
               PROVE  att'[j] = "err"
    BY <1>1, <1>2 DEF InTurn
  <2>1. j \in Attempts /\ a \in Int /\ i \in Int
    BY DEF Inv, TypeOK, Attempts
  <2>2. CASE a = i
    <3>1. att[j] = "err"
      BY <2>2 DEF Start
    <3> QED BY <1>1, <2>1, <3>1 DEF Inv, TypeOK
  <2>3. CASE a # i
    <3>1. att[a] # "new"
      BY <1>1, <2>3 DEF Inv, TypeOK
    <3>2. att[j] = "err"
      BY <3>1 DEF Inv, InTurn
    <3> QED BY <1>1, <2>1, <3>2 DEF Inv, TypeOK
  <2> QED BY <2>2, <2>3
<1>8. Bounded'
  <2>1. Racing => i \in Launched
    BY DEF Start
  <2> QED BY <1>1, <1>2, <2>1 DEF Inv, TypeOK, Bounded
<1>7. OutcomeRight'
  <2>1. \A j \in Attempts : att[j] \in {"ok", "partial", "err"} => att'[j] = att[j]
    BY <1>1 DEF Inv, TypeOK
  <2>2. Launched \subseteq Attempts /\ \A r \in Attempts : 1..r - 1 \subseteq Attempts
    BY DEF Inv, TypeOK, Attempts
  <2>3. ret > 0 => ret \in Attempts
    BY DEF Inv, TypeOK
  <2> QED BY <1>1, <1>2, <2>1, <2>2, <2>3 DEF Inv, OutcomeRight, Won, AllFailed
<1> QED BY <1>4, <1>5, <1>6, <1>7, <1>8 DEF Inv

\* An attempt returns.
LEMMA FinishHolds ==
    ASSUME Inv, NEW i \in Attempts, NEW outcome \in {"ok", "partial", "err"}, Finish(i, outcome)
    PROVE  Inv'
<1>1. /\ pc' = pc /\ combo' = combo /\ order' = order /\ stream' = stream
      /\ late' = late /\ sent' = sent /\ results' = results
      /\ closed' = closed /\ cancelled' = cancelled /\ gone' = gone /\ ret' = ret
      /\ att' = [att EXCEPT ![i] = outcome] /\ att[i] = "running"
  BY DEF Finish
<1>2. /\ Attempts' = Attempts /\ (Racing' <=> Racing) /\ Take' = Take /\ Launched' = Launched
  BY <1>1, SameCall
<1>3. i \notin sent
  BY <1>1 DEF Inv, TypeOK
<1>4. \A j \in Attempts : j # i => att'[j] = att[j]
  BY <1>1 DEF Inv, TypeOK
<1>5. Launched \subseteq Attempts /\ sent \subseteq Attempts /\ \A r \in Attempts : 1..r - 1 \subseteq Attempts
  BY DEF Inv, TypeOK, Attempts
<1>6. TypeOK'
  <2>1. att' \in [Attempts -> {"new", "running", "ok", "partial", "err"}]
    BY <1>1 DEF Inv, TypeOK
  <2>2. \A j \in sent : att'[j] = att[j]
    BY <1>3, <1>4, <1>5
  <2> QED BY <1>1, <1>2, <2>1, <2>2 DEF Inv, TypeOK
<1>7. Phase' /\ NothingLost'
  <2>1. \A j \in sent : att'[j] = att[j]
    BY <1>3, <1>4, <1>5
  <2> QED BY <1>1, <1>2, <2>1 DEF Inv, Phase, NothingLost
<1>8. InTurn'
  <2> SUFFICES ASSUME ~Racing, NEW a \in Attempts, att'[a] # "new", NEW j \in 1..a - 1
               PROVE  att'[j] = "err"
    BY <1>1, <1>2 DEF InTurn
  <2>1. att[a] # "new"
    BY <1>1, <1>4
  <2>2. att[j] = "err"
    BY <2>1 DEF Inv, InTurn
  <2> QED BY <1>1, <1>4, <1>5, <2>2
<1>10. Bounded'
  BY <1>1, <1>2, <1>4 DEF Inv, Bounded
<1>9. OutcomeRight'
  <2>1. \A j \in Attempts : att[j] \in {"ok", "partial", "err"} => att'[j] = att[j]
    BY <1>1, <1>4
  <2>2. ret > 0 => ret \in Attempts
    BY DEF Inv, TypeOK
  <2> QED BY <1>1, <1>2, <1>5, <2>1, <2>2 DEF Inv, OutcomeRight, Won, AllFailed
<1> QED BY <1>6, <1>7, <1>8, <1>9, <1>10 DEF Inv

\* An outcome is sent.
LEMMA SendHolds ==
    ASSUME Inv, NEW i \in Attempts, Send(i)
    PROVE  Inv'
<1>1. /\ pc' = pc /\ combo' = combo /\ order' = order /\ stream' = stream
      /\ late' = late /\ att' = att /\ sent' = sent \cup {i} /\ results' = Append(results, i)
      /\ closed' = closed /\ cancelled' = cancelled /\ gone' = gone /\ ret' = ret
      /\ i \in Launched \ sent /\ att[i] \notin {"new", "running"}
  BY DEF Send
<1>2. /\ Attempts' = Attempts /\ (Racing' <=> Racing) /\ Take' = Take /\ Launched' = Launched
  BY <1>1, SameCall
<1>3. results \in Seq(sent')
  <2>1. results \in Seq(sent) /\ sent \subseteq sent'
    BY <1>1 DEF Inv, TypeOK
  <2> QED BY <2>1
<1>4. /\ results' \in Seq(sent')
      /\ \A n \in DOMAIN results : n \in DOMAIN results' /\ results'[n] = results[n]
      /\ \E n \in DOMAIN results' : results'[n] = i
  <2>1. /\ Len(results) \in Nat /\ DOMAIN results = 1..Len(results)
        /\ DOMAIN results' = 1..(Len(results) + 1)
        /\ results'[Len(results) + 1] = i
        /\ \A n \in DOMAIN results : results'[n] = results[n]
        /\ results' \in Seq(sent')
    BY <1>1, <1>3
  <2> QED BY <2>1
<1>5. TypeOK'
  BY <1>1, <1>2, <1>4 DEF Inv, TypeOK
<1>6. Phase'
  BY <1>1, <1>2 DEF Inv, Phase
<1>7. NothingLost'
  BY <1>1, <1>4 DEF Inv, NothingLost
<1>8. InTurn' /\ Bounded' /\ OutcomeRight'
  BY <1>1, <1>2 DEF Inv, InTurn, Bounded, OutcomeRight
<1> QED BY <1>5, <1>6, <1>7, <1>8 DEF Inv

\* race reads an outcome from its channel.
LEMMA ReadHolds ==
    ASSUME Inv, Win \/ Lose
    PROVE  Inv'
<1> DEFINE h == Head(results)
<1>1. /\ pc = "race" /\ results # <<>> /\ results' = Tail(results)
      /\ combo' = combo /\ order' = order /\ stream' = stream
      /\ late' = late /\ att' = att /\ sent' = sent
      /\ closed' = closed /\ gone' = gone
  BY DEF Win, Lose, Return
<1>2. /\ Attempts' = Attempts /\ (Racing' <=> Racing) /\ Take' = Take /\ Launched' = Launched
  BY <1>1, SameCall
<1>3. Racing /\ ret = None
  BY <1>1 DEF Inv, Phase
<1>4. /\ results \in Seq(sent) /\ results' \in Seq(sent)
      /\ h \in sent
      /\ \A n \in DOMAIN results : results[n] = h \/ \E m \in DOMAIN results' : results'[m] = results[n]
  <2>1. results \in Seq(sent)
    BY DEF Inv, TypeOK
  <2>2. /\ Len(results) \in Nat \ {0} /\ DOMAIN results = 1..Len(results)
        /\ h = results[1] /\ h \in sent
        /\ results' \in Seq(sent) /\ DOMAIN results' = 1..(Len(results) - 1)
        /\ \A n \in 1..(Len(results) - 1) : results'[n] = results[n + 1]
    BY <1>1, <2>1
  <2>3. ASSUME NEW n \in DOMAIN results, n # 1
        PROVE  \E m \in DOMAIN results' : results'[m] = results[n]
    <3>1. n - 1 \in DOMAIN results' /\ (n - 1) + 1 = n
      BY <2>2, <2>3
    <3> QED BY <2>2, <3>1
  <2> QED BY <2>1, <2>2, <2>3
<1>5. h \in Launched /\ h \in Attempts /\ h > 0
  BY <1>4 DEF Inv, TypeOK, Attempts
<1> HIDE DEF h
<1>6. CASE Win
  <2>1. pc' = "done" /\ ret' = h /\ cancelled' = Racing /\ att[h] \in Won
    BY <1>6 DEF Win, Return, h
  <2>2. TypeOK'
    BY <1>1, <1>2, <1>4, <1>5, <2>1 DEF Inv, TypeOK, Racing
  <2>3. Phase'
    BY <1>1, <1>2, <1>3, <1>5, <2>1 DEF Inv, Phase, None
  <2>4. NothingLost' /\ InTurn' /\ Bounded'
    BY <1>1, <1>2, <1>3, <2>1 DEF Inv, NothingLost, InTurn, Bounded
  <2>5. OutcomeRight'
    BY <1>1, <1>2, <1>3, <1>5, <2>1 DEF OutcomeRight, AllFailed
  <2> QED BY <2>2, <2>3, <2>4, <2>5 DEF Inv
<1>7. CASE Lose
  <2>1. pc' = pc /\ ret' = ret /\ cancelled' = cancelled /\ att[h] = "err"
    BY <1>7 DEF Lose, h
  <2>2. TypeOK'
    BY <1>1, <1>2, <1>4, <2>1 DEF Inv, TypeOK
  <2>3. Phase'
    BY <1>1, <1>2, <2>1 DEF Inv, Phase
  <2>4. NothingLost'
    BY <1>1, <1>2, <1>4, <2>1 DEF Inv, NothingLost
  <2>5. InTurn' /\ Bounded' /\ OutcomeRight'
    BY <1>1, <1>2, <2>1 DEF Inv, InTurn, Bounded, OutcomeRight
  <2> QED BY <2>2, <2>3, <2>4, <2>5 DEF Inv
<1> QED BY <1>6, <1>7

\* Execute returns without reading the channel.
LEMMA ReturnHolds ==
    ASSUME Inv, RunOut \/ Abandon \/ FailoverFails \/ \E i \in Attempts : FailoverWins(i)
    PROVE  Inv'
<1>1. /\ pc' = "done" /\ results' = results /\ cancelled' = Racing
      /\ combo' = combo /\ order' = order /\ stream' = stream
      /\ late' = late /\ att' = att /\ sent' = sent
      /\ closed' = closed /\ gone' = gone
  BY DEF RunOut, Abandon, FailoverFails, FailoverWins, Return
<1>2. /\ Attempts' = Attempts /\ (Racing' <=> Racing) /\ Take' = Take /\ Launched' = Launched
  BY <1>1, SameCall
<1>3. /\ ret' \in Attempts \cup {-2, -1}
      /\ ~Racing => ret' # CallerGone
      /\ OutcomeRight'
  <2>1. CASE RunOut
    <3>1. ret' = AllFailed /\ pc = "race" /\ results = <<>> /\ closed
      BY <2>1 DEF RunOut, Return
    <3>2. Racing /\ sent = Launched /\ \A i \in sent : att[i] = "err"
      BY <3>1 DEF Inv, Phase, NothingLost
    <3> QED BY <1>1, <1>2, <3>1, <3>2 DEF OutcomeRight, AllFailed
  <2>2. CASE Abandon
    <3>1. ret' = CallerGone /\ Racing
      BY <2>2 DEF Abandon, Return, Inv, Phase
    <3> QED BY <3>1 DEF OutcomeRight, AllFailed, CallerGone
  <2>3. CASE FailoverFails
    <3>1. ret' = AllFailed /\ ~Racing /\ \A i \in Attempts : att[i] = "err"
      BY <2>3 DEF FailoverFails, Return, Inv, Phase
    <3> QED BY <1>1, <1>2, <3>1 DEF OutcomeRight, AllFailed, CallerGone
  <2>4. ASSUME NEW i \in Attempts, FailoverWins(i)
        PROVE  /\ ret' \in Attempts \cup {-2, -1}
               /\ ~Racing => ret' # CallerGone
               /\ OutcomeRight'
    <3>1. ret' = i /\ ~Racing /\ att[i] \in Won
      BY <2>4 DEF FailoverWins, Return, Inv, Phase
    <3>2. i > 0
      BY DEF Inv, TypeOK, Attempts
    <3>3. \A j \in 1..i - 1 : att[j] = "err"
      BY <3>1 DEF Inv, InTurn, Won
    <3> QED BY <1>1, <1>2, <3>1, <3>2, <3>3 DEF OutcomeRight, AllFailed, CallerGone
  <2> QED BY <2>1, <2>2, <2>3, <2>4
<1>4. ret' # None
  BY <1>3 DEF None, Inv, TypeOK, Attempts
<1>5. TypeOK'
  BY <1>1, <1>2, <1>3 DEF Inv, TypeOK, Racing
<1>6. Phase'
  BY <1>1, <1>2, <1>3, <1>4 DEF Inv, Phase
<1>7. NothingLost' /\ InTurn' /\ Bounded'
  BY <1>1, <1>2 DEF Inv, NothingLost, InTurn, Bounded
<1> QED BY <1>3, <1>5, <1>6, <1>7 DEF Inv

\* Every step keeps the invariant.
LEMMA Step ==
    ASSUME Inv, [Next]_vars
    PROVE  Inv'
<1>1. ASSUME NEW co \in Combos, NEW usage \in Usages, NEW s \in BOOLEAN, Execute(co, usage, s)
      PROVE  Inv'
  <2>1. Begun'
    BY <1>1 DEF Execute, Begun, Path, Orders, Sorted, None
  <2>2. (Begun => Inv)'
    BY BeginHolds, PTL
  <2> QED BY <2>1, <2>2
<1>2. ASSUME Close PROVE Inv'
  <2>1. Attempts' = Attempts /\ (Racing' <=> Racing) /\ Take' = Take /\ Launched' = Launched
    BY <1>2, SameCall DEF Close
  <2> QED BY <1>2, <2>1 DEF Close, Inv, TypeOK, Phase, NothingLost, InTurn, Bounded, OutcomeRight
<1>3. ASSUME Leave PROVE Inv'
  <2>1. Attempts' = Attempts /\ (Racing' <=> Racing) /\ Take' = Take /\ Launched' = Launched
    BY <1>3, SameCall DEF Leave
  <2> QED BY <1>3, <2>1 DEF Leave, Inv, TypeOK, Phase, NothingLost, InTurn, Bounded, OutcomeRight
<1>4. ASSUME NEW i \in Attempts, Timeout(i) PROVE Inv'
  <2>1. Attempts' = Attempts /\ (Racing' <=> Racing) /\ Take' = Take /\ Launched' = Launched
    BY <1>4, SameCall DEF Timeout
  <2> QED BY <1>4, <2>1 DEF Timeout, Inv, TypeOK, Phase, NothingLost, InTurn, Bounded, OutcomeRight
<1>5. ASSUME UNCHANGED vars PROVE Inv'
  <2>1. Attempts' = Attempts /\ (Racing' <=> Racing) /\ Take' = Take /\ Launched' = Launched
    BY <1>5, SameCall DEF vars
  <2> QED BY <1>5, <2>1 DEF vars, Inv, TypeOK, Phase, NothingLost, InTurn, Bounded, OutcomeRight
<1> QED
  BY <1>1, <1>2, <1>3, <1>4, <1>5, StartHolds, FinishHolds, SendHolds, ReadHolds, ReturnHolds DEF Next

THEOREM Invariant == Spec => []Inv
<1>1. Init => Inv
  BY BeginHolds DEF Init, Begun
<1>2. Inv /\ [Next]_vars => Inv'
  BY Step
<1> QED BY <1>1, <1>2, PTL DEF Spec

\* Types, and that a race launches no more goroutines than it has targets, for
\* any combos and usages.
THEOREM TypeCorrect == Spec => []TypeOK
<1>1. Inv => TypeOK
  BY DEF Inv
<1> QED BY <1>1, Invariant, PTL

\* Execute's result is what its attempts came to.
THEOREM OutcomeCorrect == Spec => []OutcomeRight
<1>1. Inv => OutcomeRight
  BY DEF Inv
<1> QED BY <1>1, Invariant, PTL

\* Whatever is still out when Execute returns has been cancelled.
THEOREM LosersAreCancelled == Spec => []LosersCancelled
<1>1. Inv => LosersCancelled
  <2> SUFFICES ASSUME Inv, pc = "done", NEW i \in Attempts, att[i] = "running"
               PROVE  cancelled
    BY DEF LosersCancelled, Over
  <2>1. CASE Racing
    BY <2>1 DEF Inv, Phase
  <2>2. CASE ~Racing
    <3>1. ret \in Attempts \/ ret = AllFailed
      BY <2>2 DEF Inv, TypeOK, Phase, None, AllFailed, CallerGone
    <3>2. CASE ret = AllFailed
      BY <2>2, <3>2 DEF Inv, OutcomeRight
    <3>3. CASE ret \in Attempts
      <4>1. ret \in Nat /\ i \in Nat /\ ret > 0 /\ i > 0
        BY <3>3 DEF Inv, TypeOK, Attempts
      <4>2. att[ret] \in Won /\ \A j \in 1..ret - 1 : att[j] = "err"
        BY <2>2, <4>1 DEF Inv, OutcomeRight
      <4>3. ~(i \in 1..ret - 1) /\ i # ret
        BY <4>2 DEF Won
      <4>4. ret \in 1..i - 1
        BY <4>1, <4>3
      <4>5. att[ret] = "err"
        BY <2>2, <4>4 DEF Inv, InTurn
      <4> QED BY <4>2, <4>5 DEF Won
    <3> QED BY <3>1, <3>2, <3>3
  <2> QED BY <2>1, <2>2
<1> QED BY <1>1, Invariant, PTL

\* No more targets are out at once than the combo's race_size, or one.
THEOREM FanOutBounded == Spec => []FanOut
<1>1. Inv => FanOut
  <2> SUFFICES ASSUME Inv PROVE FanOut
    OBVIOUS
  <2> DEFINE out == {i \in Attempts : att[i] = "running"}
  <2>1. CASE ~Racing
    <3>1. \A i, j \in out : i = j
      <4> SUFFICES ASSUME NEW i \in out, NEW j \in out, i < j PROVE FALSE
        BY DEF Inv, TypeOK, Attempts
      <4>1. i \in 1..j - 1
        BY DEF Inv, TypeOK, Attempts
      <4> QED BY <2>1, <4>1 DEF Inv, InTurn
    <3>2. CASE out = {}
      <4>1. Cardinality(out) = 0
        BY <3>2, FS_EmptySet
      <4> QED BY <2>1, <4>1 DEF FanOut
    <3>3. ASSUME NEW i \in out PROVE FanOut
      <4>1. out = {i}
        BY <3>1
      <4>2. Cardinality(out) = 1
        BY <4>1, FS_Singleton
      <4> QED BY <2>1, <4>2 DEF FanOut
    <3> QED BY <3>2, <3>3
  <2>2. CASE Racing
    <3>1. Take \in Nat /\ combo.size \in Nat /\ Take <= combo.size
      BY RacingAssumption DEF Take, Inv, TypeOK
    <3>2. out \subseteq 1..Take
      BY <2>2 DEF Inv, TypeOK, Launched, Bounded
    <3>3. IsFiniteSet(1..Take) /\ Cardinality(1..Take) = Take
      BY <3>1, FS_Interval
    <3>4. Cardinality(out) <= Take /\ Cardinality(out) \in Nat
      BY <3>2, <3>3, FS_Subset, FS_CardinalityType
    <3> QED BY <2>2, <3>1, <3>4 DEF FanOut
  <2> QED BY <2>1, <2>2
<1> QED BY <1>1, Invariant, PTL
=============================================================================
