-------------------------- MODULE ObserveExportProofs --------------------------
(***************************************************************************)
(* Proofs about `observe` for every trajectory, every batch size and every *)
(* timing of the worker: its success can be trusted as long as the queue   *)
(* holds the spans of the trace and the delegate answers, a rejected trace *)
(* sends nothing, and the spans nest.                                      *)
(***************************************************************************)
EXTENDS ObserveExportProperties, WellFoundedInduction, TLAPS

ToolNames(i, calls) == {<<"TOOL", i, c>> : c \in calls}

\* The names of the spans of the first n steps.
StepNames(n) ==
    {<<"AGENT", i, 0>> : i \in 1 .. n}
    \cup UNION {ToolNames(i, DOMAIN trajectory[i].tool_calls) : i \in 1 .. n}

\* What the command has ended when it stands there.
EndedNames == StepNames(step_at - 1) \cup ToolNames(step_at, 1 .. call_at - 1)

NamesEnded == {Name(ended[i]) : i \in DOMAIN ended}

\* Where the command stands, and what it has ended there.
Progress ==
    /\ call_at # 0 => step_at \in Steps /\ call_at <= Len(trajectory[step_at].tool_calls) + 1
    /\ command \in {"loaded", "configured"} => ended = <<>> /\ step_at = 1 /\ call_at = 0
    /\ command # "loaded" /\ ended # <<>> => trajectory # <<>>
    /\ command \in {"configured", "projecting", "flushing"} => trajectory # <<>>
    /\ command \in {"projecting", "flushing"} => TimesUsable
    /\ ended # <<>> => TimesUsable
    /\ command = "projecting" => NamesEnded = EndedNames
    /\ command = "flushing" => NamesEnded = Expected
    /\ verdict # "none" <=> command = "exited"
    /\ verdict = "success" =>
          TimesUsable /\ NamesEnded = Expected /\ queue = <<>> /\ batch = <<>> /\ ~failed

\* Nothing is with the worker or the collector that did not end.
Handed ==
    /\ ToSet(queue) \cup ToSet(batch) \cup delivered \subseteq ToSet(ended)
    /\ Len(queue) <= Len(ended)

\* Nothing that ended is missing, unless a batch failed.
Conserved ==
    endpoint /\ ~failed => ToSet(ended) \subseteq ToSet(queue) \cup ToSet(batch) \cup delivered

\* A span of a step, ended before the command came to call c of step n.
InStep(span, n, c) ==
    /\ span.step \in Steps /\ span.step <= n
    /\ span.start = trajectory[span.step].time /\ span.end = trajectory[span.step].time
    /\ span.kind = "AGENT" => span.step < n
    /\ span.kind = "TOOL" => span.call > 0 /\ (span.step = n => span.call < c)

\* A span from the first to the last time.
AtBoundaries(span) == span.start = TraceStart /\ span.end = TraceEnd

\* A span may end before another.
Before(first, second) ==
    /\ first.step <= second.step \/ second.kind = "CHAIN"
    /\ first.step = second.step => first.kind = "TOOL" /\ first.call # second.call

\* The order of the spans.
Ordered ==
    /\ \A i \in DOMAIN ended :
          IF ended[i].kind = "CHAIN"
            THEN /\ i = Len(ended) /\ command \notin {"loaded", "configured", "projecting"}
                 /\ AtBoundaries(ended[i])
            ELSE InStep(ended[i], step_at, call_at)
    /\ \A i, j \in DOMAIN ended : i < j => Before(ended[i], ended[j])

ObserveInv == TypeOK /\ Progress /\ Handed /\ Ordered

\* The spans of the trace fit in the queue.
Fits == Len(ended) <= QueueSize

-----------------------------------------------------------------------------
\* The smaller of two numbers.
LEMMA MinOfTwo ==
    ASSUME NEW a \in Int, NEW b \in Int
    PROVE  Min({a, b}) \in {a, b} /\ Min({a, b}) <= a /\ Min({a, b}) <= b
<1>1. \E x \in {a, b} : \A y \in {a, b} : x <= y
  OBVIOUS
<1> QED
  BY <1>1 DEF Min

\* Every non-empty set of naturals has a least element.
LEMMA SmallestOf ==
    ASSUME NEW T \in SUBSET Nat, T # {}
    PROVE  \E m \in T : \A k \in T : m <= k
<1>1. PICK m \in T : \A k \in T : ~(<<k, m>> \in OpToRel(<, Nat))
  BY NatLessThanWellFounded, WFMin
<1>2. \A k \in T : <<k, m>> \in Nat \X Nat
  OBVIOUS
<1>3. \A k \in T : k < m => <<k, m>> \in OpToRel(<, Nat)
  BY <1>2 DEF OpToRel
<1>4. \A k \in T : ~(k < m)
  BY <1>1, <1>3
<1> QED
  BY <1>4

\* Finitely many times have an earliest one: were there a first n of which this is
\* wrong, the earliest of those before and the n-th would make it right.
LEMMA EarliestExists ==
    ASSUME NEW n \in Nat \ {0}, NEW f \in [1 .. n -> Int]
    PROVE  \E i \in 1 .. n : \A j \in 1 .. n : f[i] <= f[j]
<1> DEFINE Wrong == {m \in 1 .. n : \A i \in 1 .. m : \E j \in 1 .. m : ~(f[i] <= f[j])}
<1>0. \A m : m \in Wrong <=>
          m \in 1 .. n /\ \A i \in 1 .. m : \E j \in 1 .. m : ~(f[i] <= f[j])
  OBVIOUS
<1> HIDE DEF Wrong
<1>1. ASSUME n \in Wrong PROVE FALSE
  <2>1. Wrong \in SUBSET Nat /\ Wrong # {}
    <3>1. \A m \in Wrong : m \in Nat
      BY <1>0
    <3> QED
      BY <1>1, <3>1
  <2>2. PICK m \in Wrong : \A k \in Wrong : m <= k
    BY <2>1, SmallestOf
  <2>3. m \in 1 .. n /\ \A i \in 1 .. m : \E j \in 1 .. m : ~(f[i] <= f[j])
    BY <1>0, <2>2
  <2>4. \A k \in 1 .. n : f[k] \in Int
    OBVIOUS
  <2>5. m # 1
    BY <2>3, <2>4
  <2>6. m - 1 \in 1 .. n /\ m - 1 \notin Wrong
    BY <2>2, <2>3, <2>5
  <2>7. PICK i \in 1 .. m - 1 : \A j \in 1 .. m - 1 : f[i] <= f[j]
    BY <1>0, <2>6
  <2>8. PICK k \in {i, m} : f[k] <= f[i] /\ f[k] <= f[m]
    BY <2>3, <2>4, <2>7
  <2>9. \A j \in 1 .. m : j \in 1 .. m - 1 \/ j = m
    BY <2>3
  <2>10. k \in 1 .. m /\ \A j \in 1 .. m : f[k] <= f[j]
    BY <2>3, <2>4, <2>7, <2>8, <2>9
  <2> QED
    BY <2>3, <2>10
<1>2. n \notin Wrong
  BY <1>1
<1>3. n \in 1 .. n
  OBVIOUS
<1>4. PICK i \in 1 .. n : \A j \in 1 .. n : ~~(f[i] <= f[j])
  BY <1>0, <1>2, <1>3
<1> QED
  BY <1>4

\* So have they a latest one: it is the earliest of their negations.
LEMMA LatestExists ==
    ASSUME NEW n \in Nat \ {0}, NEW f \in [1 .. n -> Int]
    PROVE  \E i \in 1 .. n : \A j \in 1 .. n : f[j] <= f[i]
<1> DEFINE g == [i \in 1 .. n |-> -f[i]]
<1>1. g \in [1 .. n -> Int]
  OBVIOUS
<1>2. PICK i \in 1 .. n : \A j \in 1 .. n : g[i] <= g[j]
  BY <1>1, EarliestExists
<1>3. \A j \in 1 .. n : -f[i] <= -f[j] /\ f[j] \in Int /\ f[i] \in Int
  BY <1>2
<1>4. \A j \in 1 .. n : f[j] <= f[i]
  BY <1>3
<1> QED
  BY <1>4

\* The boundaries of the trace exist.
LEMMA TraceBoundaries ==
    ASSUME trajectory \in Seq(Step), trajectory # <<>>
    PROVE  /\ TraceStart \in Int /\ TraceEnd \in Int
           /\ \A i \in Steps : TraceStart <= trajectory[i].time /\ trajectory[i].time <= TraceEnd
<1> DEFINE n == Len(trajectory)
           f == [i \in 1 .. n |-> trajectory[i].time]
           times == {trajectory[i].time : i \in Steps}
<1>1. n \in Nat \ {0} /\ Steps = 1 .. n /\ \A i \in 1 .. n : trajectory[i].time \in Int
  <2>1. n \in Nat \ {0} /\ Steps = 1 .. n
    BY DEF Steps
  <2>2. \A i \in 1 .. n : trajectory[i] \in Step
    BY <2>1
  <2> QED
    BY <2>1, <2>2 DEF Step
<1>2. f \in [1 .. n -> Int] /\ \A i \in 1 .. n : f[i] = trajectory[i].time
  BY <1>1
<1> HIDE DEF n, f
<1>3. PICK e \in 1 .. n : \A j \in 1 .. n : f[e] <= f[j]
  BY <1>1, <1>2, EarliestExists
<1>4. PICK l \in 1 .. n : \A j \in 1 .. n : f[j] <= f[l]
  BY <1>1, <1>2, LatestExists
<1>5. \E x \in times : \A y \in times : x <= y
  <2>1. \A j \in Steps : trajectory[e].time <= trajectory[j].time
    BY <1>1, <1>2, <1>3
  <2> QED
    BY <1>1, <2>1
<1>6. \E x \in times : \A y \in times : x >= y
  <2>1. \A j \in Steps : trajectory[l].time >= trajectory[j].time
    BY <1>1, <1>2, <1>4
  <2> QED
    BY <1>1, <2>1
<1>7. TraceStart \in times /\ \A y \in times : TraceStart <= y
  BY <1>5 DEF TraceStart, Min
<1>8. TraceEnd \in times /\ \A y \in times : TraceEnd >= y
  BY <1>6 DEF TraceEnd, Max
<1>9. times \subseteq Int
  BY <1>1
<1> QED
  BY <1>7, <1>8, <1>9

\* A span that ends is the last that ended, and is queued; the queue holds its size.
LEMMA EndSpan ==
    ASSUME TypeOK, NEW span \in Span, End(span)
    PROVE  /\ ended' \in Seq(Span) /\ Len(ended') = Len(ended) + 1
           /\ ended'[Len(ended) + 1] = span /\ \A i \in DOMAIN ended : ended'[i] = ended[i]
           /\ DOMAIN ended' = DOMAIN ended \cup {Len(ended) + 1}
           /\ ToSet(ended') = ToSet(ended) \cup {span}
           /\ queue' \in Seq(Span) /\ Len(queue') <= QueueSize /\ Len(queue') <= Len(queue) + 1
           /\ ToSet(queue') \subseteq ToSet(queue) \cup {span}
           /\ endpoint /\ Len(queue) < QueueSize => ToSet(queue') = ToSet(queue) \cup {span}
<1>1. /\ ended' \in Seq(Span) /\ Len(ended') = Len(ended) + 1
      /\ ended'[Len(ended) + 1] = span /\ \A i \in DOMAIN ended : ended'[i] = ended[i]
      /\ DOMAIN ended' = DOMAIN ended \cup {Len(ended) + 1}
  BY DEF TypeOK, End
<1>2. ToSet(ended') = ToSet(ended) \cup {span}
  BY <1>1 DEF ToSet
<1>3. CASE ~endpoint
  BY <1>1, <1>2, <1>3 DEF TypeOK, End
<1>4. CASE endpoint /\ Len(queue) < QueueSize
  <2>1. queue' = Append(queue, span)
    BY <1>4 DEF End
  <2>2. /\ queue' \in Seq(Span) /\ Len(queue') = Len(queue) + 1
        /\ queue'[Len(queue) + 1] = span /\ \A i \in DOMAIN queue : queue'[i] = queue[i]
        /\ DOMAIN queue' = DOMAIN queue \cup {Len(queue) + 1}
    BY <2>1 DEF TypeOK
  <2>3. ToSet(queue') = ToSet(queue) \cup {span}
    BY <2>2 DEF ToSet
  <2>4. Len(queue') <= QueueSize
    BY <2>2, <1>4, ExporterAssumption DEF TypeOK
  <2> QED
    BY <1>1, <1>2, <2>2, <2>3, <2>4
<1>5. CASE endpoint /\ ~(Len(queue) < QueueSize)
  <2>1. queue' = Append(Tail(queue), span)
    BY <1>5 DEF End
  <2>2. Len(queue) \in Nat /\ Len(queue) = QueueSize /\ Len(queue) > 0 /\ queue # <<>>
    BY <1>5, ExporterAssumption DEF TypeOK
  <2>3. /\ Tail(queue) \in Seq(Span) /\ Len(Tail(queue)) = Len(queue) - 1
        /\ \A i \in 1 .. Len(queue) - 1 : Tail(queue)[i] = queue[i + 1]
    BY <2>2 DEF TypeOK
  <2>4. /\ queue' \in Seq(Span) /\ Len(queue') = Len(queue)
        /\ \A i \in DOMAIN queue' :
              queue'[i] = span \/ (i + 1 \in DOMAIN queue /\ queue'[i] = queue[i + 1])
    BY <2>1, <2>2, <2>3 DEF TypeOK
  <2>5. ToSet(queue') \subseteq ToSet(queue) \cup {span}
    BY <2>4 DEF ToSet
  <2> QED
    BY <1>1, <1>2, <1>5, <2>2, <2>4, <2>5
<1> QED
  BY <1>3, <1>4, <1>5

\* A batch is the front of the queue; nothing is lost or added when it is taken.
LEMMA BatchTaken ==
    ASSUME TypeOK, TakeBatch
    PROVE  /\ batch' \in Seq(Span) /\ Len(batch') <= BatchSize
           /\ queue' \in Seq(Span) /\ Len(queue') <= Len(queue)
           /\ ToSet(batch') \cup ToSet(queue') = ToSet(queue)
<1> DEFINE m == Min({BatchSize, Len(queue)})
<1>1. Len(queue) \in Nat \ {0} /\ BatchSize \in Nat \ {0}
  BY ExporterAssumption DEF TypeOK, TakeBatch
<1>2. m \in 1 .. Len(queue) /\ m <= BatchSize
  BY <1>1, MinOfTwo
<1>3. batch' = SubSeq(queue, 1, m) /\ queue' = SubSeq(queue, Len(batch') + 1, Len(queue))
  BY DEF TakeBatch
<1> HIDE DEF m
<1>4. /\ batch' \in Seq(Span) /\ Len(batch') = m
      /\ \A i \in 1 .. m : batch'[i] = queue[i]
  BY <1>1, <1>2, <1>3 DEF TypeOK
<1>5. /\ queue' \in Seq(Span) /\ Len(queue') = Len(queue) - m
      /\ \A i \in 1 .. Len(queue) - m : queue'[i] = queue[m + i]
  BY <1>1, <1>2, <1>3, <1>4 DEF TypeOK
<1>6. ToSet(batch') = {queue[i] : i \in 1 .. m}
  BY <1>4 DEF ToSet
<1>7. ToSet(queue') = {queue[i] : i \in m + 1 .. Len(queue)}
  <2>1. ToSet(queue') = {queue[m + i] : i \in 1 .. Len(queue) - m}
    BY <1>5 DEF ToSet
  <2>2. \A i \in m + 1 .. Len(queue) : i - m \in 1 .. Len(queue) - m /\ m + (i - m) = i
    BY <1>1, <1>2
  <2>3. \A i \in 1 .. Len(queue) - m : m + i \in m + 1 .. Len(queue)
    BY <1>1, <1>2
  <2> QED
    BY <2>1, <2>2, <2>3
<1>8. 1 .. Len(queue) = (1 .. m) \cup (m + 1 .. Len(queue))
  BY <1>1, <1>2
<1>9. ToSet(queue) = {queue[i] : i \in 1 .. Len(queue)}
  BY DEF ToSet, TypeOK
<1> QED
  BY <1>1, <1>2, <1>4, <1>5, <1>6, <1>7, <1>8, <1>9

-----------------------------------------------------------------------------
\* The trajectory that was loaded is a sequence of steps.
LEMMA Loaded ==
    ASSUME TypeOK
    PROVE  /\ trajectory \in Seq(Step)
           /\ Steps = 1 .. Len(trajectory) /\ Len(trajectory) \in Nat
           /\ \A i \in Steps : /\ trajectory[i].time \in Int
                               /\ trajectory[i].tool_calls \in Seq(CallIds)
<1>1. trajectory \in Seq(Step)
  BY ExporterAssumption DEF TypeOK
<1>2. Steps = 1 .. Len(trajectory) /\ Len(trajectory) \in Nat
  BY <1>1 DEF Steps
<1>3. \A i \in Steps : trajectory[i] \in Step
  BY <1>1, <1>2
<1> QED
  BY <1>1, <1>2, <1>3 DEF Step

\* What has ended are spans.
LEMMA EndedIsSpan ==
    ASSUME TypeOK, NEW i \in DOMAIN ended
    PROVE  /\ ended[i] \in Span /\ i \in 1 .. Len(ended) /\ Len(ended) \in Nat
           /\ ended[i].kind \in {"CHAIN", "AGENT", "TOOL"}
           /\ ended[i].step \in Nat /\ ended[i].call \in Nat
<1>1. ended[i] \in Span /\ i \in 1 .. Len(ended) /\ Len(ended) \in Nat
  BY DEF TypeOK
<1> QED
  BY <1>1 DEF Span

\* A span that ends adds its name, and nothing else, to what has ended.
LEMMA EndNames ==
    ASSUME TypeOK, NEW span \in Span, End(span)
    PROVE  NamesEnded' = NamesEnded \cup {Name(span)}
<1>1. /\ ended'[Len(ended) + 1] = span /\ \A i \in DOMAIN ended : ended'[i] = ended[i]
      /\ DOMAIN ended' = DOMAIN ended \cup {Len(ended) + 1}
  BY EndSpan
<1> QED
  BY <1>1 DEF NamesEnded, Name

\* A span that ends keeps the order, if it comes after those that have ended.
LEMMA EndOrdered ==
    ASSUME TypeOK, NEW span \in Span, End(span), UNCHANGED trajectory,
           \A i \in DOMAIN ended : /\ ended[i].kind # "CHAIN"
                                   /\ InStep(ended[i], step_at', call_at')
                                   /\ Before(ended[i], span),
           \A i, j \in DOMAIN ended : i < j => Before(ended[i], ended[j]),
           IF span.kind = "CHAIN"
             THEN command' \notin {"loaded", "configured", "projecting"} /\ AtBoundaries(span)
             ELSE InStep(span, step_at', call_at')
    PROVE  Ordered'
<1>1. /\ ended'[Len(ended) + 1] = span /\ \A i \in DOMAIN ended : ended'[i] = ended[i]
      /\ DOMAIN ended' = DOMAIN ended \cup {Len(ended) + 1}
      /\ Len(ended') = Len(ended) + 1
  BY EndSpan
<1>2. Len(ended) \in Nat /\ \A i \in DOMAIN ended : i \in Nat /\ i <= Len(ended)
  BY DEF TypeOK
<1>3. \A i \in DOMAIN ended' :
          /\ InStep(ended[i], step_at, call_at)'
               <=> InStep(ended'[i], step_at', call_at')
          /\ AtBoundaries(ended[i])' <=> AtBoundaries(ended'[i])
  BY DEF InStep, Steps, AtBoundaries, TraceStart, TraceEnd
<1>4. \A i \in DOMAIN ended' : i \in DOMAIN ended \/ i = Len(ended) + 1
  BY <1>1
<1>5. \A i \in DOMAIN ended' :
          IF ended'[i].kind = "CHAIN"
            THEN /\ i = Len(ended') /\ command' \notin {"loaded", "configured", "projecting"}
                 /\ AtBoundaries(ended'[i])
            ELSE InStep(ended'[i], step_at', call_at')
  BY <1>1, <1>4
<1>6. \A i, j \in DOMAIN ended' : i < j => Before(ended'[i], ended'[j])
  BY <1>1, <1>2, <1>4
<1> QED
  BY <1>3, <1>5, <1>6 DEF Ordered, Before

\* What is handed over when a span ends.
LEMMA EndHanded ==
    ASSUME TypeOK, Handed, NEW span \in Span, End(span), UNCHANGED <<endpoint, exporting>>
    PROVE  Handed' /\ (Fits' /\ Conserved => Conserved')
<1>1. /\ Len(ended') = Len(ended) + 1 /\ ToSet(ended') = ToSet(ended) \cup {span}
      /\ Len(queue') <= Len(queue) + 1 /\ queue' \in Seq(Span)
      /\ ToSet(queue') \subseteq ToSet(queue) \cup {span}
      /\ endpoint /\ Len(queue) < QueueSize => ToSet(queue') = ToSet(queue) \cup {span}
  BY EndSpan
<1>2. Len(ended) \in Nat /\ Len(queue) \in Nat /\ Len(queue') \in Nat
  BY <1>1 DEF TypeOK
<1>3. ToSet(queue') \cup ToSet(batch') \cup delivered' \subseteq ToSet(ended')
  BY <1>1 DEF Handed, exporting
<1>4. Len(queue') <= Len(ended')
  BY <1>1, <1>2 DEF Handed
<1>5. ASSUME Fits', Conserved PROVE Conserved'
  <2>1. Len(queue) < QueueSize
    BY <1>1, <1>2, <1>5, ExporterAssumption DEF Fits, Handed
  <2> QED
    BY <1>1, <1>5, <2>1 DEF Conserved, exporting
<1> QED
  BY <1>3, <1>4, <1>5 DEF Handed

\* The spans of one more step.
LEMMA StepNamesNext ==
    ASSUME NEW n \in Nat \ {0}
    PROVE  StepNames(n) = StepNames(n - 1) \cup {<<"AGENT", n, 0>>}
                                           \cup ToolNames(n, DOMAIN trajectory[n].tool_calls)
<1>1. 1 .. n = (1 .. n - 1) \cup {n}
  OBVIOUS
<1> QED
  BY <1>1, Zenon DEF StepNames

\* A whole trace consists of the spans of all steps and the root.
LEMMA ExpectedNames ==
    ASSUME TypeOK
    PROVE  Expected = StepNames(Len(trajectory)) \cup {<<"CHAIN", 0, 0>>}
<1>1. Steps = 1 .. Len(trajectory)
  BY Loaded
<1> QED
  BY <1>1 DEF Expected, StepNames, ToolNames

-----------------------------------------------------------------------------
\* The command ends the span of a call.
LEMMA ToolSpanStep ==
    ASSUME ObserveInv, ToolSpan
    PROVE  ObserveInv' /\ (Fits' /\ Conserved => Conserved')
<1> DEFINE span == [kind |-> "TOOL", step |-> step_at, call |-> call_at,
                    start |-> trajectory[step_at].time, end |-> trajectory[step_at].time,
                    status |-> ToolStatus(trajectory[step_at], call_at)]
<1>1. /\ step_at \in Steps /\ call_at \in 1 .. Len(trajectory[step_at].tool_calls)
      /\ call_at \in DOMAIN trajectory[step_at].tool_calls
      /\ step_at \in Nat /\ call_at \in Nat
  BY Loaded DEF ObserveInv, TypeOK, ToolSpan, AtStep
<1>2. span \in Span
  BY <1>1, Loaded DEF ObserveInv, Span, ToolStatus
<1>3. End(span) /\ call_at' = call_at + 1 /\ step_at' = step_at /\ command = "projecting"
      /\ UNCHANGED <<trajectory, endpoint, command, exporting, verdict>>
  BY DEF ToolSpan, AtStep
<1>4. /\ span.kind = "TOOL" /\ span.step = step_at /\ span.call = call_at
      /\ span.start = trajectory[step_at].time /\ span.end = trajectory[step_at].time
      /\ Name(span) = <<"TOOL", step_at, call_at>>
  BY DEF Name
<1> HIDE DEF span
<1>5. TypeOK'
  <2>1. ended' \in Seq(Span) /\ queue' \in Seq(Span) /\ Len(queue') <= QueueSize
    BY <1>2, <1>3, EndSpan DEF ObserveInv
  <2> QED
    BY <1>1, <1>3, <2>1 DEF ObserveInv, TypeOK, exporting
<1>6. Progress'
  <2>1. NamesEnded' = EndedNames \cup {<<"TOOL", step_at, call_at>>}
    BY <1>2, <1>3, <1>4, EndNames DEF ObserveInv, Progress
  <2>2. EndedNames' = EndedNames \cup {<<"TOOL", step_at, call_at>>}
    <3>1. 1 .. call_at' - 1 = (1 .. call_at - 1) \cup {call_at}
      BY <1>1, <1>3
    <3>2. ToolNames(step_at, 1 .. call_at' - 1)
            = ToolNames(step_at, 1 .. call_at - 1) \cup {<<"TOOL", step_at, call_at>>}
      BY <3>1 DEF ToolNames
    <3>3. EndedNames' = StepNames(step_at - 1) \cup ToolNames(step_at, 1 .. call_at' - 1)
      BY <1>3 DEF EndedNames, StepNames
    <3> QED
      BY <3>2, <3>3 DEF EndedNames
  <2>3. Steps' = Steps /\ (TimesUsable' <=> TimesUsable) /\ Expected' = Expected
    BY <1>3 DEF Steps, TimesUsable, Expected
  <2> QED
    BY <1>1, <1>3, <2>1, <2>2, <2>3 DEF ObserveInv, Progress
<1>7. Handed' /\ (Fits' /\ Conserved => Conserved')
  BY <1>2, <1>3, EndHanded DEF ObserveInv
<1>8. Ordered'
  <2>1. ASSUME NEW i \in DOMAIN ended
        PROVE  /\ ended[i].kind # "CHAIN" /\ InStep(ended[i], step_at', call_at')
               /\ Before(ended[i], span)
    <3>1. /\ ended[i].kind \in {"CHAIN", "AGENT", "TOOL"}
          /\ ended[i].step \in Nat /\ ended[i].call \in Nat
      BY EndedIsSpan DEF ObserveInv
    <3>2. ended[i].kind # "CHAIN" /\ InStep(ended[i], step_at, call_at)
      BY <1>3 DEF ObserveInv, Ordered
    <3> QED
      BY <1>1, <1>3, <1>4, <3>1, <3>2 DEF InStep, Before
  <2>2. \A i, j \in DOMAIN ended : i < j => Before(ended[i], ended[j])
    BY DEF ObserveInv, Ordered
  <2>3. span.kind # "CHAIN" /\ InStep(span, step_at', call_at')
    BY <1>1, <1>3, <1>4 DEF InStep
  <2>4. TypeOK /\ UNCHANGED trajectory
    BY <1>3 DEF ObserveInv
  <2> QED
    BY <1>2, <1>3, <2>1, <2>2, <2>3, <2>4, EndOrdered
<1> QED
  BY <1>5, <1>6, <1>7, <1>8 DEF ObserveInv

\* The command ends the span of a step.
LEMMA EndStepStep ==
    ASSUME ObserveInv, EndStep
    PROVE  ObserveInv' /\ (Fits' /\ Conserved => Conserved')
<1> DEFINE span == [kind |-> "AGENT", step |-> step_at, call |-> 0,
                    start |-> trajectory[step_at].time, end |-> trajectory[step_at].time,
                    status |-> "UNSET"]
<1>1. /\ step_at \in Steps /\ step_at \in Nat /\ step_at # 0
      /\ call_at = Len(trajectory[step_at].tool_calls) + 1
      /\ DOMAIN trajectory[step_at].tool_calls = 1 .. call_at - 1
  <2>1. step_at \in Steps /\ step_at \in Nat /\ step_at # 0
    BY Loaded DEF ObserveInv, TypeOK, EndStep, AtStep
  <2>2. trajectory[step_at].tool_calls \in Seq(CallIds)
    BY <2>1, Loaded DEF ObserveInv
  <2>3. /\ Len(trajectory[step_at].tool_calls) \in Nat
        /\ DOMAIN trajectory[step_at].tool_calls = 1 .. Len(trajectory[step_at].tool_calls)
    BY <2>2
  <2>4. call_at \in Nat /\ call_at # 0 /\ call_at > Len(trajectory[step_at].tool_calls)
    BY DEF ObserveInv, TypeOK, EndStep
  <2>5. call_at <= Len(trajectory[step_at].tool_calls) + 1
    BY <2>4 DEF ObserveInv, Progress
  <2>6. call_at = Len(trajectory[step_at].tool_calls) + 1
    BY <2>3, <2>4, <2>5
  <2>7. DOMAIN trajectory[step_at].tool_calls = 1 .. call_at - 1
    BY <2>3, <2>6
  <2> QED
    BY <2>1, <2>6, <2>7
<1>2. span \in Span
  BY <1>1, Loaded DEF ObserveInv, Span
<1>3. End(span) /\ call_at' = 0 /\ step_at' = step_at + 1 /\ command = "projecting"
      /\ UNCHANGED <<trajectory, endpoint, command, exporting, verdict>>
  BY DEF EndStep, AtStep
<1>4. /\ span.kind = "AGENT" /\ span.step = step_at /\ span.call = 0
      /\ span.start = trajectory[step_at].time /\ span.end = trajectory[step_at].time
      /\ Name(span) = <<"AGENT", step_at, 0>>
  BY DEF Name
<1> HIDE DEF span
<1>5. TypeOK'
  <2>1. ended' \in Seq(Span) /\ queue' \in Seq(Span) /\ Len(queue') <= QueueSize
    BY <1>2, <1>3, EndSpan DEF ObserveInv
  <2>2. step_at' \in 1 .. Len(trajectory) + 1
    BY <1>1, <1>3, Loaded DEF ObserveInv
  <2> QED
    BY <1>3, <2>1, <2>2 DEF ObserveInv, TypeOK, exporting
<1>6. Progress'
  <2>1. NamesEnded' = EndedNames \cup {<<"AGENT", step_at, 0>>}
    BY <1>2, <1>3, <1>4, EndNames DEF ObserveInv, Progress
  <2>2. EndedNames' = EndedNames \cup {<<"AGENT", step_at, 0>>}
    <3>1. step_at' - 1 = step_at /\ 1 .. call_at' - 1 = {}
      BY <1>1, <1>3
    <3>2. EndedNames' = StepNames(step_at) \cup ToolNames(step_at', {})
      BY <1>3, <3>1 DEF EndedNames, StepNames
    <3>3. ToolNames(step_at', {}) = {}
      BY DEF ToolNames
    <3>4. StepNames(step_at) = StepNames(step_at - 1) \cup {<<"AGENT", step_at, 0>>}
                                   \cup ToolNames(step_at, 1 .. call_at - 1)
      BY <1>1, StepNamesNext
    <3> QED
      BY <3>2, <3>3, <3>4 DEF EndedNames
  <2>3. Steps' = Steps /\ (TimesUsable' <=> TimesUsable) /\ Expected' = Expected
    BY <1>3 DEF Steps, TimesUsable, Expected
  <2> QED
    BY <1>1, <1>3, <2>1, <2>2, <2>3 DEF ObserveInv, Progress
<1>7. Handed' /\ (Fits' /\ Conserved => Conserved')
  BY <1>2, <1>3, EndHanded DEF ObserveInv
<1>8. Ordered'
  <2>1. ASSUME NEW i \in DOMAIN ended
        PROVE  /\ ended[i].kind # "CHAIN" /\ InStep(ended[i], step_at', call_at')
               /\ Before(ended[i], span)
    <3>1. /\ ended[i].kind \in {"CHAIN", "AGENT", "TOOL"}
          /\ ended[i].step \in Nat /\ ended[i].call \in Nat
      BY EndedIsSpan DEF ObserveInv
    <3>2. ended[i].kind # "CHAIN" /\ InStep(ended[i], step_at, call_at)
      BY <1>3 DEF ObserveInv, Ordered
    <3> QED
      BY <1>1, <1>3, <1>4, <3>1, <3>2 DEF InStep, Before
  <2>2. \A i, j \in DOMAIN ended : i < j => Before(ended[i], ended[j])
    BY DEF ObserveInv, Ordered
  <2>3. span.kind # "CHAIN" /\ InStep(span, step_at', call_at')
    BY <1>1, <1>3, <1>4 DEF InStep
  <2>4. TypeOK /\ UNCHANGED trajectory
    BY <1>3 DEF ObserveInv
  <2> QED
    BY <1>2, <1>3, <2>1, <2>2, <2>3, <2>4, EndOrdered
<1> QED
  BY <1>5, <1>6, <1>7, <1>8 DEF ObserveInv

\* The command ends the root.
LEMMA EndRootStep ==
    ASSUME ObserveInv, EndRoot
    PROVE  ObserveInv' /\ (Fits' /\ Conserved => Conserved')
<1> DEFINE span == [kind |-> "CHAIN", step |-> 0, call |-> 0,
                    start |-> TraceStart, end |-> TraceEnd, status |-> "UNSET"]
<1>1. command = "projecting" /\ TimesUsable /\ trajectory # <<>>
  BY DEF ObserveInv, Progress, EndRoot
<1>2. step_at = Len(trajectory) + 1 /\ call_at = 0 /\ step_at \in Nat
  <2>1. ~(step_at <= Len(trajectory))
    BY <1>1, Loaded DEF EndRoot, TimesUsable, ObserveInv, TypeOK
  <2> QED
    BY <2>1, Loaded DEF ObserveInv, TypeOK, Progress
<1>3. span \in Span
  BY <1>1, Loaded, TraceBoundaries DEF ObserveInv, Span
<1>4. End(span) /\ command' = "flushing"
      /\ UNCHANGED <<trajectory, endpoint, step_at, call_at, exporting, verdict>>
  BY <1>2, Loaded DEF EndRoot, ObserveInv
<1>5. /\ span.kind = "CHAIN" /\ span.step = 0 /\ Name(span) = <<"CHAIN", 0, 0>>
      /\ AtBoundaries(span)
  BY DEF Name, AtBoundaries
<1> HIDE DEF span
<1>6. TypeOK'
  <2>1. ended' \in Seq(Span) /\ queue' \in Seq(Span) /\ Len(queue') <= QueueSize
    BY <1>3, <1>4, EndSpan DEF ObserveInv
  <2> QED
    BY <1>4, <2>1 DEF ObserveInv, TypeOK, exporting
<1>7. Progress'
  <2>1. NamesEnded' = EndedNames \cup {<<"CHAIN", 0, 0>>}
    BY <1>1, <1>3, <1>4, <1>5, EndNames DEF ObserveInv, Progress
  <2>2. EndedNames = StepNames(Len(trajectory))
    <3>1. step_at - 1 = Len(trajectory) /\ 1 .. call_at - 1 = {}
      BY <1>2, Loaded DEF ObserveInv
    <3> QED
      BY <3>1 DEF EndedNames, ToolNames
  <2>3. NamesEnded' = Expected
    BY <2>1, <2>2, ExpectedNames DEF ObserveInv
  <2>4. Steps' = Steps /\ (TimesUsable' <=> TimesUsable) /\ Expected' = Expected
    BY <1>4 DEF Steps, TimesUsable, Expected
  <2> QED
    BY <1>1, <1>2, <1>4, <2>3, <2>4 DEF ObserveInv, Progress
<1>8. Handed' /\ (Fits' /\ Conserved => Conserved')
  BY <1>3, <1>4, EndHanded DEF ObserveInv
<1>9. Ordered'
  <2>1. ASSUME NEW i \in DOMAIN ended
        PROVE  /\ ended[i].kind # "CHAIN" /\ InStep(ended[i], step_at', call_at')
               /\ Before(ended[i], span)
    <3>1. ended[i].kind # "CHAIN" /\ InStep(ended[i], step_at, call_at)
      BY <1>1 DEF ObserveInv, Ordered
    <3>2. ended[i].step # 0
      BY <3>1, Loaded DEF ObserveInv, InStep
    <3> QED
      BY <1>4, <1>5, <3>1, <3>2 DEF InStep, Before
  <2>2. \A i, j \in DOMAIN ended : i < j => Before(ended[i], ended[j])
    BY DEF ObserveInv, Ordered
  <2>3. TypeOK /\ UNCHANGED trajectory /\ command' \notin {"loaded", "configured", "projecting"}
    BY <1>4 DEF ObserveInv
  <2> QED
    BY <1>3, <1>4, <1>5, <2>1, <2>2, <2>3, EndOrdered
<1> QED
  BY <1>6, <1>7, <1>8, <1>9 DEF ObserveInv

\* Neither the steps nor their times change, so nor do the boundaries of the trace.
LEMMA BoundariesKept ==
    ASSUME UNCHANGED <<trajectory, ended>>
    PROVE  \A i \in DOMAIN ended : AtBoundaries(ended[i])' <=> AtBoundaries(ended[i])
BY DEF AtBoundaries, TraceStart, TraceEnd, Steps

\* The command does something else than ending a span.
LEMMA QuietStep ==
    ASSUME ObserveInv,
           RejectEmpty \/ SetupExporter \/ RejectTimes \/ StartRoot \/ StartStep
           \/ Flushed \/ FlushTimeout
    PROVE  ObserveInv' /\ (Conserved => Conserved')
<1>1. UNCHANGED <<trajectory, endpoint, step_at, ended, queue, batch, delivered, failed>>
  BY DEF RejectEmpty, SetupExporter, RejectTimes, StartRoot, StartStep, Flushed, FlushTimeout,
         projection, exporting
<1>2. /\ Handed' /\ (Conserved => Conserved') /\ NamesEnded' = NamesEnded /\ Expected' = Expected
      /\ (TimesUsable' <=> TimesUsable) /\ Steps' = Steps
  BY <1>1 DEF ObserveInv, Handed, Conserved, NamesEnded, Name, Expected, TimesUsable, Steps
<1>3. CASE RejectEmpty \/ SetupExporter \/ RejectTimes
  <2>1. ended = <<>> /\ UNCHANGED <<step_at, call_at>> /\ command' \in {"configured", "exited"}
        /\ verdict' \in {"none", "error"}
    BY <1>3 DEF RejectEmpty, SetupExporter, RejectTimes, Exit, projection, ObserveInv, TypeOK,
                Progress
  <2>2. TypeOK'
    BY <1>1, <2>1 DEF ObserveInv, TypeOK
  <2>3. Progress'
    BY <1>1, <1>2, <1>3, <2>1
       DEF ObserveInv, Progress, RejectEmpty, SetupExporter, RejectTimes, Exit
  <2>4. Ordered'
    BY <1>1, <2>1 DEF Ordered
  <2> QED
    BY <1>2, <2>2, <2>3, <2>4 DEF ObserveInv
<1>4. CASE StartRoot
  <2>1. /\ ended = <<>> /\ command = "configured" /\ TimesUsable /\ command' = "projecting"
        /\ step_at = 1 /\ call_at = 0 /\ UNCHANGED <<step_at, call_at, verdict>>
    BY <1>4 DEF StartRoot, projection, ObserveInv, Progress
  <2>2. TypeOK'
    BY <1>1, <2>1 DEF ObserveInv, TypeOK
  <2>3. NamesEnded' = {} /\ EndedNames' = {}
    <3>1. 1 .. step_at' - 1 = {} /\ 1 .. call_at' - 1 = {}
      BY <2>1
    <3> QED
      BY <1>1, <2>1, <3>1 DEF NamesEnded, EndedNames, StepNames, ToolNames
  <2>4. Progress'
    BY <1>1, <1>2, <2>1, <2>3 DEF ObserveInv, Progress
  <2>5. Ordered'
    BY <1>1, <2>1 DEF Ordered
  <2> QED
    BY <1>2, <2>2, <2>4, <2>5 DEF ObserveInv
<1>5. CASE StartStep
  <2>1. /\ command = "projecting" /\ call_at = 0 /\ call_at' = 1 /\ UNCHANGED <<command, verdict>>
        /\ step_at \in Steps /\ Len(trajectory[step_at].tool_calls) \in Nat
    BY <1>5, Loaded DEF StartStep, AtStep, ObserveInv, TypeOK
  <2>2. TypeOK'
    BY <1>1, <2>1 DEF ObserveInv, TypeOK
  <2>3. EndedNames' = EndedNames
    <3>1. 1 .. call_at' - 1 = {} /\ 1 .. call_at - 1 = {}
      BY <2>1
    <3> QED
      BY <1>1, <3>1 DEF EndedNames, StepNames
  <2>4. Progress'
    BY <1>1, <1>2, <2>1, <2>3 DEF ObserveInv, Progress
  <2>5. Ordered'
    <3>1. ASSUME NEW i \in DOMAIN ended, InStep(ended[i], step_at, call_at)
          PROVE  InStep(ended[i], step_at, call_at)'
      <4>1. ended[i].call \in Nat
        BY EndedIsSpan DEF ObserveInv
      <4> QED
        BY <1>1, <2>1, <3>1, <4>1 DEF InStep, Steps
    <3> QED
      BY <1>1, <2>1, <3>1, BoundariesKept DEF ObserveInv, Ordered, Before
  <2> QED
    BY <1>2, <2>2, <2>4, <2>5 DEF ObserveInv
<1>6. CASE Flushed \/ FlushTimeout
  <2>1. /\ command = "flushing" /\ command' = "exited" /\ call_at' = call_at
        /\ verdict' \in {"success", "error"}
        /\ verdict' = "success" => queue = <<>> /\ batch = <<>> /\ ~failed
    BY <1>6 DEF Flushed, FlushTimeout, Exit, projection
  <2>2. TypeOK'
    BY <1>1, <2>1 DEF ObserveInv, TypeOK
  <2>3. Progress'
    BY <1>1, <1>2, <2>1 DEF ObserveInv, Progress
  <2>4. Ordered'
    <3>1. \A i \in DOMAIN ended : InStep(ended[i], step_at, call_at)'
                                    <=> InStep(ended[i], step_at, call_at)
      BY <1>1, <2>1 DEF InStep, Steps
    <3> QED
      BY <1>1, <2>1, <3>1, BoundariesKept DEF ObserveInv, Ordered, Before
  <2> QED
    BY <1>2, <2>2, <2>3, <2>4 DEF ObserveInv
<1> QED
  BY <1>3, <1>4, <1>5, <1>6

\* The worker takes or exports a batch.
LEMMA WorkerStep ==
    ASSUME ObserveInv, Worker
    PROVE  ObserveInv' /\ ("raise" \notin Outcomes /\ Conserved => Conserved')
<1>1. UNCHANGED <<trajectory, endpoint, command, step_at, call_at, ended, verdict>>
  BY DEF Worker, TakeBatch, ExportBatch, projection
<1>2. /\ NamesEnded' = NamesEnded /\ Expected' = Expected /\ EndedNames' = EndedNames
      /\ (TimesUsable' <=> TimesUsable) /\ Steps' = Steps
  BY <1>1 DEF NamesEnded, Name, Expected, EndedNames, StepNames, TimesUsable, Steps
<1>3. verdict # "success"
  BY DEF ObserveInv, Progress, Worker, TakeBatch, ExportBatch
<1>4. Progress'
  BY <1>1, <1>2, <1>3 DEF ObserveInv, Progress
<1>5. Ordered'
  <2>1. \A i \in DOMAIN ended : InStep(ended[i], step_at, call_at)'
                                  <=> InStep(ended[i], step_at, call_at)
    BY <1>1 DEF InStep, Steps
  <2> QED
    BY <1>1, <2>1, BoundariesKept DEF ObserveInv, Ordered, Before
<1>6. CASE TakeBatch
  <2>1. /\ batch' \in Seq(Span) /\ Len(batch') <= BatchSize
        /\ queue' \in Seq(Span) /\ Len(queue') <= Len(queue)
        /\ ToSet(batch') \cup ToSet(queue') = ToSet(queue)
    BY <1>6, BatchTaken DEF ObserveInv
  <2>2. batch = <<>> /\ UNCHANGED <<delivered, failed>>
    BY <1>6 DEF TakeBatch
  <2>3. Len(queue) \in Nat /\ Len(queue') \in Nat /\ Len(ended) \in Nat /\ Len(queue) <= QueueSize
    BY <2>1 DEF ObserveInv, TypeOK
  <2>4. TypeOK'
    BY <1>1, <2>1, <2>2, <2>3, ExporterAssumption DEF ObserveInv, TypeOK
  <2>5. ToSet(batch) = {}
    BY <2>2 DEF ToSet
  <2>6. Handed' /\ (Conserved => Conserved')
    BY <1>1, <2>1, <2>2, <2>3, <2>5 DEF ObserveInv, Handed, Conserved
  <2> QED
    BY <1>4, <1>5, <2>4, <2>6 DEF ObserveInv
<1>7. ASSUME NEW outcome \in Outcomes, ExportBatch(outcome)
      PROVE  ObserveInv' /\ ("raise" \notin Outcomes /\ Conserved => Conserved')
  <2>1. /\ batch' = <<>> /\ UNCHANGED queue /\ failed' = (failed \/ outcome = "failure")
        /\ \/ delivered' = delivered \cup ToSet(batch)
           \/ outcome # "success" /\ delivered' = delivered
    BY <1>7 DEF ExportBatch, Track
  <2>2. ToSet(batch) \subseteq Span /\ ToSet(batch') = {}
    BY <2>1 DEF ObserveInv, TypeOK, ToSet
  <2>3. TypeOK'
    BY <1>1, <2>1, <2>2, ExporterAssumption DEF ObserveInv, TypeOK
  <2>4. Handed'
    BY <1>1, <2>1, <2>2 DEF ObserveInv, Handed
  <2>5. ASSUME "raise" \notin Outcomes, Conserved PROVE Conserved'
    <3>1. ~failed' => ~failed /\ outcome = "success"
      BY <2>1, <2>5, ExporterAssumption
    <3> QED
      BY <1>1, <2>1, <2>2, <2>5, <3>1 DEF Conserved
  <2> QED
    BY <1>4, <1>5, <2>3, <2>4, <2>5 DEF ObserveInv
<1> QED
  BY <1>6, <1>7 DEF Worker

-----------------------------------------------------------------------------
\* The invariant holds before the command does anything.
LEMMA ObserveInit == Init => ObserveInv /\ Conserved
<1> SUFFICES ASSUME Init PROVE ObserveInv /\ Conserved
  OBVIOUS
<1>1. ended = <<>> /\ queue = <<>> /\ batch = <<>> /\ delivered = {} /\ Len(ended) = 0
  BY DEF Init
<1>2. TypeOK
  <2>1. Len(trajectory) \in Nat
    BY ExporterAssumption DEF Init
  <2>2. ended \in Seq(Span) /\ queue \in Seq(Span) /\ batch \in Seq(Span)
        /\ Len(queue) <= QueueSize /\ Len(batch) <= BatchSize
    BY <1>1, ExporterAssumption
  <2>3. step_at \in 1 .. Len(trajectory) + 1
    BY <2>1 DEF Init
  <2> QED
    BY <2>2, <2>3 DEF Init, TypeOK
<1>3. Progress
  BY DEF Init, Progress
<1>4. Handed /\ Conserved
  BY <1>1 DEF Handed, Conserved, ToSet
<1>5. Ordered
  BY <1>1 DEF Ordered
<1> QED
  BY <1>2, <1>3, <1>4, <1>5 DEF ObserveInv

\* Every step keeps the invariant, and the spans too if the queue held and the delegate
\* answered.
LEMMA ObserveStep ==
    ASSUME ObserveInv, [Next]_vars
    PROVE  ObserveInv' /\ ("raise" \notin Outcomes /\ Fits' /\ Conserved => Conserved')
<1>1. CASE Command
  BY <1>1, ToolSpanStep, EndStepStep, EndRootStep, QuietStep DEF Command
<1>2. CASE Worker
  BY <1>2, WorkerStep
<1>3. CASE UNCHANGED vars
  <2>1. UNCHANGED <<trajectory, endpoint, command, step_at, call_at, ended, queue, batch, delivered,
                    failed, verdict>>
    BY <1>3 DEF vars, projection, exporting
  <2>2. TypeOK' /\ Handed' /\ (Conserved => Conserved')
    BY <2>1 DEF ObserveInv, TypeOK, Handed, Conserved
  <2>3. Progress'
    BY <2>1 DEF ObserveInv, Progress, Steps, TimesUsable, NamesEnded, Name, EndedNames,
                StepNames, Expected
  <2>4. Ordered'
    BY <2>1 DEF ObserveInv, Ordered, InStep, Steps, Before, AtBoundaries, TraceStart, TraceEnd
  <2> QED
    BY <2>2, <2>3, <2>4 DEF ObserveInv
<1> QED
  BY <1>1, <1>2, <1>3 DEF Next, Terminated

\* The invariant from which the rest follows.
THEOREM ObserveInvariant == Spec => []ObserveInv
<1>1. Init => ObserveInv
  BY ObserveInit
<1>2. ObserveInv /\ [Next]_vars => ObserveInv'
  BY ObserveStep
<1> QED
  BY <1>1, <1>2, PTL DEF Spec

\* Type correctness: the queue and the batch keep within their sizes, and the command
\* within the trajectory, whatever the worker does.
THEOREM TypeCorrect == Spec => []TypeOK
<1>1. ObserveInv => TypeOK
  BY DEF ObserveInv
<1> QED
  BY <1>1, ObserveInvariant, PTL

\* A trajectory with a time that cannot be used, at whichever step, is rejected before
\* anything of it is handed to the exporter.
THEOREM RejectionIsSilent == Spec => []RejectedTraceSendsNothing
<1>1. ASSUME ObserveInv PROVE RejectedTraceSendsNothing
  <2> SUFFICES ASSUME trajectory = <<>> \/ ~TimesUsable
               PROVE  ended = <<>> /\ delivered = {} /\ verdict # "success"
    BY DEF RejectedTraceSendsNothing, TimesUsable
  <2>1. ended = <<>>
    BY <1>1 DEF ObserveInv, Progress
  <2>2. delivered = {}
    BY <1>1, <2>1 DEF ObserveInv, Handed, ToSet
  <2>3. verdict # "success"
    <3>1. NamesEnded = {} /\ <<"CHAIN", 0, 0>> \in Expected
      BY <2>1 DEF NamesEnded, Expected
    <3> QED
      BY <1>1, <3>1 DEF ObserveInv, Progress
  <2> QED
    BY <2>1, <2>2, <2>3
<1> QED
  BY <1>1, ObserveInvariant, PTL

\* However many steps, calls and times out of order a trajectory has, its spans nest.
THEOREM SpansAreNested == Spec => []SpansNest
<1>1. ASSUME ObserveInv PROVE ParentsEndLast
  <2>1. ASSUME NEW i \in DOMAIN ended, NEW j \in DOMAIN ended, i < j
        PROVE  ended[i].kind # "CHAIN"
    BY <1>1, <2>1, EndedIsSpan DEF ObserveInv, Ordered
  <2>2. \A i, j \in DOMAIN ended : i < j => Before(ended[i], ended[j])
    BY <1>1 DEF ObserveInv, Ordered
  <2>3. command = "flushing" => NamesEnded = Expected
    BY <1>1 DEF ObserveInv, Progress
  <2> QED
    BY <2>1, <2>2, <2>3 DEF ParentsEndLast, Before, NamesEnded
<1>2. ASSUME ObserveInv PROVE RootCoversSteps
  <2> SUFFICES ASSUME NEW i \in DOMAIN ended, NEW j \in DOMAIN ended, ended[j].kind = "CHAIN"
               PROVE  ended[j].start <= ended[i].start /\ ended[i].end <= ended[j].end
    BY DEF RootCoversSteps
  <2>1. ended[j].start = TraceStart /\ ended[j].end = TraceEnd
    BY <1>2 DEF ObserveInv, Ordered, AtBoundaries
  <2>2. ended # <<>>
    OBVIOUS
  <2>3. trajectory \in Seq(Step) /\ trajectory # <<>>
    BY <1>2, <2>2, Loaded DEF ObserveInv, Progress
  <2>4. /\ TraceStart \in Int /\ TraceEnd \in Int
        /\ \A k \in Steps : TraceStart <= trajectory[k].time /\ trajectory[k].time <= TraceEnd
    BY <2>3, TraceBoundaries
  <2>5. Steps # {}
    BY <1>2, <2>3, Loaded DEF ObserveInv
  <2>6. CASE ended[i].kind = "CHAIN"
    <3>1. ended[i].start = TraceStart /\ ended[i].end = TraceEnd
      BY <1>2, <2>6 DEF ObserveInv, Ordered, AtBoundaries
    <3> QED
      BY <2>1, <2>4, <3>1
  <2>7. CASE ended[i].kind # "CHAIN"
    <3>1. InStep(ended[i], step_at, call_at)
      BY <1>2, <2>7 DEF ObserveInv, Ordered
    <3> QED
      BY <2>1, <2>4, <3>1 DEF InStep
  <2> QED
    BY <2>6, <2>7
<1> QED
  BY <1>1, <1>2, ObserveInvariant, PTL DEF SpansNest

\* A delegate that answers, and a queue that holds the trace, are all it takes: however
\* the worker and the flush interleave and whichever batch fails, a success is true.
THEOREM SuccessIsTrue ==
    "raise" \notin Outcomes => (Spec /\ []Fits => []SuccessMeansDelivered)
<1> SUFFICES ASSUME "raise" \notin Outcomes
             PROVE  Spec /\ []Fits => []SuccessMeansDelivered
  OBVIOUS
<1>1. Init => Conserved
  BY ObserveInit
<1>2. ObserveInv /\ Fits' /\ Conserved /\ [Next]_vars => Conserved'
  BY ObserveStep
<1>3. ASSUME ObserveInv, Conserved PROVE SuccessMeansDelivered
  <2> SUFFICES ASSUME verdict = "success", endpoint
               PROVE  {Name(s) : s \in delivered} = Expected
    BY DEF SuccessMeansDelivered
  <2>1. queue = <<>> /\ batch = <<>> /\ ~failed /\ NamesEnded = Expected
    BY <1>3 DEF ObserveInv, Progress
  <2>2. delivered = ToSet(ended)
    BY <1>3, <2>1 DEF ObserveInv, Handed, Conserved, ToSet
  <2> QED
    BY <2>1, <2>2 DEF NamesEnded, ToSet
<1> QED
  BY <1>1, <1>2, <1>3, ObserveInvariant, PTL DEF Spec

\* What the status of a span says of the results of its call.
StatusTrue(span) ==
    LET step    == trajectory[span.step]
        results == {r \in DOMAIN step.observation :
                       step.observation[r].source_call_id = step.tool_calls[span.call]}
    IN  /\ span.status = "ERROR" => \E r \in results : SaysError(step.observation[r])
        /\ span.status = "OK" => results = {} \/ \E r \in results : ~SaysError(step.observation[r])

\* The first result of a call that has one speaks for it.
LEMMA StatusOfTool ==
    ASSUME TypeOK, NEW span, span.step \in Steps,
           span.status = ToolStatus(trajectory[span.step], span.call)
    PROVE  StatusTrue(span)
<1> DEFINE step == trajectory[span.step]
           results == {r \in DOMAIN step.observation :
                          step.observation[r].source_call_id = step.tool_calls[span.call]}
<1>1. step \in Step
  BY Loaded
<1>2. results \subseteq Nat
  BY <1>1 DEF Step
<1>3. span.status = IF \E first \in results : /\ \A r \in results : first <= r
                                              /\ SaysError(step.observation[first])
                      THEN "ERROR" ELSE "OK"
  BY DEF ToolStatus
<1>4. span.status = "ERROR" => \E r \in results : SaysError(step.observation[r])
  BY <1>3
<1>5. ASSUME span.status = "OK", results # {}
      PROVE  \E r \in results : ~SaysError(step.observation[r])
  <2>1. PICK first \in results : \A r \in results : first <= r
    BY <1>2, <1>5, SmallestOf
  <2>2. ~SaysError(step.observation[first])
    BY <1>3, <1>5, <2>1
  <2> QED
    BY <2>1, <2>2
<1> QED
  BY <1>4, <1>5 DEF StatusTrue

\* However the results of other calls lie between, the status of a span is that of its call.
THEOREM StatusAtItsCall == Spec => []ErrorsAtTheirCall
<1> DEFINE Inv == \A i \in DOMAIN ended : ended[i].kind = "TOOL" => StatusTrue(ended[i])
<1>1. Init => Inv
  BY DEF Init
<1>2. ASSUME ObserveInv, Inv, [Next]_vars PROVE Inv'
  <2>1. trajectory' = trajectory
    BY <1>2 DEF Next, Command, Worker, RejectEmpty, SetupExporter, RejectTimes, StartRoot,
                StartStep, ToolSpan, EndStep, EndRoot, Flushed, FlushTimeout, TakeBatch, ExportBatch,
                Terminated, vars
  <2>2. \A i \in DOMAIN ended :
            StatusTrue(ended[i]) /\ ended'[i] = ended[i] => StatusTrue(ended[i])'
    BY <2>1 DEF StatusTrue
  <2>3. ASSUME NEW span \in Span, End(span), span.kind = "TOOL" => StatusTrue(span)
        PROVE  Inv'
    <3>1. /\ ended'[Len(ended) + 1] = span /\ \A i \in DOMAIN ended : ended'[i] = ended[i]
          /\ DOMAIN ended' = DOMAIN ended \cup {Len(ended) + 1}
      BY <1>2, <2>3, EndSpan DEF ObserveInv
    <3>2. ASSUME NEW i \in DOMAIN ended', ended'[i].kind = "TOOL" PROVE StatusTrue(ended[i])'
      <4>1. CASE i \in DOMAIN ended
        BY <1>2, <2>2, <3>1, <3>2, <4>1
      <4>2. CASE i = Len(ended) + 1
        <5>1. ended'[i] = span /\ StatusTrue(span)
          BY <2>3, <3>1, <3>2, <4>2
        <5> QED
          BY <2>1, <5>1 DEF StatusTrue
      <4> QED
        BY <3>1, <4>1, <4>2
    <3> QED
      BY <3>2
  <2>4. CASE ToolSpan
    <3> DEFINE span == [kind |-> "TOOL", step |-> step_at, call |-> call_at,
                        start |-> trajectory[step_at].time, end |-> trajectory[step_at].time,
                        status |-> ToolStatus(trajectory[step_at], call_at)]
    <3>1. /\ step_at \in Steps /\ step_at \in Nat /\ call_at \in Nat
          /\ trajectory[step_at].time \in Int
      BY <1>2, <2>4, Loaded DEF ObserveInv, TypeOK, ToolSpan, AtStep
    <3>2. span \in Span
      BY <3>1 DEF Span, ToolStatus
    <3>3. span.step \in Steps /\ span.status = ToolStatus(trajectory[span.step], span.call)
      BY <3>1
    <3>4. StatusTrue(span)
      BY <1>2, <3>3, StatusOfTool DEF ObserveInv
    <3>5. End(span)
      BY <2>4 DEF ToolSpan
    <3> QED
      BY <2>3, <3>2, <3>4, <3>5
  <2>5. CASE EndStep
    <3> DEFINE span == [kind |-> "AGENT", step |-> step_at, call |-> 0,
                        start |-> trajectory[step_at].time, end |-> trajectory[step_at].time,
                        status |-> "UNSET"]
    <3>1. step_at \in Nat /\ trajectory[step_at].time \in Int
      BY <1>2, <2>5, Loaded DEF ObserveInv, TypeOK, EndStep, AtStep
    <3>2. span \in Span /\ span.kind # "TOOL"
      BY <3>1 DEF Span
    <3>3. End(span)
      BY <2>5 DEF EndStep
    <3> QED
      BY <2>3, <3>2, <3>3
  <2>6. CASE EndRoot
    <3> DEFINE span == [kind |-> "CHAIN", step |-> 0, call |-> 0,
                        start |-> TraceStart, end |-> TraceEnd, status |-> "UNSET"]
    <3>1. TraceStart \in Int /\ TraceEnd \in Int
      BY <1>2, <2>6, Loaded, TraceBoundaries DEF ObserveInv, Progress, EndRoot
    <3>2. span \in Span /\ span.kind # "TOOL"
      BY <3>1 DEF Span
    <3>3. End(span)
      BY <2>6 DEF EndRoot
    <3> QED
      BY <2>3, <3>2, <3>3
  <2>7. CASE UNCHANGED ended
    <3>1. \A i \in DOMAIN ended : StatusTrue(ended[i]) => StatusTrue(ended[i])'
      BY <2>2, <2>7
    <3> QED
      BY <1>2, <2>7, <3>1
  <2> QED
    BY <1>2, <2>4, <2>5, <2>6, <2>7
       DEF Next, Command, Worker, RejectEmpty, SetupExporter, RejectTimes, StartRoot, StartStep,
           Flushed, FlushTimeout, TakeBatch, ExportBatch, Terminated, vars, projection
<1>3. Inv => ErrorsAtTheirCall
  BY DEF ErrorsAtTheirCall, StatusTrue
<1> QED
  BY <1>1, <1>2, <1>3, ObserveInvariant, PTL DEF Spec
=============================================================================
