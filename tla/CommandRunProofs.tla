-------------------------- MODULE CommandRunProofs --------------------------
(***************************************************************************)
(* The theorems of CommandRun, for every program, every number of runs and *)
(* every log.  The argument is one inductive invariant, Inv: what a run    *)
(* holds at each point of an attempt, stated for one run and the log, so   *)
(* that a step of one run disturbs another only through the log, which     *)
(* only grows.                                                             *)
(***************************************************************************)
EXTENDS CommandRun, TLAPS

\* A sequence of anything.
IsSeq(s) == s \in Seq({s[i] : i \in DOMAIN s})

\* The longer list keeps what the shorter one holds.
Extends(longer, shorter) ==
  /\ Len(shorter) <= Len(longer)
  /\ \A i \in 1 .. Len(shorter) : longer[i] = shorter[i]

-----------------------------------------------------------------------------
(* What a run holds.                                                       *)

FirstFrame(r) == Pre(request[r], 1, prepared[r]).frame

\* Variables whose values are a program's own are functions on the runs.
Domains ==
  /\ DOMAIN prepared = Run
  /\ DOMAIN frame = Run
  /\ DOMAIN resolved = Run
  /\ DOMAIN acc = Run
  /\ DOMAIN read = Run
  /\ DOMAIN folded = Run
  /\ DOMAIN carried = Run
  /\ DOMAIN condition = Run
  /\ DOMAIN trail = Run

Phases(r) ==
  /\ pc[r] = "idle" => attempt[r] = 0 /\ ~carried[r].some
  /\ pc[r] # "idle" => prepared[r].now \in 0 .. Len(log)
  /\ pc[r] # "done" => outcome[r] = "none"
  /\ pc[r] \in {"open", "fold"} => Reads(request[r], stage[r])

\* Until a stage has read, the attempt is in its first one and has only the
\* request to go by.
LeadingStage(r) ==
  /\ leading[r] =>
       /\ stage[r] = 1
       /\ trail[r] = <<>>
       /\ ~folded[r].some
       /\ pc[r] \notin {"fold", "done"} => after[r] = Unpinned
       /\ pc[r] = "pre" => frame[r] = prepared[r]
       /\ pc[r] \in {"open", "fold"} => frame[r] = FirstFrame(r)
       /\ pc[r] = "post" => ~Reads(request[r], 1)
  /\ ~leading[r] => after[r] # Unpinned /\ folded[r].some

\* A carry is the fold of the first stage below its mark.
CarryOf(r, carry) ==
  carry.some =>
    /\ carry.through \in 0 .. Len(log)
    /\ carry.slices = Slices(request[r], 1, FirstFrame(r))
    /\ IsSeq(carry.fold.seen)
    /\ IsFold(carry.fold, carry.slices, FirstFrame(r), log, carry.through)

Carrying(r) ==
  /\ CarryOf(r, carried[r])
  /\ CarryOf(r, folded[r])
  /\ attempt[r] > 0 => carried[r].some

Folding(r) ==
  pc[r] = "fold" =>
    /\ after[r] # Unpinned
    /\ cursor[r] <= after[r]
    /\ resolved[r] = Slices(request[r], stage[r], frame[r])
    /\ IsSeq(acc[r].seen)
    /\ IsFold(acc[r], resolved[r], frame[r], log, cursor[r])
    /\ leading[r] /\ carried[r].some => cursor[r] >= carried[r].through

\* The condition under construction covers the folds of the attempt.
Trailing(r) ==
  /\ IsSeq(trail[r])
  /\ \A i \in DOMAIN trail[r] :
       IsFold(trail[r][i].fold, trail[r][i].slices, trail[r][i].env, log,
              after[r])
  /\ \A i \in DOMAIN trail[r] : Narrowing(trail[r][i].slices) \subseteq read[r]
  /\ \A p \in read[r] : \E i \in DOMAIN trail[r] :
       p \in Narrowing(trail[r][i].slices)

Settled(r) ==
  pc[r] = "append" =>
    /\ condition[r].after = IF after[r] = Unpinned THEN 0 ELSE after[r]
    /\ condition[r].slices = read[r]
    /\ ~leading[r] => carried[r].some

\* Every attempt lost was lost to a record at or past the head it had.
Paid(r) ==
  pc[r] # "idle" =>
    /\ attempt[r] <= Len(log) - prepared[r].now
    /\ after[r] # Unpinned => attempt[r] <= after[r] - prepared[r].now

RunInv(r) ==
  /\ Phases(r)
  /\ LeadingStage(r)
  /\ Carrying(r)
  /\ Folding(r)
  /\ Trailing(r)
  /\ Settled(r)
  /\ Paid(r)

Inv == TypeOK /\ Domains /\ \A r \in Run : RunInv(r)

-----------------------------------------------------------------------------
(* Sequences and folds.                                                    *)

\* Appending to a sequence of anything.
LEMMA AppendAny ==
  ASSUME NEW s, IsSeq(s), NEW e
  PROVE  /\ IsSeq(Append(s, e))
         /\ Len(s) \in Nat
         /\ DOMAIN s = 1 .. Len(s)
         /\ DOMAIN Append(s, e) = 1 .. Len(s) + 1
         /\ \A i \in 1 .. Len(s) : Append(s, e)[i] = s[i]
         /\ Append(s, e)[Len(s) + 1] = e
PROOF
<1> DEFINE S == {s[i] : i \in DOMAIN s} \cup {e}
           t == Append(s, e)
<1>1. s \in Seq(S) /\ e \in S
  BY DEF IsSeq
<1>2. /\ t \in Seq(S)
      /\ Len(s) \in Nat
      /\ DOMAIN s = 1 .. Len(s)
      /\ DOMAIN t = 1 .. Len(s) + 1
      /\ \A i \in 1 .. Len(s) : t[i] = s[i]
      /\ t[Len(s) + 1] = e
      /\ Len(t) = Len(s) + 1
  BY <1>1
<1>3. t \in Seq({t[i] : i \in DOMAIN t})
  BY <1>2
<1> QED
  BY <1>2, <1>3 DEF IsSeq

\* A fold that has only been seeded is the fold of no records.
LEMMA FoldOfNone ==
  ASSUME NEW slices, NEW env, NEW records
  PROVE  /\ IsSeq(<<>>)
         /\ IsFold([seed |-> env, seen |-> <<>>], slices, env, records, 0)
BY DEF IsFold, IsSeq

\* A fold depends on the records below its bound only.
LEMMA FoldStable ==
  ASSUME NEW fold, NEW slices, NEW env, NEW records, NEW longer,
         NEW n \in 0 .. Len(records), Len(records) \in Nat,
         Extends(longer, records),
         IsFold(fold, slices, env, records, n)
  PROVE  IsFold(fold, slices, env, longer, n)
PROOF
<1>1. \A p \in 0 .. n - 1 : longer[p + 1] = records[p + 1]
  BY DEF Extends
<1> QED
  BY <1>1 DEF IsFold

\* Records in no live slice are no part of a fold.
LEMMA FoldSkips ==
  ASSUME NEW fold, NEW slices, NEW env, NEW records,
         NEW m \in Nat, NEW n \in Nat, m <= n,
         \A p \in m .. n - 1 : ArmsAt(slices, records[p + 1]) = {},
         IsFold(fold, slices, env, records, m)
  PROVE  IsFold(fold, slices, env, records, n)
PROOF
<1>1. \A p \in 0 .. n - 1 : p \in 0 .. m - 1 \/ p \in m .. n - 1
  OBVIOUS
<1>2. \A p \in 0 .. m - 1 : p \in 0 .. n - 1
  OBVIOUS
<1> QED
  BY <1>1, <1>2 DEF IsFold

\* One more record, folded by the arms it matches.
LEMMA FoldSteps ==
  ASSUME NEW fold, NEW slices, NEW env, NEW records, NEW n \in Nat,
         IsSeq(fold.seen),
         ArmsAt(slices, records[n + 1]) # {},
         IsFold(fold, slices, env, records, n)
  PROVE  LET entry == Entry(slices, n, records[n + 1], env)
             next  == [seed |-> fold.seed, seen |-> Append(fold.seen, entry)]
         IN IsSeq(next.seen) /\ IsFold(next, slices, env, records, n + 1)
PROOF
<1> DEFINE entry == Entry(slices, n, records[n + 1], env)
           next  == [seed |-> fold.seed, seen |-> Append(fold.seen, entry)]
           old   == fold.seen
           new   == Append(old, entry)
           k     == Len(old)
           Good(x, b) == /\ x.at \in 0 .. b
                         /\ ArmsAt(slices, records[x.at + 1]) # {}
                         /\ x = Entry(slices, x.at, records[x.at + 1], env)
<1>1. /\ IsSeq(new)
      /\ k \in Nat
      /\ DOMAIN old = 1 .. k
      /\ DOMAIN new = 1 .. k + 1
      /\ \A i \in 1 .. k : new[i] = old[i]
      /\ new[k + 1] = entry
  BY AppendAny
<1>2. entry.at = n
  BY DEF Entry
<1>3. /\ \A i \in 1 .. k : Good(old[i], n - 1)
      /\ \A i, j \in 1 .. k : i < j => old[i].at < old[j].at
      /\ \A p \in 0 .. n - 1 : ArmsAt(slices, records[p + 1]) # {} =>
           \E i \in 1 .. k : old[i].at = p
      /\ fold.seed = env
  BY <1>1 DEF IsFold
<1>4. Good(entry, n)
  BY <1>2
<1>5. next.seen = new /\ next.seed = fold.seed
  OBVIOUS
<1> HIDE DEF entry, old, new, next, k
<1>6. \A i \in 1 .. k + 1 : Good(new[i], n)
  <2> TAKE i \in 1 .. k + 1
  <2>1. CASE i \in 1 .. k
    BY <2>1, <1>1, <1>3
  <2>2. CASE i = k + 1
    BY <2>2, <1>1, <1>4
  <2> QED
    BY <1>1, <2>1, <2>2
<1>7. \A i, j \in 1 .. k + 1 : i < j => new[i].at < new[j].at
  <2> TAKE i, j \in 1 .. k + 1
  <2> HAVE i < j
  <2>1. i \in 1 .. k
    BY <1>1
  <2>2. CASE j \in 1 .. k
    BY <2>1, <2>2, <1>1, <1>3
  <2>3. CASE j = k + 1
    BY <2>1, <2>3, <1>1, <1>2, <1>3
  <2> QED
    BY <1>1, <2>2, <2>3
<1>8. \A p \in 0 .. n : ArmsAt(slices, records[p + 1]) # {} =>
        \E i \in 1 .. k + 1 : new[i].at = p
  <2> TAKE p \in 0 .. n
  <2> HAVE ArmsAt(slices, records[p + 1]) # {}
  <2>1. CASE p = n
    BY <2>1, <1>1, <1>2
  <2>2. CASE p \in 0 .. n - 1
    <3>1. PICK i \in 1 .. k : old[i].at = p
      BY <2>2, <1>3
    <3> QED
      BY <3>1, <1>1
  <2> QED
    BY <2>1, <2>2
<1>9. IsFold(next, slices, env, records, n + 1)
  <2>1. (n + 1) - 1 = n
    OBVIOUS
  <2>2. DOMAIN next.seen = 1 .. k + 1 /\ next.seen = new /\ next.seed = env
    BY <1>1, <1>3, <1>5
  <2>3. \A i \in DOMAIN next.seen :
          /\ next.seen[i].at \in 0 .. (n + 1) - 1
          /\ ArmsAt(slices, records[next.seen[i].at + 1]) # {}
          /\ next.seen[i] = Entry(slices, next.seen[i].at,
                                  records[next.seen[i].at + 1], env)
    BY <2>1, <2>2, <1>6
  <2>4. \A i, j \in DOMAIN next.seen :
          i < j => next.seen[i].at < next.seen[j].at
    BY <2>2, <1>7
  <2>5. \A p \in 0 .. (n + 1) - 1 : ArmsAt(slices, records[p + 1]) # {} =>
          \E i \in DOMAIN next.seen : next.seen[i].at = p
    BY <2>1, <2>2, <1>8
  <2> HIDE DEF Good
  <2> QED
    BY <2>2, <2>3, <2>4, <2>5 DEF IsFold
<1> QED
  BY <1>1, <1>5, <1>9 DEF entry, next

\* A record no predicate read holds is folded by no arm.
LEMMA UnreadUnfolded ==
  ASSUME NEW slices, NEW e,
         \A p \in Narrowing(slices) : ~Holds(p, e)
  PROVE  ArmsAt(slices, e) = {}
BY DEF Narrowing, ArmsAt

\* A record a predicate read holds is folded by some arm.
LEMMA ReadFolded ==
  ASSUME NEW slices, NEW e, NEW p \in Narrowing(slices), Holds(p, e)
  PROVE  ArmsAt(slices, e) # {}
BY DEF Narrowing, ArmsAt

-----------------------------------------------------------------------------
(* The invariant holds initially.                                          *)

\* The invariant holds initially: no run has begun and nothing is carried.
LEMMA InitInv == Init => Inv
PROOF
<1> SUFFICES ASSUME Init PROVE Inv
  OBVIOUS
<1>1. ASSUME NEW r \in Run PROVE 1 \in 1 .. Stages(request[r])
  <2>1. request[r] \in Request
    BY DEF Init
  <2>2. Stages(request[r]) \in Nat \ {0}
    BY <2>1, StagesAssumption
  <2> QED
    BY <2>2
<1>2. TypeOK
  BY <1>1 DEF Init, TypeOK, Outcomes, Unpinned
<1>3. Domains
  BY DEF Init, Domains
<1>4. ASSUME NEW r \in Run PROVE RunInv(r)
  <2>1. IsSeq(<<>>)
    BY DEF IsSeq
  <2>2. Phases(r) /\ LeadingStage(r) /\ Folding(r) /\ Settled(r) /\ Paid(r)
    BY DEF Init, Phases, LeadingStage, Folding, Settled, Paid, NoCarry
  <2>3. Carrying(r)
    BY DEF Init, Carrying, CarryOf, NoCarry
  <2>4. Trailing(r)
    BY <2>1 DEF Init, Trailing
  <2> QED
    BY <2>2, <2>3, <2>4 DEF RunInv
<1> QED
  BY <1>2, <1>3, <1>4 DEF Inv

-----------------------------------------------------------------------------
(* A run another one's step leaves alone.                                  *)

Same(r) ==
  /\ pc'[r] = pc[r]
  /\ request'[r] = request[r]
  /\ outcome'[r] = outcome[r]
  /\ attempt'[r] = attempt[r]
  /\ prepared'[r] = prepared[r]
  /\ frame'[r] = frame[r]
  /\ stage'[r] = stage[r]
  /\ after'[r] = after[r]
  /\ resolved'[r] = resolved[r]
  /\ cursor'[r] = cursor[r]
  /\ acc'[r] = acc[r]
  /\ read'[r] = read[r]
  /\ emitted'[r] = emitted[r]
  /\ ret'[r] = ret[r]
  /\ leading'[r] = leading[r]
  /\ folded'[r] = folded[r]
  /\ carried'[r] = carried[r]
  /\ condition'[r] = condition[r]
  /\ trail'[r] = trail[r]

LogGrows == log' \in Seq(Event) /\ Extends(log', log)

\* The folds of r, those it carries and those it decided on, outlive the
\* growth of the log.
LEMMA FoldsKept ==
  ASSUME TypeOK, NEW r \in Run, RunInv(r), LogGrows,
         request'[r] = request[r], prepared'[r] = prepared[r],
         after'[r] = after[r], read'[r] = read[r], trail'[r] = trail[r],
         attempt'[r] = attempt[r], carried'[r] = carried[r],
         folded'[r] = folded[r]
  PROVE  Carrying(r)' /\ Trailing(r)'
PROOF
<1>1. /\ Len(log) \in Nat /\ Len(log') \in Nat /\ Len(log) <= Len(log')
      /\ after[r] \in {Unpinned} \cup 0 .. Len(log)
  BY DEF LogGrows, TypeOK, Extends
<1>2. ASSUME NEW fold, NEW slices, NEW env, NEW n \in 0 .. Len(log),
             IsFold(fold, slices, env, log, n)
      PROVE  IsFold(fold, slices, env, log', n)
  BY <1>1, <1>2, FoldStable DEF LogGrows
<1>3. FirstFrame(r)' = FirstFrame(r)
  BY DEF FirstFrame
<1>4. ASSUME NEW c, CarryOf(r, c) PROVE CarryOf(r, c)'
  BY <1>1, <1>2, <1>3, <1>4 DEF CarryOf
<1>5. Carrying(r)'
  BY <1>4 DEF RunInv, Carrying
<1>6. \A i \in DOMAIN trail[r] : after[r] \in 0 .. Len(log)
  BY <1>1 DEF RunInv, LeadingStage
<1>7. Trailing(r)'
  BY <1>2, <1>6 DEF RunInv, Trailing
<1> QED
  BY <1>5, <1>7

\* The log grows and nothing of r moves: what r holds it still holds.
LEMMA OtherRun ==
  ASSUME TypeOK, NEW r \in Run, RunInv(r), Same(r), LogGrows
  PROVE  RunInv(r)'
PROOF
<1> USE DEF Same
<1>1. /\ Len(log) \in Nat /\ Len(log') \in Nat /\ Len(log) <= Len(log')
      /\ after[r] \in {Unpinned} \cup 0 .. Len(log)
      /\ cursor[r] \in 0 .. Len(log)
      /\ attempt[r] \in Nat
  BY DEF LogGrows, TypeOK, Extends
<1>2. FirstFrame(r)' = FirstFrame(r)
  BY DEF FirstFrame
<1>3. /\ Phases(r)' /\ LeadingStage(r)' /\ Settled(r)' /\ Paid(r)'
  BY <1>1, <1>2 DEF RunInv, Phases, LeadingStage, Settled, Paid
<1>4. Carrying(r)' /\ Trailing(r)'
  BY FoldsKept
<1>5. Folding(r)'
  BY <1>1, FoldStable DEF LogGrows, RunInv, Folding
<1> QED
  BY <1>3, <1>4, <1>5 DEF RunInv

\* A step of r establishes the invariant if it does so for r.
LEMMA StepOf ==
  ASSUME Inv, NEW r \in Run, TypeOK', Domains', RunInv(r)', LogGrows,
         \A x \in Run \ {r} : Same(x)
  PROVE  Inv'
BY OtherRun DEF Inv

\* The log as it stands extends itself.
LEMMA LogUnchanged ==
  ASSUME TypeOK, UNCHANGED log
  PROVE  LogGrows
BY DEF TypeOK, LogGrows, Extends

-----------------------------------------------------------------------------
(* One lemma per action.                                                   *)

\* Begin: binding the arguments starts an attempt that carries nothing.
LEMMA BeginInv ==
  ASSUME Inv, NEW r \in Run, Begin(r)
  PROVE  Inv'
PROOF
<1> USE DEF Begin, FreshAttempt, End
<1>1. TypeOK /\ Domains /\ RunInv(r)
  BY DEF Inv
<1>2. request[r] \in Request /\ Len(log) \in Nat
  BY <1>1 DEF TypeOK
<1>3. 1 \in 1 .. Stages(request[r])
  BY <1>2, StagesAssumption
<1>4. LogGrows
  BY <1>1, LogUnchanged
<1>5. TypeOK'
  <2>1. pc' \in [Run -> {"idle", "pre", "open", "fold", "post", "settle",
                         "append", "done"}]
    BY <1>1 DEF TypeOK
  <2>2. outcome' \in [Run -> Outcomes]
    BY <1>1 DEF TypeOK, Outcomes
  <2>3. /\ stage' \in [Run -> Nat]
        /\ \A x \in Run : stage'[x] \in 1 .. Stages(request'[x])
    BY <1>1, <1>3 DEF TypeOK
  <2>4. /\ after' \in [Run -> {Unpinned} \cup 0 .. Len(log')]
        /\ emitted' \in [Run -> Seq(Event)]
        /\ ret' \in [Run -> {"ok", "invalid", "reject"}]
        /\ leading' \in [Run -> BOOLEAN]
    BY <1>1 DEF TypeOK
  <2> QED
    BY <1>1, <2>1, <2>2, <2>3, <2>4 DEF TypeOK
<1>6. Domains'
  BY <1>1 DEF Domains
<1>7. \A x \in Run \ {r} : Same(x)
  BY <1>1 DEF Same, TypeOK, Domains
<1>8. /\ prepared'[r].now = Len(log)
      /\ frame'[r] = prepared'[r]
      /\ stage'[r] = 1 /\ after'[r] = Unpinned /\ read'[r] = {}
      /\ leading'[r] = TRUE /\ folded'[r] = NoCarry /\ trail'[r] = <<>>
  BY <1>1 DEF TypeOK, Domains, Prepared
<1>9. /\ pc[r] = "idle" /\ outcome[r] = "none"
       /\ attempt'[r] = 0 /\ carried'[r] = carried[r] /\ ~carried[r].some
  BY <1>1 DEF RunInv, Phases
<1>10. \/ pc'[r] = "pre" /\ outcome'[r] = "none"
       \/ pc'[r] = "done" /\ outcome'[r] = "error"
  BY <1>1, <1>9 DEF TypeOK
<1>11. ~folded'[r].some
  BY <1>8 DEF NoCarry
<1>12. Phases(r)' /\ LeadingStage(r)' /\ Folding(r)' /\ Settled(r)' /\ Paid(r)'
  BY <1>2, <1>8, <1>11, <1>9, <1>10 DEF Phases, LeadingStage, Folding, Settled, Paid
<1>13. Carrying(r)'
  BY <1>8, <1>11, <1>9 DEF Carrying, CarryOf
<1>14. Trailing(r)'
  <2>1. IsSeq(<<>>)
    BY DEF IsSeq
  <2> QED
    BY <1>8, <2>1 DEF Trailing
<1>15. RunInv(r)'
  BY <1>12, <1>13, <1>14 DEF RunInv
<1> QED
  BY <1>4, <1>5, <1>6, <1>7, <1>15, StepOf

\* RunPre: the statements above a stage touch no fold this attempt keeps.
LEMMA RunPreInv ==
  ASSUME Inv, NEW r \in Run, RunPre(r)
  PROVE  Inv'
PROOF
<1> DEFINE half == Pre(request[r], stage[r], frame[r])
<1> USE DEF RunPre, RunHalf, End
<1>1. TypeOK /\ Domains /\ RunInv(r)
  BY DEF Inv
<1>2. pc[r] = "pre" /\ outcome[r] = "none"
  BY <1>1 DEF RunInv, Phases
<1>3. LogGrows
  BY <1>1, LogUnchanged
<1>4. \A x \in Run \ {r} : Same(x)
  BY <1>1 DEF Same, TypeOK, Domains
<1>5. TypeOK'
  <2>1. WellFormed(half) => emitted[r] \o half.emits \in Seq(Event)
    BY <1>1 DEF TypeOK, WellFormed
  <2>2. emitted' \in [Run -> Seq(Event)]
    BY <1>1, <2>1 DEF TypeOK
  <2>3. /\ pc' \in [Run -> {"idle", "pre", "open", "fold", "post", "settle",
                            "append", "done"}]
        /\ outcome' \in [Run -> Outcomes]
        /\ ret' \in [Run -> {"ok", "invalid", "reject"}]
        /\ stage' = stage
    BY <1>1 DEF TypeOK, Outcomes
  <2> QED
    BY <1>1, <2>2, <2>3 DEF TypeOK
<1>6. Domains'
  BY <1>1 DEF Domains
<1>7. RunInv(r)'
  <2>1. /\ stage'[r] = stage[r]
        /\ FirstFrame(r)' = FirstFrame(r)
    BY <1>1 DEF TypeOK, FirstFrame
  <2>2. \/ /\ pc'[r] = IF Reads(request[r], stage[r]) THEN "open" ELSE "post"
           /\ outcome'[r] = "none"
           /\ frame'[r] = half.frame
        \/ pc'[r] = "settle" /\ outcome'[r] = "none"
        \/ pc'[r] = "done" /\ outcome'[r] = "error"
    BY <1>1, <1>2 DEF TypeOK, Domains
  <2>3. Phases(r)' /\ Folding(r)' /\ Settled(r)' /\ Paid(r)'
    BY <1>1, <1>2, <2>1, <2>2
    DEF RunInv, Phases, Folding, Settled, Paid
  <2>4. LeadingStage(r)'
    <3>1. leading[r] => FirstFrame(r) = half.frame /\ stage[r] = 1
      BY <1>1, <1>2 DEF RunInv, LeadingStage, FirstFrame
    <3> HIDE DEF half
    <3> QED
      BY <1>1, <1>2, <2>1, <2>2, <3>1 DEF RunInv, LeadingStage
  <2>5. Carrying(r)'
    BY <1>1, <2>1 DEF RunInv, Carrying, CarryOf
  <2>6. Trailing(r)'
    BY <1>1 DEF RunInv, Trailing
  <2> QED
    BY <2>3, <2>4, <2>5, <2>6 DEF RunInv
<1> QED
  BY <1>3, <1>4, <1>5, <1>6, <1>7, StepOf

\* RunPost: a later stage starts with the first one's fold set aside.
LEMMA RunPostInv ==
  ASSUME Inv, NEW r \in Run, RunPost(r)
  PROVE  Inv'
PROOF
<1> DEFINE half == Post(request[r], stage[r], frame[r])
<1> USE DEF RunPost, RunHalf, End
<1>1. TypeOK /\ Domains /\ RunInv(r)
  BY DEF Inv
<1>2. pc[r] = "post" /\ outcome[r] = "none"
  BY <1>1 DEF RunInv, Phases
<1>3. LogGrows
  BY <1>1, LogUnchanged
<1>4. \A x \in Run \ {r} : Same(x)
  BY <1>1 DEF Same, TypeOK, Domains
<1>5. request[r] \in Request /\ stage[r] \in 1 .. Stages(request[r])
  BY <1>1 DEF TypeOK
<1>6. /\ Stages(request[r]) \in Nat
      /\ ~LastStage(r) => Reads(request[r], stage[r])
  BY <1>5, StagesAssumption DEF LastStage
<1>7. TypeOK'
  <2>1. WellFormed(half) => emitted[r] \o half.emits \in Seq(Event)
    BY <1>1 DEF TypeOK, WellFormed
  <2>2. emitted' \in [Run -> Seq(Event)]
    BY <1>1, <2>1 DEF TypeOK
  <2>3. /\ pc' \in [Run -> {"idle", "pre", "open", "fold", "post", "settle",
                            "append", "done"}]
        /\ outcome' \in [Run -> Outcomes]
        /\ ret' \in [Run -> {"ok", "invalid", "reject"}]
    BY <1>1 DEF TypeOK, Outcomes
  <2>4. /\ stage' \in [Run -> Nat]
        /\ \A x \in Run : stage'[x] \in 1 .. Stages(request[x])
    BY <1>1, <1>5, <1>6 DEF TypeOK, LastStage
  <2> QED
    BY <1>1, <2>2, <2>3, <2>4 DEF TypeOK
<1>8. Domains'
  BY <1>1 DEF Domains
<1>9. RunInv(r)'
  <2>1. FirstFrame(r)' = FirstFrame(r)
    BY <1>1 DEF TypeOK, FirstFrame
  <2>2. \/ /\ pc'[r] = "pre" /\ ~LastStage(r)
           /\ outcome'[r] = "none"
        \/ /\ pc'[r] = "settle" /\ outcome'[r] = "none"
           /\ stage'[r] = stage[r]
        \/ /\ pc'[r] = "done" /\ outcome'[r] = "error"
           /\ stage'[r] = stage[r]
    BY <1>1, <1>2 DEF TypeOK, Domains
  <2>3. Phases(r)' /\ Folding(r)' /\ Settled(r)' /\ Paid(r)'
    BY <1>1, <1>2, <2>1, <2>2
    DEF RunInv, Phases, Folding, Settled, Paid
  <2>4. LeadingStage(r)'
    <3>1. leading[r] => LastStage(r) /\ stage[r] = 1
      BY <1>1, <1>2, <1>6 DEF RunInv, LeadingStage
    <3> QED
      BY <1>1, <1>2, <2>1, <2>2, <3>1 DEF RunInv, LeadingStage
  <2>5. Carrying(r)'
    BY <1>1, <2>1 DEF RunInv, Carrying, CarryOf
  <2>6. Trailing(r)'
    BY <1>1 DEF RunInv, Trailing
  <2> QED
    BY <2>3, <2>4, <2>5, <2>6 DEF RunInv
<1> QED
  BY <1>3, <1>4, <1>7, <1>8, <1>9, StepOf

\* OpenFold: a fold is seeded, or resumed from a carry of its own slices,
\* and the head pinned is the log's.
LEMMA OpenFoldInv ==
  ASSUME Inv, NEW r \in Run, OpenFold(r)
  PROVE  Inv'
PROOF
<1> DEFINE slices == Slices(request[r], stage[r], frame[r])
<1> USE DEF OpenFold
<1>1. TypeOK /\ Domains /\ RunInv(r)
  BY DEF Inv
<1>2. /\ pc[r] = "open" /\ outcome[r] = "none"
      /\ Len(log) \in Nat
      /\ after[r] \in {Unpinned} \cup 0 .. Len(log)
      /\ attempt[r] \in Nat
  BY <1>1 DEF RunInv, Phases, TypeOK
<1>3. LogGrows
  BY <1>1, LogUnchanged
<1>4. \A x \in Run \ {r} : Same(x)
  BY <1>1 DEF Same, TypeOK, Domains
<1>5. Pinned(r) \in 0 .. Len(log) /\ Pinned(r) # Unpinned
  BY <1>2 DEF Pinned, Unpinned
<1>6. leading[r] => /\ Pinned(r) = Len(log)
                    /\ stage[r] = 1
                    /\ frame[r] = FirstFrame(r)
  BY <1>1, <1>2 DEF RunInv, LeadingStage, Pinned
<1>7. /\ ResumeAt(r, slices) \in 0 .. Pinned(r)
      /\ IsSeq(ResumeFrom(r, slices).seen)
      /\ IsFold(ResumeFrom(r, slices), slices, frame[r], log,
                ResumeAt(r, slices))
  <2>1. CASE Resumes(r, slices)
    <3>1. leading[r] /\ carried[r].some /\ carried[r].slices = slices
      BY <2>1 DEF Resumes
    <3>2. /\ carried[r].through \in 0 .. Len(log)
          /\ IsSeq(carried[r].fold.seen)
          /\ IsFold(carried[r].fold, carried[r].slices, FirstFrame(r), log,
                    carried[r].through)
      BY <1>1, <3>1 DEF RunInv, Carrying, CarryOf
    <3> QED
      BY <1>6, <2>1, <3>1, <3>2 DEF ResumeAt, ResumeFrom
  <2>2. CASE ~Resumes(r, slices)
    BY <1>5, <2>2, FoldOfNone DEF ResumeAt, ResumeFrom
  <2> QED
    BY <2>1, <2>2
<1>8. /\ cursor'[r] \in ResumeAt(r, slices) .. Pinned(r)
      /\ acc'[r] = ResumeFrom(r, slices)
      /\ resolved'[r] = slices
      /\ after'[r] = Pinned(r)
      /\ pc'[r] = "fold"
  BY <1>1, <1>5, <1>7 DEF TypeOK, Domains
<1>9. IsFold(acc'[r], slices, frame[r], log, cursor'[r])
  <2>1. CASE Narrowing(slices) = {}
    <3>1. \A p \in ResumeAt(r, slices) .. Pinned(r) - 1 :
            ArmsAt(slices, log[p + 1]) = {}
      BY <2>1, UnreadUnfolded
    <3>2. cursor'[r] = Pinned(r)
      BY <1>1, <2>1 DEF TypeOK
    <3>3. /\ ResumeAt(r, slices) \in Nat /\ Pinned(r) \in Nat
          /\ ResumeAt(r, slices) <= Pinned(r)
      BY <1>5, <1>7
    <3>4. IsFold(ResumeFrom(r, slices), slices, frame[r], log,
                 ResumeAt(r, slices))
      BY <1>7
    <3> HIDE DEF slices
    <3>5. IsFold(ResumeFrom(r, slices), slices, frame[r], log, Pinned(r))
      BY <3>1, <3>3, <3>4, FoldSkips
    <3> QED
      BY <1>8, <3>2, <3>5
  <2>2. CASE Narrowing(slices) # {}
    <3>1. cursor'[r] = ResumeAt(r, slices)
      BY <1>1, <2>2 DEF TypeOK
    <3> QED
      BY <1>7, <1>8, <3>1
  <2> QED
    BY <2>1, <2>2
<1>10. leading[r] /\ carried[r].some => cursor'[r] >= carried[r].through
  <2> SUFFICES ASSUME leading[r], carried[r].some
               PROVE  cursor'[r] >= carried[r].through
    OBVIOUS
  <2>1. carried[r].slices = slices /\ carried[r].through \in 0 .. Len(log)
    BY <1>1, <1>6 DEF RunInv, Carrying, CarryOf
  <2> QED
    BY <1>5, <1>8, <2>1 DEF Resumes, ResumeAt
<1>11. TypeOK'
  <2>1. /\ pc' \in [Run -> {"idle", "pre", "open", "fold", "post", "settle",
                            "append", "done"}]
        /\ after' \in [Run -> {Unpinned} \cup 0 .. Len(log)]
    BY <1>1, <1>5 DEF TypeOK
  <2>2. cursor'[r] \in 0 .. Len(log)
    BY <1>2, <1>5, <1>7, <1>8
  <2>3. cursor' \in [Run -> 0 .. Len(log)]
    BY <1>1, <2>2 DEF TypeOK
  <2> QED
    BY <1>1, <2>1, <2>3 DEF TypeOK
<1>12. Domains'
  BY <1>1 DEF Domains
<1>13. RunInv(r)'
  <2>1. FirstFrame(r)' = FirstFrame(r)
    BY DEF FirstFrame
  <2>2. /\ Phases(r)' /\ Settled(r)'
    BY <1>1, <1>2, <1>8 DEF RunInv, Phases, Settled
  <2>3. LeadingStage(r)'
    BY <1>1, <1>2, <1>5, <1>6, <1>8, <2>1 DEF RunInv, LeadingStage
  <2>4. Carrying(r)'
    BY <1>1, <2>1 DEF RunInv, Carrying, CarryOf
  <2>5. Folding(r)'
    <3> HIDE DEF slices
    <3>1. resolved'[r] = Slices(request'[r], stage'[r], frame'[r])
      BY <1>8 DEF slices
    <3>2. IsSeq(acc'[r].seen)
      BY <1>7, <1>8
    <3>3. cursor'[r] <= after'[r] /\ after'[r] # Unpinned
      BY <1>5, <1>7, <1>8
    <3> QED
      BY <1>8, <1>9, <1>10, <3>1, <3>2, <3>3 DEF Folding
  <2>6. Trailing(r)'
    <3>1. CASE leading[r]
      BY <1>1, <3>1 DEF RunInv, Trailing, LeadingStage
    <3>2. CASE ~leading[r]
      <4>1. after'[r] = after[r]
        BY <1>1, <1>8, <3>2 DEF RunInv, LeadingStage, Pinned
      <4> QED
        BY <1>1, <4>1 DEF RunInv, Trailing
    <3> QED
      BY <3>1, <3>2
  <2>7. Paid(r)'
    BY <1>1, <1>2, <1>8 DEF RunInv, Paid, Pinned, Phases
  <2> QED
    BY <2>2, <2>3, <2>4, <2>5, <2>6, <2>7 DEF RunInv
<1> QED
  BY <1>3, <1>4, <1>11, <1>12, <1>13, StepOf

\* Visit: one more record of the pinned prefix, folded by what it matches.
LEMMA VisitInv ==
  ASSUME Inv, NEW r \in Run, Visit(r)
  PROVE  Inv'
PROOF
<1> DEFINE entry == Entry(resolved[r], cursor[r], log[cursor[r] + 1], frame[r])
<1> USE DEF Visit, ReadsTo, Onto
<1>1. TypeOK /\ Domains /\ RunInv(r)
  BY DEF Inv
<1>2. /\ pc[r] = "fold"
      /\ Len(log) \in Nat /\ cursor[r] \in 0 .. Len(log)
      /\ after[r] \in 0 .. Len(log)
      /\ cursor'[r] = cursor[r] + 1
      /\ cursor[r] < after[r]
      /\ IsSeq(acc[r].seen)
      /\ IsFold(acc[r], resolved[r], frame[r], log, cursor[r])
  BY <1>1 DEF RunInv, Folding, TypeOK
<1>3. LogGrows
  BY <1>1, LogUnchanged
<1>4. \A x \in Run \ {r} : Same(x)
  BY <1>1 DEF Same, TypeOK, Domains
<1>5. entry.arms = ArmsAt(resolved[r], log[cursor[r] + 1])
  BY DEF Entry
<1>6. cursor[r] \in Nat
  BY <1>2
<1>7. /\ IsSeq(acc'[r].seen)
      /\ IsFold(acc'[r], resolved[r], frame[r], log, cursor[r] + 1)
  <2>1. CASE entry.arms # {}
    <3>1. acc'[r] = [seed |-> acc[r].seed, seen |-> Append(acc[r].seen, entry)]
      BY <1>1, <2>1 DEF Domains
    <3>2. ArmsAt(resolved[r], log[cursor[r] + 1]) # {}
      BY <1>5, <2>1
    <3> DEFINE next == [seed |-> acc[r].seed, seen |-> Append(acc[r].seen, entry)]
    <3>3. /\ IsSeq(next.seen)
          /\ IsFold(next, resolved[r], frame[r], log, cursor[r] + 1)
      BY <1>2, <1>6, <3>2, FoldSteps
    <3> QED
      BY <3>1, <3>3
  <2>2. CASE entry.arms = {}
    <3>1. acc'[r] = acc[r]
      BY <2>2
    <3>2. ArmsAt(resolved[r], log[cursor[r] + 1]) = {}
      BY <1>5, <2>2
    <3> HIDE DEF entry
    <3>3. \A p \in cursor[r] .. (cursor[r] + 1) - 1 : p = cursor[r]
      BY <1>6
    <3>4. \A p \in cursor[r] .. (cursor[r] + 1) - 1 :
            ArmsAt(resolved[r], log[p + 1]) = {}
      BY <3>2, <3>3
    <3>5. cursor[r] + 1 \in Nat /\ cursor[r] <= cursor[r] + 1
      BY <1>6
    <3>6. IsFold(acc[r], resolved[r], frame[r], log, cursor[r] + 1)
      BY <1>2, <1>6, <3>4, <3>5, FoldSkips
    <3> QED
      BY <1>2, <3>1, <3>6
  <2> QED
    BY <2>1, <2>2
<1> HIDE DEF entry
<1>8. TypeOK'
  <2>1. cursor' \in [Run -> 0 .. Len(log)]
    BY <1>1, <1>2 DEF TypeOK
  <2> QED
    BY <1>1, <2>1 DEF TypeOK
<1>9. Domains'
  BY <1>1 DEF Domains
<1>10. RunInv(r)'
  <2>1. FirstFrame(r)' = FirstFrame(r)
    BY DEF FirstFrame
  <2>2. /\ Phases(r)' /\ Settled(r)' /\ LeadingStage(r)' /\ Paid(r)'
    BY <1>1, <1>2, <2>1
    DEF RunInv, Phases, Settled, LeadingStage, Paid
  <2>3. Carrying(r)' /\ Trailing(r)'
    BY <1>1, <2>1 DEF RunInv, Carrying, CarryOf, Trailing
  <2>4. leading[r] /\ carried[r].some => carried[r].through \in Nat
    BY <1>1 DEF RunInv, Carrying, CarryOf
  <2>5. Folding(r)'
    BY <1>1, <1>2, <1>7, <2>4 DEF RunInv, Folding
  <2> QED
    BY <2>2, <2>3, <2>5 DEF RunInv
<1> QED
  BY <1>3, <1>4, <1>8, <1>9, <1>10, StepOf

\* CloseFold: the fold is of the whole prefix, and the read covers it.
LEMMA CloseFoldInv ==
  ASSUME Inv, NEW r \in Run, CloseFold(r)
  PROVE  Inv'
PROOF
<1> DEFINE item == [slices |-> resolved[r], env |-> frame[r], fold |-> acc[r]]
<1> USE DEF CloseFold, ReadsTo, Reading
<1>1. TypeOK /\ Domains /\ RunInv(r)
  BY DEF Inv
<1>2. /\ pc[r] = "fold" /\ outcome[r] = "none"
      /\ Len(log) \in Nat
      /\ cursor[r] \in Nat /\ after[r] \in 0 .. Len(log)
      /\ cursor[r] = after[r] /\ after[r] # Unpinned
      /\ resolved[r] = Slices(request[r], stage[r], frame[r])
      /\ IsSeq(acc[r].seen)
      /\ IsFold(acc[r], resolved[r], frame[r], log, after[r])
  BY <1>1 DEF RunInv, Folding, TypeOK, Phases
<1>3. LogGrows
  BY <1>1, LogUnchanged
<1>4. \A x \in Run \ {r} : Same(x)
  BY <1>1 DEF Same, TypeOK, Domains
<1>5. /\ pc'[r] = "post" /\ leading'[r] = FALSE
      /\ folded'[r] = Leaving(r)
      /\ trail'[r] = Append(trail[r], item)
      /\ read'[r] = read[r] \cup Narrowing(resolved[r])
  BY <1>1 DEF TypeOK, Domains
<1>6. TypeOK'
  BY <1>1 DEF TypeOK
<1>7. Domains'
  BY <1>1 DEF Domains
<1>8. FirstFrame(r)' = FirstFrame(r)
  BY DEF FirstFrame
<1>9. leading[r] => stage[r] = 1 /\ frame[r] = FirstFrame(r)
  BY <1>1, <1>2 DEF RunInv, LeadingStage
<1>10. Leaving(r).some /\ CarryOf(r, Leaving(r))
  <2>1. CASE leading[r]
    BY <1>2, <1>9, <2>1 DEF Leaving, CarryOf
  <2>2. CASE ~leading[r]
    BY <1>1, <2>2 DEF RunInv, LeadingStage, Carrying, Leaving
  <2> QED
    BY <2>1, <2>2
<1>11. Phases(r)' /\ LeadingStage(r)' /\ Folding(r)' /\ Settled(r)' /\ Paid(r)'
  BY <1>1, <1>2, <1>5, <1>10
  DEF RunInv, Phases, LeadingStage, Folding, Settled, Paid
<1>12. Carrying(r)'
  <2>1. CarryOf(r, carried[r]) /\ CarryOf(r, Leaving(r))
    BY <1>1, <1>10 DEF RunInv, Carrying
  <2>2. ASSUME NEW c, CarryOf(r, c) PROVE CarryOf(r, c)'
    BY <1>8, <2>2 DEF CarryOf
  <2>3. /\ CarryOf(r, carried[r])' /\ CarryOf(r, folded[r])'
    BY <1>5, <1>8, <2>1 DEF CarryOf
  <2> QED
    BY <1>1, <2>3 DEF RunInv, Carrying
<1>13. Trailing(r)'
  <2> DEFINE k == Len(trail[r])
  <2>1. /\ IsSeq(trail'[r])
        /\ k \in Nat
        /\ DOMAIN trail[r] = 1 .. k
        /\ DOMAIN trail'[r] = 1 .. k + 1
        /\ \A i \in 1 .. k : trail'[r][i] = trail[r][i]
        /\ trail'[r][k + 1] = item
    BY <1>1, <1>5, AppendAny DEF RunInv, Trailing
  <2>2. IsFold(item.fold, item.slices, item.env, log, after[r])
    BY <1>2
  <2>3. item.slices = resolved[r]
    OBVIOUS
  <2> HIDE DEF item, k
  <2>4. \A i \in DOMAIN trail'[r] :
          IsFold(trail'[r][i].fold, trail'[r][i].slices, trail'[r][i].env,
                 log, after[r])
    <3> TAKE i \in DOMAIN trail'[r]
    <3>1. CASE i \in 1 .. k
      BY <1>1, <2>1, <3>1 DEF RunInv, Trailing
    <3>2. CASE i = k + 1
      BY <2>1, <2>2, <3>2
    <3> QED
      BY <2>1, <3>1, <3>2
  <2>5. \A i \in DOMAIN trail'[r] :
          Narrowing(trail'[r][i].slices) \subseteq read'[r]
    <3> TAKE i \in DOMAIN trail'[r]
    <3>1. CASE i \in 1 .. k
      BY <1>1, <1>5, <2>1, <3>1 DEF RunInv, Trailing
    <3>2. CASE i = k + 1
      BY <1>5, <2>1, <2>3, <3>2
    <3> QED
      BY <2>1, <3>1, <3>2
  <2>6. ASSUME NEW p \in read'[r]
        PROVE  \E i \in DOMAIN trail'[r] : p \in Narrowing(trail'[r][i].slices)
    <3>1. CASE p \in read[r]
      <4>1. PICK i \in 1 .. k : p \in Narrowing(trail[r][i].slices)
        BY <1>1, <2>1, <3>1 DEF RunInv, Trailing
      <4> QED
        BY <2>1, <4>1
    <3>2. CASE p \in Narrowing(resolved[r])
      BY <2>1, <2>3, <3>2
    <3> QED
      BY <1>5, <3>1, <3>2
  <2> QED
    BY <2>1, <2>4, <2>5, <2>6 DEF Trailing
<1>14. RunInv(r)'
  BY <1>11, <1>12, <1>13 DEF RunInv
<1> QED
  BY <1>3, <1>4, <1>6, <1>7, <1>14, StepOf

\* Settle: what is carried is what the leading stage folded, and the
\* condition names what every stage read.
LEMMA SettleInv ==
  ASSUME Inv, NEW r \in Run, Settle(r)
  PROVE  Inv'
PROOF
<1> USE DEF Settle, End
<1>1. TypeOK /\ Domains /\ RunInv(r)
  BY DEF Inv
<1>2. pc[r] = "settle" /\ outcome[r] = "none"
  BY <1>1 DEF RunInv, Phases
<1>3. LogGrows
  BY <1>1, LogUnchanged
<1>4. \A x \in Run \ {r} : Same(x)
  BY <1>1 DEF Same, TypeOK, Domains
<1>5. TypeOK'
  <2>1. ret[r] \in Outcomes
    BY <1>1 DEF TypeOK, Outcomes
  <2>2. outcome' \in [Run -> Outcomes]
    BY <1>1, <2>1 DEF TypeOK
  <2>3. pc' \in [Run -> {"idle", "pre", "open", "fold", "post", "settle",
                         "append", "done"}]
    BY <1>1 DEF TypeOK
  <2> QED
    BY <1>1, <2>2, <2>3 DEF TypeOK
<1>6. Domains'
  BY <1>1 DEF Domains
<1>7. FirstFrame(r)' = FirstFrame(r)
  BY DEF FirstFrame
<1>8. /\ carried'[r] = Carries(r)
      /\ condition'[r].after = IF after[r] = Unpinned THEN 0 ELSE after[r]
      /\ condition'[r].slices = read[r]
  BY <1>1 DEF Domains
<1>9. \/ pc'[r] = "append" /\ outcome'[r] = "none"
      \/ pc'[r] = "done" /\ outcome'[r] = ret[r]
  BY <1>1, <1>2 DEF TypeOK
<1>10. CarryOf(r, Carries(r))
  BY <1>1 DEF RunInv, Carrying, Carries
<1>11. folded[r].some \/ carried[r].some => Carries(r).some
  BY DEF Carries
<1>12. /\ Phases(r)' /\ LeadingStage(r)' /\ Folding(r)' /\ Settled(r)'
       /\ Paid(r)'
  BY <1>1, <1>2, <1>7, <1>8, <1>9, <1>11
  DEF RunInv, Phases, LeadingStage, Folding, Settled, Paid
<1>13. Carrying(r)'
  <2>1. CarryOf(r, carried[r])' /\ CarryOf(r, folded[r])'
    BY <1>1, <1>7, <1>8, <1>10 DEF RunInv, Carrying, CarryOf
  <2> QED
    BY <1>1, <1>8, <1>11, <2>1 DEF RunInv, Carrying
<1>14. Trailing(r)'
  BY <1>1 DEF RunInv, Trailing
<1>15. RunInv(r)'
  BY <1>12, <1>13, <1>14 DEF RunInv
<1> QED
  BY <1>3, <1>4, <1>5, <1>6, <1>15, StepOf

\* AppendEvents: the log grows by what was emitted, under every fold.
LEMMA AppendEventsInv ==
  ASSUME Inv, NEW r \in Run, AppendEvents(r)
  PROVE  Inv'
PROOF
<1> USE DEF AppendEvents, End
<1>1. TypeOK /\ Domains /\ RunInv(r)
  BY DEF Inv
<1>2. log \in Seq(Event) /\ emitted[r] \in Seq(Event)
  BY <1>1 DEF TypeOK
<1>3. LogGrows
  BY <1>2 DEF LogGrows, Extends
<1>4. \A x \in Run \ {r} : Same(x)
  BY <1>1 DEF Same, TypeOK, Domains
<1>5. Len(log) \in Nat /\ Len(log') \in Nat /\ Len(log) <= Len(log')
  BY <1>2, <1>3 DEF LogGrows, Extends
<1>6. TypeOK'
  <2>1. /\ after \in [Run -> {Unpinned} \cup 0 .. Len(log')]
        /\ cursor \in [Run -> 0 .. Len(log')]
    BY <1>1, <1>5 DEF TypeOK
  <2>2. /\ pc' \in [Run -> {"idle", "pre", "open", "fold", "post", "settle",
                            "append", "done"}]
        /\ outcome' \in [Run -> Outcomes]
    BY <1>1 DEF TypeOK, Outcomes
  <2> QED
    BY <1>1, <1>3, <2>1, <2>2 DEF TypeOK, LogGrows
<1>7. Domains'
  BY <1>1 DEF Domains
<1>8. pc[r] = "append" /\ pc'[r] = "done" /\ outcome'[r] = "ok"
  BY <1>1 DEF TypeOK
<1>9. /\ Phases(r)' /\ LeadingStage(r)' /\ Folding(r)' /\ Settled(r)'
      /\ Paid(r)'
  BY <1>1, <1>5, <1>8
  DEF TypeOK, RunInv, Phases, LeadingStage, Folding, Settled, Paid
<1>10. Carrying(r)' /\ Trailing(r)'
  BY <1>1, <1>3, FoldsKept
<1>11. RunInv(r)'
  BY <1>9, <1>10 DEF RunInv
<1> QED
  BY <1>3, <1>4, <1>6, <1>7, <1>11, StepOf

\* What beat a run landed at or past the head it read, in a slice it read.
LEMMA BeatenBy ==
  ASSUME Inv, NEW r \in Run, pc[r] = "append", Conflicts(condition[r], log)
  PROVE  /\ ~leading[r] /\ after[r] \in 0 .. Len(log) /\ after[r] < Len(log)
         /\ \E i \in DOMAIN trail[r] : \E p \in after[r] .. Len(log) - 1 :
              ArmsAt(trail[r][i].slices, log[p + 1]) # {}
PROOF
<1>1. TypeOK /\ RunInv(r)
  BY DEF Inv
<1>2. PICK j \in DOMAIN log :
        /\ j - 1 >= condition[r].after
        /\ \E p \in condition[r].slices : Holds(p, log[j])
  BY DEF Conflicts
<1>3. PICK p \in read[r] : Holds(p, log[j])
  BY <1>1, <1>2 DEF RunInv, Settled
<1>4. PICK i \in DOMAIN trail[r] : p \in Narrowing(trail[r][i].slices)
  BY <1>1 DEF RunInv, Trailing
<1>5. ~leading[r] /\ after[r] # Unpinned
  BY <1>1, <1>4 DEF RunInv, LeadingStage
<1>6. Len(log) \in Nat /\ after[r] \in 0 .. Len(log) /\ j \in 1 .. Len(log)
  BY <1>1, <1>5 DEF TypeOK
<1>7. j - 1 >= after[r]
  BY <1>1, <1>2, <1>5 DEF RunInv, Settled
<1>8. ArmsAt(trail[r][i].slices, log[(j - 1) + 1]) # {}
  <2>1. (j - 1) + 1 = j
    BY <1>6
  <2> QED
    BY <2>1, <1>3, <1>4, ReadFolded
<1>9. j - 1 \in after[r] .. Len(log) - 1
  BY <1>6, <1>7
<1>10. \E k \in DOMAIN trail[r] : \E q \in after[r] .. Len(log) - 1 :
         ArmsAt(trail[r][k].slices, log[q + 1]) # {}
  <2> WITNESS i \in DOMAIN trail[r]
  <2> WITNESS j - 1 \in after[r] .. Len(log) - 1
  <2> QED
    BY <1>8
<1>11. after[r] < Len(log)
  BY <1>6, <1>7
<1> QED
  BY <1>5, <1>6, <1>10, <1>11

\* Retry: the attempt is lost to a record at or past the head it read, and
\* the next one starts from the frame the run prepared.
LEMMA RetryInv ==
  ASSUME Inv, NEW r \in Run, Retry(r)
  PROVE  Inv'
PROOF
<1> USE DEF Retry, FreshAttempt, Restart
<1>1. TypeOK /\ Domains /\ RunInv(r)
  BY DEF Inv
<1>2. /\ pc[r] = "append" /\ outcome[r] = "none"
      /\ request[r] \in Request /\ Len(log) \in Nat /\ attempt[r] \in Nat
      /\ prepared[r].now \in 0 .. Len(log)
  BY <1>1 DEF RunInv, Phases, TypeOK
<1>3. ~leading[r] /\ after[r] \in 0 .. Len(log) /\ after[r] < Len(log)
  BY <1>2, BeatenBy
<1>4. LogGrows
  BY <1>1, LogUnchanged
<1>5. \A x \in Run \ {r} : Same(x)
  BY <1>1 DEF Same, TypeOK, Domains
<1>6. 1 \in 1 .. Stages(request[r])
  BY <1>2, StagesAssumption
<1>7. TypeOK'
  <2>1. /\ stage' \in [Run -> Nat]
        /\ \A x \in Run : stage'[x] \in 1 .. Stages(request'[x])
    BY <1>1, <1>6 DEF TypeOK
  <2>2. /\ pc' \in [Run -> {"idle", "pre", "open", "fold", "post", "settle",
                            "append", "done"}]
        /\ after' \in [Run -> {Unpinned} \cup 0 .. Len(log')]
        /\ emitted' \in [Run -> Seq(Event)]
        /\ ret' \in [Run -> {"ok", "invalid", "reject"}]
        /\ leading' \in [Run -> BOOLEAN]
        /\ attempt' \in [Run -> Nat]
    BY <1>1 DEF TypeOK
  <2> QED
    BY <1>1, <2>1, <2>2 DEF TypeOK
<1>8. Domains'
  BY <1>1 DEF Domains
<1>9. /\ frame'[r] = prepared[r] /\ pc'[r] = "pre"
      /\ stage'[r] = 1 /\ after'[r] = Unpinned /\ read'[r] = {}
      /\ leading'[r] = TRUE /\ folded'[r] = NoCarry /\ trail'[r] = <<>>
      /\ attempt'[r] = attempt[r] + 1
  BY <1>1 DEF TypeOK, Domains
<1>10. ~folded'[r].some
  BY <1>9 DEF NoCarry
<1>11. FirstFrame(r)' = FirstFrame(r)
  BY DEF FirstFrame
<1>12. attempt[r] <= after[r] - prepared[r].now
  BY <1>1, <1>2, <1>3 DEF RunInv, Paid, Unpinned
<1>13. Paid(r)'
  BY <1>2, <1>3, <1>9, <1>12 DEF Paid
<1>14. Phases(r)' /\ LeadingStage(r)' /\ Folding(r)' /\ Settled(r)'
  BY <1>1, <1>2, <1>9, <1>10
  DEF RunInv, Phases, LeadingStage, Folding, Settled
<1>15. Carrying(r)'
  <2>1. carried[r].some
    BY <1>1, <1>2, <1>3 DEF RunInv, Settled
  <2>2. CarryOf(r, carried[r])'
    BY <1>1, <1>11 DEF RunInv, Carrying, CarryOf
  <2>3. CarryOf(r, folded[r])'
    BY <1>10 DEF CarryOf
  <2> QED
    BY <2>1, <2>2, <2>3 DEF Carrying
<1>16. Trailing(r)'
  <2>1. IsSeq(<<>>)
    BY DEF IsSeq
  <2> QED
    BY <1>9, <2>1 DEF Trailing
<1>17. RunInv(r)'
  BY <1>13, <1>14, <1>15, <1>16 DEF RunInv
<1> QED
  BY <1>4, <1>5, <1>7, <1>8, <1>17, StepOf

\* The run ends and nothing else moves.
LEMMA EndInv ==
  ASSUME Inv, NEW r \in Run, NEW how \in {"conflict", "error"}, End(r, how),
         pc[r] # "idle",
         UNCHANGED <<log, request, attempt, prepared, frame, stage, after,
                     resolved, cursor, acc, read, emitted, ret, leading,
                     folded, carried, condition, trail>>
  PROVE  Inv'
PROOF
<1> USE DEF End
<1>1. TypeOK /\ Domains /\ RunInv(r)
  BY DEF Inv
<1>2. LogGrows
  BY <1>1, LogUnchanged
<1>3. \A x \in Run \ {r} : Same(x)
  BY <1>1 DEF Same, TypeOK, Domains
<1>4. TypeOK'
  <2>1. outcome' \in [Run -> Outcomes]
    BY <1>1 DEF TypeOK, Outcomes
  <2>2. pc' \in [Run -> {"idle", "pre", "open", "fold", "post", "settle",
                         "append", "done"}]
    BY <1>1 DEF TypeOK
  <2> QED
    BY <1>1, <2>1, <2>2 DEF TypeOK
<1>5. Domains'
  BY <1>1 DEF Domains
<1>6. pc'[r] = "done" /\ outcome'[r] = how
  BY <1>1 DEF TypeOK
<1>7. /\ Phases(r)' /\ LeadingStage(r)' /\ Folding(r)' /\ Settled(r)'
      /\ Paid(r)'
  BY <1>1, <1>6 DEF RunInv, Phases, LeadingStage, Folding, Settled, Paid
<1>8. Carrying(r)' /\ Trailing(r)'
  BY <1>1, <1>2, FoldsKept
<1>9. RunInv(r)'
  BY <1>7, <1>8 DEF RunInv
<1> QED
  BY <1>2, <1>3, <1>4, <1>5, <1>9, StepOf

\* External: a record of another writer extends the log under every fold.
LEMMA ExternalInv ==
  ASSUME Inv, External
  PROVE  Inv'
PROOF
<1> USE DEF External
<1>1. TypeOK /\ Domains
  BY DEF Inv
<1>2. PICK e \in Foreign : log' = Append(log, e)
  OBVIOUS
<1>3. e \in Event /\ log \in Seq(Event)
  BY <1>1, BoundsAssumption DEF TypeOK
<1>4. LogGrows
  BY <1>2, <1>3 DEF LogGrows, Extends
<1>5. TypeOK'
  <2>1. Len(log) \in Nat /\ Len(log') \in Nat /\ Len(log) <= Len(log')
    BY <1>3, <1>4 DEF LogGrows, Extends
  <2>2. /\ after \in [Run -> {Unpinned} \cup 0 .. Len(log')]
        /\ cursor \in [Run -> 0 .. Len(log')]
    BY <1>1, <2>1 DEF TypeOK
  <2> QED
    BY <1>1, <1>4, <2>2 DEF TypeOK, LogGrows
<1>6. Domains'
  BY <1>1 DEF Domains
<1>7. \A x \in Run : Same(x)
  BY DEF Same
<1>8. \A x \in Run : RunInv(x)'
  BY <1>4, <1>7, OtherRun DEF Inv
<1> QED
  BY <1>5, <1>6, <1>8 DEF Inv

\* A step that changes nothing keeps the invariant.
LEMMA StutterInv ==
  ASSUME Inv, UNCHANGED vars
  PROVE  Inv'
PROOF
<1>1. TypeOK /\ Domains
  BY DEF Inv
<1>2. TypeOK' /\ Domains'
  BY <1>1 DEF TypeOK, Domains, vars
<1>3. LogGrows
  BY <1>1, LogUnchanged DEF vars
<1>4. \A x \in Run : Same(x)
  BY DEF Same, vars
<1>5. \A x \in Run : RunInv(x)'
  BY <1>3, <1>4, OtherRun DEF Inv
<1> QED
  BY <1>2, <1>5 DEF Inv

\* Every step keeps the invariant, action by action.
LEMMA NextInv == Inv /\ [Next]_vars => Inv'
PROOF
<1> SUFFICES ASSUME Inv, [Next]_vars PROVE Inv'
  OBVIOUS
<1>1. ASSUME NEW r \in Run, Begin(r) PROVE Inv'
  BY <1>1, BeginInv
<1>2. ASSUME NEW r \in Run, RunPre(r) PROVE Inv'
  BY <1>2, RunPreInv
<1>3. ASSUME NEW r \in Run, OpenFold(r) PROVE Inv'
  BY <1>3, OpenFoldInv
<1>4. ASSUME NEW r \in Run, Visit(r) PROVE Inv'
  BY <1>4, VisitInv
<1>5. ASSUME NEW r \in Run, CloseFold(r) PROVE Inv'
  BY <1>5, CloseFoldInv
<1>6. ASSUME NEW r \in Run, RunPost(r) PROVE Inv'
  BY <1>6, RunPostInv
<1>7. ASSUME NEW r \in Run, Settle(r) PROVE Inv'
  BY <1>7, SettleInv
<1>8. ASSUME NEW r \in Run, AppendEvents(r) PROVE Inv'
  BY <1>8, AppendEventsInv
<1>9. ASSUME NEW r \in Run, Retry(r) PROVE Inv'
  BY <1>9, RetryInv
<1>10. ASSUME NEW r \in Run, GiveUp(r) PROVE Inv'
  BY <1>10, EndInv DEF GiveUp
<1>11. ASSUME NEW r \in Run, Fails(r) PROVE Inv'
  BY <1>11, EndInv DEF Fails
<1>12. CASE External
  BY <1>12, ExternalInv
<1>13. CASE UNCHANGED vars
  BY <1>13, StutterInv
<1> QED
  BY <1>1, <1>2, <1>3, <1>4, <1>5, <1>6, <1>7, <1>8, <1>9, <1>10, <1>11,
     <1>12, <1>13
  DEF Next, Step

-----------------------------------------------------------------------------
(* The theorems.                                                           *)

\* The invariant holds of every reachable state.
LEMMA Invariance == Spec => []Inv
PROOF
<1>1. Init => Inv
  BY InitInv
<1>2. Inv /\ [Next]_vars => Inv'
  BY NextInv
<1> QED
  BY <1>1, <1>2, PTL DEF Spec

\* Whatever the program, `execute` keeps its state within what it declares:
\* the stage within the command's, positions within the log.
THEOREM TypeCorrect == Spec => []TypeOK
PROOF
<1>1. Inv => TypeOK
  BY DEF Inv
<1> QED
  BY <1>1, Invariance, PTL

\* A retry may take up the carry: it is the first stage's fold of the
\* records below its mark, for every program and every interleaving.
THEOREM CarryIsSound == Spec => []CarrySound
PROOF
<1>1. ASSUME Inv PROVE CarrySound
  <2> SUFFICES ASSUME NEW r \in Run, carried[r].some
               PROVE  /\ carried[r].through <= Len(log)
                      /\ IsFold(carried[r].fold, carried[r].slices,
                                Pre(request[r], 1, prepared[r]).frame, log,
                                carried[r].through)
    BY DEF CarrySound
  <2>1. CarryOf(r, carried[r]) /\ Len(log) \in Nat
    BY <1>1 DEF Inv, RunInv, Carrying, TypeOK
  <2> QED
    BY <2>1 DEF CarryOf, FirstFrame
<1> QED
  BY <1>1, Invariance, PTL

\* Every stage of an attempt folded the prefix the first one pinned.
THEOREM StagesReadOnePrefix == Spec => []OnePrefix
PROOF
<1>1. Inv => OnePrefix
  BY DEF Inv, RunInv, Trailing, OnePrefix
<1> QED
  BY <1>1, Invariance, PTL

\* A run loses no attempt but to a record that landed since it began.
THEOREM RetriesPaid == Spec => []RetriesArePaidFor
PROOF
<1>1. Inv => RetriesArePaidFor
  BY DEF Inv, RunInv, Paid, RetriesArePaidFor
<1> QED
  BY <1>1, Invariance, PTL

\* A retry always resumes: the first stage's slices cannot have moved, so
\* the comparison in `execute` never sends it back to the seed.
THEOREM RetriesResume == Spec => []RetryReadsTheDelta
PROOF
<1>1. ASSUME Inv PROVE RetryReadsTheDelta
  <2> SUFFICES ASSUME NEW r \in Run, pc[r] = "fold", attempt[r] > 0, leading[r]
               PROVE  carried[r].some /\ cursor[r] >= carried[r].through
    BY DEF RetryReadsTheDelta
  <2>1. Carrying(r) /\ Folding(r)
    BY <1>1 DEF Inv, RunInv
  <2> QED
    BY <2>1 DEF Carrying, Folding
<1> QED
  BY <1>1, Invariance, PTL

\* Only the append of r itself answers it with a commit.
LEMMA CommitIsAppend ==
  ASSUME Inv, [Next]_vars, NEW r \in Run,
         outcome[r] = "none", outcome'[r] = "ok"
  PROVE  AppendEvents(r)
PROOF
<1>1. outcome \in [Run -> Outcomes]
  BY DEF Inv, TypeOK
<1>2. outcome'[r] # outcome[r]
  OBVIOUS
<1>3. ASSUME NEW x \in Run, Begin(x) PROVE FALSE
  BY <1>1, <1>3 DEF Begin, End
<1>4. ASSUME NEW x \in Run, RunPre(x) \/ RunPost(x) PROVE FALSE
  BY <1>1, <1>4 DEF RunPre, RunPost, RunHalf, End
<1>5. ASSUME NEW x \in Run, OpenFold(x) \/ Visit(x) \/ CloseFold(x) \/ Retry(x)
      PROVE  FALSE
  BY <1>2, <1>5 DEF OpenFold, Visit, CloseFold, Retry
<1>6. ASSUME NEW x \in Run, Settle(x) PROVE FALSE
  BY <1>1, <1>6 DEF Settle, End
<1>7. ASSUME NEW x \in Run, GiveUp(x) \/ Fails(x) PROVE FALSE
  BY <1>1, <1>7 DEF GiveUp, Fails, End
<1>8. ASSUME NEW x \in Run, AppendEvents(x) PROVE AppendEvents(r)
  BY <1>1, <1>2, <1>8 DEF AppendEvents, End
<1>9. ~External /\ ~UNCHANGED vars
  BY <1>2 DEF External, vars
<1> QED
  BY <1>3, <1>4, <1>5, <1>6, <1>7, <1>8, <1>9 DEF Next, Step

\* An unbeaten attempt's folds are folds of the whole log: the condition it
\* is checked against covers every one of them.
LEMMA UnbeatenFoldsAll ==
  ASSUME Inv, NEW r \in Run, pc[r] = "append", ~Conflicts(condition[r], log),
         NEW i \in DOMAIN trail[r]
  PROVE  IsFold(trail[r][i].fold, trail[r][i].slices, trail[r][i].env, log,
                Len(log))
PROOF
<1>1. TypeOK /\ RunInv(r)
  BY DEF Inv
<1>2. ~leading[r] /\ after[r] # Unpinned
  BY <1>1 DEF RunInv, LeadingStage
<1>3. after[r] \in Nat /\ Len(log) \in Nat /\ after[r] <= Len(log)
  BY <1>1, <1>2 DEF TypeOK
<1>4. condition[r].after = after[r] /\ condition[r].slices = read[r]
  BY <1>1, <1>2 DEF RunInv, Settled
<1>5. ASSUME NEW p \in after[r] .. Len(log) - 1
      PROVE  ArmsAt(trail[r][i].slices, log[p + 1]) = {}
  <2>1. p + 1 \in DOMAIN log /\ (p + 1) - 1 >= after[r]
    BY <1>1, <1>3 DEF TypeOK
  <2>2. \A x \in read[r] : ~Holds(x, log[p + 1])
    BY <1>4, <2>1 DEF Conflicts
  <2>3. Narrowing(trail[r][i].slices) \subseteq read[r]
    BY <1>1 DEF RunInv, Trailing
  <2> QED
    BY <2>2, <2>3, UnreadUnfolded
<1>6. IsFold(trail[r][i].fold, trail[r][i].slices, trail[r][i].env, log,
             after[r])
  BY <1>1 DEF RunInv, Trailing
<1> QED
  BY <1>3, <1>5, <1>6, FoldSkips

\* A commit decided on the log it appends to, whatever landed while the
\* stages read.
THEOREM CommitsDecideCurrently == Spec => CommitsAreCurrent
PROOF
<1>1. ASSUME Inv, [Next]_vars, NEW r \in Run PROVE DecidedOnTheWholeLog(r)
  <2> SUFFICES ASSUME outcome[r] = "none", outcome'[r] = "ok"
               PROVE  /\ \A i \in DOMAIN trail[r] :
                           IsFold(trail[r][i].fold, trail[r][i].slices,
                                  trail[r][i].env, log, Len(log))
                      /\ log' = log \o emitted[r]
    BY DEF DecidedOnTheWholeLog
  <2>1. AppendEvents(r)
    BY <1>1, CommitIsAppend
  <2> QED
    BY <1>1, <2>1, UnbeatenFoldsAll DEF AppendEvents
<1>2. Inv /\ [Next]_vars => [\A r \in Run : DecidedOnTheWholeLog(r)]_vars
  BY <1>1
<1> QED
  BY <1>2, Invariance, PTL DEF Spec, CommitsAreCurrent

\* Only a conflict of r itself retries it or answers it with a conflict.
LEMMA BeatenIsConflict ==
  ASSUME Inv, [Next]_vars, NEW r \in Run,
         \/ attempt'[r] # attempt[r]
         \/ outcome[r] = "none" /\ outcome'[r] = "conflict"
  PROVE  pc[r] = "append" /\ Conflicts(condition[r], log)
PROOF
<1>1. outcome \in [Run -> Outcomes] /\ attempt \in [Run -> Nat]
      /\ ret \in [Run -> {"ok", "invalid", "reject"}]
  BY DEF Inv, TypeOK
<1>2. ASSUME NEW x \in Run, Begin(x) PROVE FALSE
  BY <1>1, <1>2 DEF Begin, End
<1>3. ASSUME NEW x \in Run, RunPre(x) \/ RunPost(x) PROVE FALSE
  BY <1>1, <1>3 DEF RunPre, RunPost, RunHalf, End
<1>4. ASSUME NEW x \in Run, OpenFold(x) \/ Visit(x) \/ CloseFold(x)
      PROVE  FALSE
  BY <1>4 DEF OpenFold, Visit, CloseFold
<1>5. ASSUME NEW x \in Run, Settle(x) PROVE FALSE
  BY <1>1, <1>5 DEF Settle, End
<1>6. ASSUME NEW x \in Run, Fails(x) \/ AppendEvents(x) PROVE FALSE
  BY <1>1, <1>6 DEF Fails, AppendEvents, End
<1>7. ASSUME NEW x \in Run, Retry(x) \/ GiveUp(x)
      PROVE  pc[r] = "append" /\ Conflicts(condition[r], log)
  <2>1. x = r
    BY <1>1, <1>7 DEF Retry, GiveUp, End
  <2> QED
    BY <1>7, <2>1 DEF Retry, GiveUp
<1>8. ~External /\ ~UNCHANGED vars
  BY DEF External, vars
<1> QED
  BY <1>2, <1>3, <1>4, <1>5, <1>6, <1>7, <1>8 DEF Next, Step

\* A run is beaten only by a record that one of its folds would have folded:
\* a gated slice and a stage never reached lose nothing.
THEOREM ConflictsAreEarned == Spec => ConflictsAreHonest
PROOF
<1>1. ASSUME Inv, [Next]_vars, NEW r \in Run PROVE BeatenByWhatItFolds(r)
  <2> SUFFICES ASSUME \/ attempt'[r] # attempt[r]
                      \/ outcome[r] = "none" /\ outcome'[r] = "conflict"
               PROVE  \E i \in DOMAIN trail[r] :
                        \E p \in after[r] .. Len(log) - 1 :
                          ArmsAt(trail[r][i].slices, log[p + 1]) # {}
    BY DEF BeatenByWhatItFolds
  <2>1. pc[r] = "append" /\ Conflicts(condition[r], log)
    BY <1>1, BeatenIsConflict
  <2> QED
    BY <1>1, <2>1, BeatenBy
<1>2. Inv /\ [Next]_vars => [\A r \in Run : BeatenByWhatItFolds(r)]_vars
  BY <1>1
<1> QED
  BY <1>2, Invariance, PTL DEF Spec, ConflictsAreHonest
=============================================================================
