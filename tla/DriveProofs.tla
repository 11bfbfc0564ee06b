----------------------------- MODULE DriveProofs -----------------------------
(***************************************************************************)
(* The theorems of Drive, for every effect, every log and every cascade.   *)
(* The invariant, Inv, keeps the collapse set what it was computed to be,  *)
(* in terms of the log as it stands: the log only grows, and the set only  *)
(* speaks of the backlog.  A walk that came to its end met no unreadable   *)
(* key, so the scan that computed the set met none either.                 *)
(***************************************************************************)
EXTENDS Drive, WellFoundedInduction, NaturalsInduction, SequenceTheorems,
        TLAPS

\* No unreadable key in a lane up to p, at which the scan would have ended.
Reached(p) == \A r \in 0 .. p : InLane(log, r) => Readable(log[r + 1])

\* What the scan of the backlog came to.
CollapsedOfBacklog ==
  \A p \in 0 .. start - 1 :
    p \in collapsed <=>
      /\ Reached(p)
      /\ \E q \in p + 1 .. start - 1 : Reached(q) /\ SameLane(log, p, q)

\* What the walk has behind it.
Behind ==
  /\ \A p \in 0 .. Len(log) - 1 :
       /\ came[p + 1] = "collapsed" <=> p < position /\ p \in collapsed
       /\ came[p + 1] = "pending" <=> p >= position
  /\ \A p \in 0 .. position - 1 : InLane(log, p) => Readable(log[p + 1])
  /\ ended = "walked" => position = Len(log)

Inv == TypeOK /\ CollapsedOfBacklog /\ Behind

-----------------------------------------------------------------------------
(* Sequences.                                                              *)

\* A list of one value, as long as is asked.
LEMMA EachIs ==
  ASSUME NEW n \in Nat, NEW S, NEW x \in S
  PROVE  /\ Each(n, x) \in Seq(S)
         /\ Len(Each(n, x)) = n
         /\ \A i \in 1 .. n : Each(n, x)[i] = x
PROOF BY DEF Each

\* An appended list leaves what was there.
LEMMA Appended ==
  ASSUME NEW S, NEW s \in Seq(S), NEW t \in Seq(S)
  PROVE  /\ s \o t \in Seq(S)
         /\ Len(s \o t) = Len(s) + Len(t)
         /\ \A i \in 1 .. Len(s) : (s \o t)[i] = s[i]
         /\ \A i \in Len(s) + 1 .. Len(s) + Len(t) :
              (s \o t)[i] = t[i - Len(s)]
PROOF OBVIOUS

\* A list lengthened by one value, by position.
LEMMA Lengthened ==
  ASSUME NEW S, NEW s \in Seq(S), NEW n \in Nat, NEW x \in S
  PROVE  /\ s \o Each(n, x) \in Seq(S)
         /\ Len(s \o Each(n, x)) = Len(s) + n
         /\ \A p \in 0 .. Len(s) - 1 : (s \o Each(n, x))[p + 1] = s[p + 1]
         /\ \A p \in Len(s) .. Len(s) + n - 1 : (s \o Each(n, x))[p + 1] = x
PROOF
<1> DEFINE t == Each(n, x)
<1>1. t \in Seq(S) /\ Len(t) = n /\ \A i \in 1 .. n : t[i] = x
  BY EachIs
<1> HIDE DEF t
<1>2. /\ s \o t \in Seq(S)
      /\ Len(s \o t) = Len(s) + n
      /\ \A i \in 1 .. Len(s) : (s \o t)[i] = s[i]
      /\ \A i \in Len(s) + 1 .. Len(s) + n : (s \o t)[i] = t[i - Len(s)]
  BY <1>1, Appended
<1>3. Len(s) \in Nat
  OBVIOUS
<1>4. \A p \in 0 .. Len(s) - 1 : (s \o t)[p + 1] = s[p + 1]
  BY <1>2, <1>3
<1>5. \A p \in Len(s) .. Len(s) + n - 1 : (s \o t)[p + 1] = x
  <2> TAKE p \in Len(s) .. Len(s) + n - 1
  <2>1. /\ p + 1 \in Len(s) + 1 .. Len(s) + n
        /\ (p + 1) - Len(s) \in 1 .. n
    BY <1>3
  <2> QED
    BY <1>1, <1>2, <2>1
<1>6. /\ s \o t \in Seq(S)
      /\ Len(s \o t) = Len(s) + n
      /\ \A p \in 0 .. Len(s) - 1 : (s \o t)[p + 1] = s[p + 1]
      /\ \A p \in Len(s) .. Len(s) + n - 1 : (s \o t)[p + 1] = x
  BY <1>2, <1>4, <1>5
<1> QED
  BY <1>6 DEF t

-----------------------------------------------------------------------------
(* The steps.                                                              *)

\* The scan's answer in the terms of the invariant.
LEMMA InitInv == Init => Inv
PROOF
<1> SUFFICES ASSUME Init PROVE Inv
  OBVIOUS
<1>1. log \in Seq(Event) /\ start = Len(log) /\ start \in Nat
  BY DriveAssumption DEF Init
<1>2. TypeOK
  <2>1. steps \in Seq(Nat) /\ Len(steps) = Len(log)
    BY <1>1, EachIs DEF Init
  <2>2. came \in Seq(Kinds \cup {"pending"}) /\ Len(came) = Len(log)
    BY <1>1, EachIs DEF Init
  <2>3. cause \in Seq(Int) /\ Len(cause) = Len(log)
    BY <1>1, EachIs, Backlog \in Int DEF Init, Backlog
  <2>4. collapsed \subseteq 0 .. start - 1
    BY <1>1 DEF Init, Collapsed, Scanned
  <2> QED
    BY <1>1, <2>1, <2>2, <2>3, <2>4 DEF Init, TypeOK
<1>3. \A p \in 0 .. start - 1 : p \in Scanned(log) <=> Reached(p)
  BY <1>1 DEF Scanned, Reached
<1>4. CollapsedOfBacklog
  <2>1. \A p : p \in Scanned(log) => p \in 0 .. start - 1
    BY <1>1 DEF Scanned
  <2>2. collapsed = Collapsed(log)
    BY DEF Init
  <2> SUFFICES ASSUME NEW p \in 0 .. start - 1
               PROVE  p \in Collapsed(log) <=>
                        /\ Reached(p)
                        /\ \E q \in p + 1 .. start - 1 :
                             Reached(q) /\ SameLane(log, p, q)
    BY <2>2 DEF CollapsedOfBacklog
  <2>3. \A q \in 0 .. start - 1 : p < q <=> q \in p + 1 .. start - 1
    BY <1>1
  <2>4. \A q \in p + 1 .. start - 1 : q \in 0 .. start - 1
    BY <1>1
  <2> QED
    BY <1>3, <2>1, <2>3, <2>4 DEF Collapsed
<1>5. Behind
  <2>1. \A p \in 0 .. Len(log) - 1 : came[p + 1] = "pending" /\ p >= 0
    <3> TAKE p \in 0 .. Len(log) - 1
    <3>1. p + 1 \in 1 .. Len(log) /\ p >= 0
      BY <1>1
    <3> QED
      BY <3>1 DEF Init, Each
  <2> QED
    BY <1>1, <2>1 DEF Init, Behind
<1> QED
  BY <1>2, <1>4, <1>5 DEF Inv

\* What is said of the backlog is not changed by records after it.
LEMMA BacklogKept ==
  ASSUME TypeOK, CollapsedOfBacklog, UNCHANGED <<start, collapsed>>,
         NEW events \in Seq(Event), log' = log \o events
  PROVE  /\ CollapsedOfBacklog'
         /\ \A p \in 0 .. Len(log) - 1 :
              log'[p + 1] = log[p + 1] /\ (InLane(log, p)' <=> InLane(log, p))
PROOF
<1>1. \A i \in 1 .. Len(log) : log'[i] = log[i]
  BY Appended DEF TypeOK
<1>2. \A p \in 0 .. Len(log) - 1 : log'[p + 1] = log[p + 1]
  BY <1>1 DEF TypeOK
<1>3. \A p \in 0 .. Len(log) - 1 : InLane(log, p)' <=> InLane(log, p)
  BY <1>2 DEF InLane
<1>4. \A p \in 0 .. Len(log) - 1 : Reached(p)' <=> Reached(p)
  <2> TAKE p \in 0 .. Len(log) - 1
  <2>1. \A r \in 0 .. p : r \in 0 .. Len(log) - 1
    BY DEF TypeOK
  <2> QED
    BY <1>2, <1>3, <2>1 DEF Reached
<1>5. \A p, q \in 0 .. Len(log) - 1 :
        SameLane(log, p, q)' <=> SameLane(log, p, q)
  BY <1>2, <1>3 DEF SameLane
<1>6. \A p \in 0 .. start - 1 :
        /\ p \in 0 .. Len(log) - 1
        /\ \A q \in p + 1 .. start - 1 : q \in 0 .. Len(log) - 1
  BY DEF TypeOK
<1> QED
  BY <1>2, <1>3, <1>4, <1>5, <1>6 DEF CollapsedOfBacklog

\* Passing over moves the cursor past a collapsed position.
LEMMA PassOverInv == Inv /\ PassOver => Inv'
PROOF
<1> SUFFICES ASSUME Inv, PassOver PROVE Inv'
  OBVIOUS
<1> USE DEF Inv
<1>1. position \in 0 .. Len(log) - 1 /\ position \in collapsed
  BY DEF TypeOK, PassOver, Walking, PassedOver
<1>2. TypeOK'
  BY <1>1 DEF TypeOK, PassOver, Kinds
<1>3. CollapsedOfBacklog'
  BY DEF PassOver, CollapsedOfBacklog, Reached, InLane, SameLane
<1>4. InLane(log, position) => Readable(log[position + 1])
  <2>1. Reached(position)
    BY <1>1 DEF CollapsedOfBacklog, TypeOK
  <2> QED
    BY <1>1, <2>1 DEF Reached
<1>5. Behind'
  <2>1. \A p \in 0 .. Len(log) - 1 :
          came'[p + 1] = IF p = position THEN "collapsed" ELSE came[p + 1]
    BY <1>1 DEF TypeOK, PassOver
  <2>2. position' = position + 1 /\ UNCHANGED <<log, collapsed, ended>>
    BY DEF PassOver
  <2>3. \A p \in 0 .. Len(log) - 1 :
          /\ came'[p + 1] = "collapsed" <=> p < position' /\ p \in collapsed
          /\ came'[p + 1] = "pending" <=> p >= position'
    <3>1. position \in Nat /\ Len(log) \in Nat
      BY DEF TypeOK
    <3>2. \A p \in 0 .. Len(log) - 1 :
            /\ came[p + 1] = "collapsed" <=> p < position /\ p \in collapsed
            /\ came[p + 1] = "pending" <=> p >= position
      BY DEF Behind
    <3> TAKE p \in 0 .. Len(log) - 1
    <3>3. CASE p = position
      BY <1>1, <2>1, <2>2, <3>1, <3>3
    <3>4. CASE p # position
      <4>1. came'[p + 1] = came[p + 1]
        BY <2>1, <3>4
      <4>2. /\ p < position' <=> p < position
            /\ p >= position' <=> p >= position
        BY <1>1, <2>2, <3>1, <3>4
      <4> QED
        BY <2>2, <3>2, <4>1, <4>2
    <3> QED
      BY <3>3, <3>4
  <2>4. \A p \in 0 .. position' - 1 : InLane(log, p) => Readable(log[p + 1])
    BY <1>1, <1>4, <2>2 DEF Behind
  <2>5. ended' # "walked"
    BY DEF PassOver, Walking
  <2> QED
    BY <2>2, <2>3, <2>4, <2>5 DEF Behind, InLane
<1> QED
  BY <1>2, <1>3, <1>5

\* A delivery lengthens the log by what it appended, and moves the cursor
\* past a position it could read unless it ends the walk.
LEMMA CameInv ==
  ASSUME Inv, Walking, ~PassedOver,
         NEW events \in Seq(Event),
         NEW kind \in {"done", "ignored", "failed", "skipped", "wedge"},
         kind # "wedge" =>
           (InLane(log, position) => Readable(log[position + 1])),
         Came(kind, events)
  PROVE  Inv'
PROOF
<1> USE DEF Inv
<1> DEFINE grown == came \o Each(Len(events), "pending")
<1>1. position \in 0 .. Len(log) - 1 /\ position \notin collapsed
  BY DEF TypeOK, Walking, PassedOver
<1>2. /\ log' = log \o events
      /\ log' \in Seq(Event)
      /\ Len(log') = Len(log) + Len(events)
      /\ Len(log) \in Nat /\ Len(events) \in Nat
      /\ UNCHANGED <<start, collapsed>>
  BY DEF TypeOK, Came
<1>3. /\ grown \in Seq(Kinds \cup {"pending"})
      /\ Len(grown) = Len(log')
      /\ \A p \in 0 .. Len(log) - 1 : grown[p + 1] = came[p + 1]
      /\ \A p \in Len(log) .. Len(log') - 1 : grown[p + 1] = "pending"
  <2>1. came \in Seq(Kinds \cup {"pending"}) /\ Len(came) = Len(log)
    BY DEF TypeOK
  <2>2. "pending" \in Kinds \cup {"pending"}
    OBVIOUS
  <2>3. /\ grown \in Seq(Kinds \cup {"pending"})
        /\ Len(grown) = Len(came) + Len(events)
        /\ \A p \in 0 .. Len(came) - 1 : grown[p + 1] = came[p + 1]
        /\ \A p \in Len(came) .. Len(came) + Len(events) - 1 :
             grown[p + 1] = "pending"
    <3> DEFINE Words == Kinds \cup {"pending"}
    <3>1. Len(events) \in Nat /\ came \in Seq(Words) /\ "pending" \in Words
      BY <1>2, <2>1, <2>2
    <3> HIDE DEF Words
    <3> DEFINE added == Each(Len(events), "pending")
    <3>2. added \in Seq(Words) /\ Len(added) = Len(events)
      BY ONLY <3>1, EachIs
    <3>3. \A i \in 1 .. Len(events) : added[i] = "pending"
      BY DEF Each
    <3> HIDE DEF added
    <3>4. /\ came \o added \in Seq(Words)
          /\ Len(came \o added) = Len(came) + Len(events)
          /\ \A i \in 1 .. Len(came) : (came \o added)[i] = came[i]
          /\ \A i \in Len(came) + 1 .. Len(came) + Len(events) :
               (came \o added)[i] = added[i - Len(came)]
      BY ONLY <3>1, <3>2
    <3>5. grown = came \o added
      BY DEF added
    <3> HIDE DEF grown
    <3>6. Len(came) \in Nat
      BY ONLY <3>1
    <3>7. \A p \in 0 .. Len(came) - 1 : grown[p + 1] = came[p + 1]
      BY ONLY <3>4, <3>5, <3>6
    <3>8. \A p \in Len(came) .. Len(came) + Len(events) - 1 :
            grown[p + 1] = "pending"
      <4> TAKE p \in Len(came) .. Len(came) + Len(events) - 1
      <4>1. /\ p + 1 \in Len(came) + 1 .. Len(came) + Len(events)
            /\ (p + 1) - Len(came) \in 1 .. Len(events)
        BY <3>1, <3>6
      <4> QED
        BY ONLY <3>3, <3>4, <3>5, <4>1
    <3> QED
      BY <3>4, <3>5, <3>7, <3>8 DEF Words
  <2> HIDE DEF grown
  <2> QED
    BY <1>2, <2>1, <2>3
<1> HIDE DEF grown
<1>4. \/ /\ ended' \in {"cascade", "wedged"}
         /\ came' = grown
         /\ position' = position
      \/ /\ kind # "wedge"
         /\ came' = [grown EXCEPT ![position + 1] = kind]
         /\ position' = position + 1
         /\ ended' = ended
  BY DEF Came, AfterWedge, grown
<1>5. came' \in Seq(Kinds \cup {"pending"}) /\ Len(came') = Len(log')
  <2>1. kind # "wedge" => kind \in Kinds \cup {"pending"}
    BY DEF Kinds
  <2>2. position + 1 \in 1 .. Len(grown)
    BY <1>1, <1>2, <1>3
  <2> QED
    BY <1>3, <1>4, <2>1, <2>2, ExceptSeq
<1>6. TypeOK'
  <2>1. steps' \in Seq(Nat) /\ Len(steps') = Len(log')
    <3>1. StepOf \in Nat
      <4>1. steps \in Seq(Nat) /\ position + 1 \in 1 .. Len(steps)
        BY <1>1, <1>2 DEF TypeOK
      <4>2. steps[position + 1] \in Nat
        BY <4>1
      <4> QED
        BY <4>2 DEF StepOf
    <3>2. steps \in Seq(Nat) /\ Len(steps) = Len(log)
      BY DEF TypeOK
    <3>3. steps' = steps \o Each(Len(events), StepOf)
      BY DEF Came, Entries
    <3>4. steps' \in Seq(Nat) /\ Len(steps') = Len(steps) + Len(events)
      <4>1. Len(events) \in Nat
        BY <1>2
      <4>2. /\ steps \o Each(Len(events), StepOf) \in Seq(Nat)
            /\ Len(steps \o Each(Len(events), StepOf))
                 = Len(steps) + Len(events)
        BY ONLY <3>1, <3>2, <4>1, Lengthened
      <4> QED
        BY <3>3, <4>2
    <3> QED
      BY <1>2, <3>2, <3>4
  <2>2. cause' \in Seq(Int) /\ Len(cause') = Len(log')
    <3>1. position \in Int
      BY <1>1
    <3>2. cause \in Seq(Int) /\ Len(cause) = Len(log)
      BY DEF TypeOK
    <3>3. cause' = cause \o Each(Len(events), position)
      BY DEF Came
    <3>4. cause' \in Seq(Int) /\ Len(cause') = Len(cause) + Len(events)
      <4>1. Len(events) \in Nat
        BY <1>2
      <4>2. /\ cause \o Each(Len(events), position) \in Seq(Int)
            /\ Len(cause \o Each(Len(events), position))
                 = Len(cause) + Len(events)
        BY ONLY <3>1, <3>2, <4>1, Lengthened
      <4> QED
        BY <3>3, <4>2
    <3> QED
      BY <1>2, <3>2, <3>4
  <2>3. /\ position' \in 0 .. Len(log')
        /\ ended' \in {"no", "walked", "wedged", "cascade"}
    BY <1>1, <1>2, <1>4 DEF TypeOK
  <2>4. start' \in 0 .. Len(log') /\ collapsed' \subseteq 0 .. start' - 1
    BY <1>2 DEF TypeOK
  <2> QED
    BY <1>2, <1>5, <2>1, <2>2, <2>3, <2>4 DEF TypeOK
<1>7. /\ CollapsedOfBacklog'
      /\ \A p \in 0 .. Len(log) - 1 :
           log'[p + 1] = log[p + 1] /\ (InLane(log, p)' <=> InLane(log, p))
  BY <1>2, BacklogKept
<1>8. Behind'
  <2>1. \A p \in 0 .. Len(log') - 1 : p \in collapsed => p < Len(log)
    BY <1>2 DEF TypeOK
  <2>2. \A p \in 0 .. Len(log') - 1 :
          /\ grown[p + 1] = "collapsed" <=> p < position /\ p \in collapsed
          /\ grown[p + 1] = "pending" <=> p >= position
    <3> TAKE p \in 0 .. Len(log') - 1
    <3>1. position < Len(log) /\ position \in Nat
      BY <1>1, <1>2
    <3>2. CASE p < Len(log)
      <4>1. p \in 0 .. Len(log) - 1
        BY <1>2, <3>2
      <4> QED
        BY <1>3, <4>1 DEF Behind
    <3>3. CASE ~(p < Len(log))
      <4>1. p \in Len(log) .. Len(log') - 1
        BY <1>2, <3>3
      <4>2. ~(p < position) /\ p >= position
        BY <1>2, <3>1, <3>3
      <4> QED
        BY <1>3, <4>1, <4>2
    <3> QED
      BY <3>2, <3>3
  <2>3. \A p \in 0 .. Len(log') - 1 :
          /\ came'[p + 1] = "collapsed" <=> p < position' /\ p \in collapsed
          /\ came'[p + 1] = "pending" <=> p >= position'
    <3>1. CASE came' = grown /\ position' = position
      BY <2>2, <3>1
    <3>2. CASE /\ kind # "wedge"
               /\ came' = [grown EXCEPT ![position + 1] = kind]
               /\ position' = position + 1
      <4>1. \A p \in 0 .. Len(log') - 1 :
              came'[p + 1] = IF p = position THEN kind ELSE grown[p + 1]
        BY <1>1, <1>2, <1>3, <3>2
      <4> QED
        BY <1>1, <1>2, <2>2, <3>2, <4>1
    <3> QED
      BY <1>4, <3>1, <3>2
  <2>4. \A p \in 0 .. position' - 1 :
          InLane(log, p)' => Readable(log'[p + 1])
    <3>1. \A p \in 0 .. position' - 1 :
            InLane(log, p) => Readable(log[p + 1])
      BY <1>1, <1>4 DEF Behind
    <3>2. \A p \in 0 .. position' - 1 : p \in 0 .. Len(log) - 1
      BY <1>1, <1>2, <1>4
    <3> QED
      BY <1>7, <3>1, <3>2
  <2>5. ended' # "walked"
    BY <1>4 DEF Walking
  <2> QED
    BY <1>2, <2>3, <2>4, <2>5 DEF Behind
<1> QED
  BY <1>6, <1>7, <1>8

\* Whatever a position comes to, the invariant is kept.
LEMMA DeliverInv == Inv /\ Deliver => Inv'
PROOF
<1> SUFFICES ASSUME Inv, Deliver PROVE Inv'
  OBVIOUS
<1> DEFINE e == log[position + 1]
<1>1. Walking /\ ~PassedOver
  BY DEF Deliver
<1>2. e \in Event
  BY <1>1 DEF Inv, TypeOK, Walking
<1>3. <<>> \in Seq(Event)
  OBVIOUS
<1>4. CASE ArmOf(e) = NoArm /\ Came("ignored", <<>>)
  BY <1>1, <1>3, <1>4, CameInv DEF InLane
<1>5. CASE Came("wedge", <<>>)
  BY <1>1, <1>3, <1>5, CameInv
<1>6. ASSUME ArmOf(e) # NoArm, Readable(e),
             NEW kind \in {"done", "failed", "skipped", "wedge"},
             NEW events \in Appends(e), Came(kind, events)
      PROVE  Inv'
  <2>1. events \in Seq(Event)
    BY <1>2, <1>6, DriveAssumption
  <2> QED
    BY <1>1, <1>6, <2>1, CameInv
<1> QED
  BY <1>4, <1>5, <1>6 DEF Deliver

\* The end is declared at the head.
LEMMA FinishInv == Inv /\ Finish => Inv'
PROOF
<1> SUFFICES ASSUME Inv, Finish PROVE Inv'
  OBVIOUS
<1> USE DEF Inv, Finish
<1>1. TypeOK'
  BY DEF TypeOK
<1>2. CollapsedOfBacklog'
  BY DEF CollapsedOfBacklog, Reached, InLane, SameLane
<1>3. position = Len(log)
  BY DEF TypeOK
<1>4. Behind'
  BY <1>3 DEF Behind, InLane
<1> QED
  BY <1>1, <1>2, <1>4

\* The invariant is one.
LEMMA Invariance == Spec => []Inv
PROOF
<1>1. Inv /\ UNCHANGED vars => Inv'
  BY DEF vars, Inv, TypeOK, CollapsedOfBacklog, Behind, Reached, InLane,
         SameLane
<1>2. Inv /\ [Next]_vars => Inv'
  BY <1>1, PassOverInv, DeliverInv, FinishInv DEF Next
<1> QED
  BY InitInv, <1>2, PTL DEF Spec

-----------------------------------------------------------------------------
(* The theorems.                                                           *)

\* A walk keeps an entry, a step and a count for each record it may come to.
THEOREM TypeCorrect == Spec => []TypeOK
PROOF
<1>1. Inv => TypeOK
  BY DEF Inv
<1> QED
  BY <1>1, Invariance, PTL

\* A walk that ends at the head delivered all it owes: what it met no
\* unreadable key in, the scan of the backlog met none in.
THEOREM WalksDeliver == Spec => []DeliversWhatItOwes
PROOF
<1>1. Inv => DeliversWhatItOwes
  <2> SUFFICES ASSUME Inv, ended = "walked", NEW p \in 0 .. Len(log) - 1
               PROVE  came[p + 1] = "collapsed" <=>
                        /\ p < start
                        /\ \E q \in p + 1 .. start - 1 : SameLane(log, p, q)
    BY DEF DeliversWhatItOwes
  <2>1. /\ position = Len(log) /\ Len(log) \in Nat
        /\ start \in 0 .. Len(log) /\ collapsed \subseteq 0 .. start - 1
    BY DEF Inv, TypeOK, Behind
  <2>2. \A q \in 0 .. Len(log) - 1 : Reached(q)
    BY <2>1 DEF Inv, Behind, Reached
  <2>3. came[p + 1] = "collapsed" <=> p \in collapsed
    BY <2>1 DEF Inv, Behind
  <2>4. \A q \in p + 1 .. start - 1 : q \in 0 .. Len(log) - 1
    BY <2>1
  <2> QED
    BY <2>1, <2>2, <2>3, <2>4 DEF Inv, CollapsedOfBacklog
<1> QED
  BY <1>1, Invariance, PTL

\* A set of positions of the backlog has a last one.
LEMMA LastOf ==
  ASSUME NEW n \in Nat, NEW S \in SUBSET (0 .. n), S # {}
  PROVE  \E q \in S : \A r \in S : r <= q
PROOF
<1> DEFINE T == {n - q : q \in S}
<1>1. \A r \in S : r \in Int /\ n - r \in Nat
  OBVIOUS
<1>2. T \subseteq Nat /\ T # {}
  <2>1. PICK q \in S : TRUE
    OBVIOUS
  <2>2. n - q \in T
    OBVIOUS
  <2> QED
    BY <1>1, <2>2
<1>3. PICK x \in T : \A y \in T : ~(<<y, x>> \in OpToRel(<, Nat))
  BY <1>2, WFMin, NatLessThanWellFounded
<1>4. \A y \in T : ~(y < x)
  BY <1>2, <1>3 DEF OpToRel
<1>5. PICK q \in S : x = n - q
  BY <1>3
<1>6. \A r \in S : ~(n - r < n - q)
  BY <1>4, <1>5
<1>7. \A r \in S : r <= q
  <2> TAKE r \in S
  <2>1. r \in Int /\ q \in Int /\ ~(n - r < n - q)
    BY <1>1, <1>5, <1>6
  <2> HIDE DEF T
  <2> QED
    BY ONLY <2>1, n \in Nat
<1> QED
  BY <1>7

\* A position passed over has a stand-in, whatever lands behind it: the
\* newest of its lane that the scan came to.
THEOREM StandInsAreFound == Spec => []CollapsedHaveStandIns
PROOF
<1>1. Inv => CollapsedHaveStandIns
  <2> SUFFICES ASSUME Inv, NEW p \in 0 .. Len(log) - 1,
                      came[p + 1] = "collapsed"
               PROVE  \E q \in 0 .. start - 1 : StandsIn(p, q)
    BY DEF CollapsedHaveStandIns
  <2>1. /\ Len(log) \in Nat /\ start \in 0 .. Len(log)
        /\ position \in 0 .. Len(log)
        /\ collapsed \subseteq 0 .. start - 1
    BY DEF Inv, TypeOK
  <2>2. p \in collapsed /\ p \in 0 .. start - 1
    BY <2>1 DEF Inv, Behind
  <2> DEFINE Lanes == {q \in p + 1 .. start - 1 :
                         Reached(q) /\ SameLane(log, p, q)}
  <2>3. Lanes # {}
    BY <2>2 DEF Inv, CollapsedOfBacklog
  <2>4. Lanes \in SUBSET (0 .. start)
    BY <2>1, <2>2
  <2>5. PICK q \in Lanes : \A r \in Lanes : r <= q
    <3> HIDE DEF Lanes
    <3>1. start \in Nat
      BY <2>1
    <3> QED
      BY <2>3, <2>4, <3>1, LastOf
  <2>6. /\ q \in p + 1 .. start - 1 /\ q \in 0 .. start - 1
        /\ q \in 0 .. Len(log) - 1
        /\ Reached(q) /\ SameLane(log, p, q)
    BY <2>1, <2>2
  <2>7. q \notin collapsed
    <3> SUFFICES ASSUME q \in collapsed PROVE FALSE
      OBVIOUS
    <3>1. PICK r \in q + 1 .. start - 1 : Reached(r) /\ SameLane(log, q, r)
      BY <2>6 DEF Inv, CollapsedOfBacklog
    <3>2. SameLane(log, p, r)
      BY <2>6, <3>1 DEF SameLane
    <3>3. r \in p + 1 .. start - 1 /\ ~(r <= q)
      BY <2>1, <2>2, <2>6, <3>1
    <3> QED
      BY <2>5, <3>1, <3>2, <3>3
  <2>8. /\ came[q + 1] # "collapsed"
        /\ ended = "walked" => came[q + 1] # "pending"
    BY <2>1, <2>6, <2>7 DEF Inv, Behind
  <2>9. StandsIn(p, q)
    BY <2>6, <2>8 DEF StandsIn, Reached
  <2> QED
    BY <2>6, <2>9
<1> QED
  BY <1>1, Invariance, PTL

-----------------------------------------------------------------------------
(* Depth.  What a walk counts, delivery by delivery, is the length of the  *)
(* chain that the causes spell: both are what one step of the chain makes  *)
(* of them, and a cause is earlier than what it caused.                    *)

\* Each record's count against its cause's, and the bound against them all.
Counted ==
  \A p \in 0 .. Len(log) - 1 :
    \/ cause[p + 1] = Backlog /\ steps[p + 1] = 0
    \/ /\ cause[p + 1] \in 0 .. p - 1
       /\ steps[p + 1] = steps[cause[p + 1] + 1] + 1

Outran == \E p \in 0 .. Len(log) - 1 : steps[p + 1] > Cascade

Chained == Counted /\ (ended = "cascade" <=> Outran)

\* A walk starts with counts of zero.
LEMMA InitChained == Init => Chained
PROOF
<1> SUFFICES ASSUME Init PROVE Chained
  OBVIOUS
<1>1. Len(log) \in Nat
  BY DriveAssumption DEF Init
<1>2. \A p \in 0 .. Len(log) - 1 : steps[p + 1] = 0 /\ cause[p + 1] = Backlog
  BY <1>1 DEF Init, Each
<1> QED
  BY <1>2, DriveAssumption DEF Init, Chained, Counted, Outran

\* What is appended is one step further than what appended it.
LEMMA CameChained ==
  ASSUME Inv, Chained, Walking,
         NEW events \in Seq(Event), NEW kind, Came(kind, events)
  PROVE  Chained'
PROOF
<1> DEFINE far == StepOf
<1>1. /\ Len(log) \in Nat /\ Len(events) \in Nat
      /\ position \in 0 .. Len(log) - 1
      /\ steps \in Seq(Nat) /\ Len(steps) = Len(log)
      /\ cause \in Seq(Int) /\ Len(cause) = Len(log)
  BY DEF Inv, TypeOK, Walking
<1>2. far = steps[position + 1] + 1 /\ far \in Nat
  <2>1. steps[position + 1] \in Nat
    BY <1>1
  <2> QED
    BY <2>1 DEF StepOf
<1>3. Len(log') = Len(log) + Len(events)
  BY DEF Came, Inv, TypeOK
<1>4. /\ \A p \in 0 .. Len(log) - 1 : steps'[p + 1] = steps[p + 1]
      /\ \A p \in Len(log) .. Len(log') - 1 : steps'[p + 1] = far
  <2> DEFINE more == steps \o Each(Len(events), far)
  <2>1. steps' = more
    BY DEF Came, Entries
  <2> HIDE DEF far
  <2>2. steps \in Seq(Nat) /\ Len(events) \in Nat /\ far \in Nat
    BY <1>1, <1>2
  <2>3. /\ more \in Seq(Nat)
        /\ Len(more) = Len(steps) + Len(events)
        /\ \A p \in 0 .. Len(steps) - 1 : more[p + 1] = steps[p + 1]
        /\ \A p \in Len(steps) .. Len(steps) + Len(events) - 1 :
             more[p + 1] = far
    BY ONLY <2>2, Lengthened
  <2> HIDE DEF more
  <2> QED
    BY <1>1, <1>3, <2>1, <2>3
<1>5. /\ \A p \in 0 .. Len(log) - 1 : cause'[p + 1] = cause[p + 1]
      /\ \A p \in Len(log) .. Len(log') - 1 : cause'[p + 1] = position
  <2> DEFINE more == cause \o Each(Len(events), position)
  <2>1. cause' = more
    BY DEF Came
  <2>2. cause \in Seq(Int) /\ Len(events) \in Nat /\ position \in Int
    BY <1>1, <1>2
  <2>3. /\ more \in Seq(Int)
        /\ Len(more) = Len(cause) + Len(events)
        /\ \A p \in 0 .. Len(cause) - 1 : more[p + 1] = cause[p + 1]
        /\ \A p \in Len(cause) .. Len(cause) + Len(events) - 1 :
             more[p + 1] = position
    BY ONLY <2>2, Lengthened
  <2> HIDE DEF more
  <2> QED
    BY <1>1, <1>3, <2>1, <2>3
<1>6. (ended' = "cascade" <=> TooDeep(events)) /\ ended = "no"
  BY DEF Came, AfterWedge, Walking
<1>7. TooDeep(events) <=> Len(events) > 0 /\ far > Cascade
  <2>1. events # <<>> <=> Len(events) > 0
    BY EmptySeq, LenProperties
  <2> QED
    BY <2>1 DEF TooDeep
<1> HIDE DEF far
<1>8. Counted'
  <2> SUFFICES ASSUME NEW p \in 0 .. Len(log') - 1
               PROVE  \/ cause'[p + 1] = Backlog /\ steps'[p + 1] = 0
                      \/ /\ cause'[p + 1] \in 0 .. p - 1
                         /\ steps'[p + 1] = steps'[cause'[p + 1] + 1] + 1
    BY DEF Counted, Backlog
  <2>1. CASE p \in 0 .. Len(log) - 1
    <3>1. \/ cause[p + 1] = Backlog /\ steps[p + 1] = 0
          \/ /\ cause[p + 1] \in 0 .. p - 1
             /\ steps[p + 1] = steps[cause[p + 1] + 1] + 1
      BY <2>1 DEF Chained, Counted
    <3>2. cause[p + 1] \in 0 .. p - 1 => cause[p + 1] \in 0 .. Len(log) - 1
      BY <1>1, <2>1
    <3> QED
      BY <1>4, <1>5, <2>1, <3>1, <3>2
  <2>2. CASE p \in Len(log) .. Len(log') - 1
    <3>1. position \in 0 .. p - 1
      BY <1>1, <2>2
    <3> QED
      BY <1>1, <1>2, <1>4, <1>5, <2>2, <3>1
  <2> QED
    BY <1>1, <1>3, <2>1, <2>2
<1>9. Outran' <=> TooDeep(events)
  <2>1. ~Outran
    BY <1>6 DEF Chained
  <2>2. \A p \in 0 .. Len(log) - 1 : ~(steps'[p + 1] > Cascade)
    BY <1>4, <2>1 DEF Outran
  <2>3. \A p \in 0 .. Len(log') - 1 :
          p \in 0 .. Len(log) - 1 \/ p \in Len(log) .. Len(log') - 1
    BY <1>1, <1>3
  <2>4. Len(events) > 0 => Len(log) \in Len(log) .. Len(log') - 1
                             /\ Len(log) \in 0 .. Len(log') - 1
    BY <1>1, <1>3
  <2>5. ~(Len(events) > 0) => Len(log') = Len(log)
    BY <1>1, <1>3
  <2>6. Outran' <=> \E p \in 0 .. Len(log') - 1 : steps'[p + 1] > Cascade
    BY DEF Outran
  <2> QED
    BY <1>4, <1>7, <2>2, <2>3, <2>4, <2>5, <2>6
<1> QED
  BY <1>6, <1>8, <1>9 DEF Chained

\* Whatever is delivered, the counts stay the lengths of their chains.
LEMMA DeliverChained == Inv /\ Chained /\ Deliver => Chained'
PROOF
<1> SUFFICES ASSUME Inv, Chained, Deliver PROVE Chained'
  OBVIOUS
<1> DEFINE e == log[position + 1]
<1>1. Walking
  BY DEF Deliver
<1>2. e \in Event
  BY <1>1 DEF Inv, TypeOK, Walking
<1>3. Appends(e) \subseteq Seq(Event) /\ <<>> \in Seq(Event)
  BY <1>2, DriveAssumption
<1>4. \/ Came("ignored", <<>>) \/ Came("wedge", <<>>)
      \/ \E kind \in {"done", "failed", "skipped", "wedge"} :
           \E events \in Appends(e) : Came(kind, events)
  BY DEF Deliver
<1>5. \E kind \in {"done", "ignored", "failed", "skipped", "wedge"} :
        \E events \in {<<>>} \cup Appends(e) : Came(kind, events)
  BY <1>4
<1>6. PICK kind, events : events \in Seq(Event) /\ Came(kind, events)
  BY <1>3, <1>5
<1> QED
  BY <1>1, <1>6, CameChained

\* The invariant is one.
LEMMA ChainsAreCounted == Spec => [](Inv /\ Chained)
PROOF
<1>1. Inv /\ Chained /\ [Next]_vars => Chained'
  <2> SUFFICES ASSUME Inv, Chained, [Next]_vars PROVE Chained'
    OBVIOUS
  <2>1. CASE UNCHANGED <<log, steps, cause>> /\ (ended' = "cascade" <=> ended = "cascade")
    BY <2>1 DEF Chained, Counted, Outran
  <2>2. CASE PassOver
    BY <2>1, <2>2 DEF PassOver
  <2>3. CASE Deliver
    BY <2>3, DeliverChained
  <2>4. CASE Finish
    BY <2>1, <2>4 DEF Finish
  <2>5. CASE UNCHANGED vars
    BY <2>1, <2>5 DEF vars
  <2> QED
    BY <2>2, <2>3, <2>4, <2>5 DEF Next
<1> QED
  BY InitChained, Invariance, <1>1, PTL DEF Spec

\* A set of positions has a first one.
LEMMA FirstOf ==
  ASSUME NEW S \in SUBSET Nat, S # {}
  PROVE  \E q \in S : \A r \in S : ~(r < q)
PROOF
<1>1. PICK q \in S : \A r \in S : ~(<<r, q>> \in OpToRel(<, Nat))
  BY WFMin, NatLessThanWellFounded
<1> QED
  BY <1>1 DEF OpToRel

\* The chain that leads to a record is as long as the walk counted: the
\* counts solve the equation that defines a chain's length, and no two
\* solutions first differ anywhere.
LEMMA DepthIsCounted ==
  ASSUME TypeOK, Counted, NEW p \in 0 .. Len(log) - 1
  PROVE  Depth(p) = steps[p + 1]
PROOF
<1> DEFINE Solves(f) ==
             f = [q \in 0 .. p |-> IF cause[q + 1] = Backlog THEN 0
                                   ELSE f[cause[q + 1]] + 1]
           counts == [q \in 0 .. p |-> steps[q + 1]]
           chain == CHOOSE f : Solves(f)
<1>1. Depth(p) = chain[p]
  BY DEF Depth
<1>2. \A q \in 0 .. p :
        \/ cause[q + 1] = Backlog /\ steps[q + 1] = 0
        \/ /\ cause[q + 1] # Backlog
           /\ cause[q + 1] \in 0 .. q - 1 /\ cause[q + 1] \in 0 .. p
           /\ steps[q + 1] = steps[cause[q + 1] + 1] + 1
  <2>1. Len(log) \in Nat
    BY DEF TypeOK
  <2> QED
    BY <2>1 DEF Counted, Backlog
<1>3. Solves(counts)
  <2>1. \A q \in 0 .. p :
          steps[q + 1] = IF cause[q + 1] = Backlog THEN 0
                         ELSE counts[cause[q + 1]] + 1
    BY <1>2
  <2> QED
    BY <2>1
<1>4. Solves(chain)
  <2> HIDE DEF Solves
  <2> QED
    BY <1>3
<1> HIDE DEF chain
<1> DEFINE differ == {q \in 0 .. p : chain[q] # steps[q + 1]}
<1>5. differ = {}
  <2> SUFFICES ASSUME differ # {} PROVE FALSE
    OBVIOUS
  <2>1. differ \in SUBSET Nat
    OBVIOUS
  <2>2. PICK q \in differ : \A r \in differ : ~(r < q)
    <3> HIDE DEF differ
    <3> QED
      BY <2>1, FirstOf
  <2>3. q \in 0 .. p /\ chain[q] # steps[q + 1]
    BY <2>2
  <2>4. chain[q] = IF cause[q + 1] = Backlog THEN 0
                   ELSE chain[cause[q + 1]] + 1
    BY <1>4, <2>3
  <2>5. cause[q + 1] # Backlog
    BY <1>2, <2>3, <2>4
  <2>6. /\ cause[q + 1] \in 0 .. q - 1 /\ cause[q + 1] \in 0 .. p
        /\ steps[q + 1] = steps[cause[q + 1] + 1] + 1
    BY <1>2, <2>3, <2>5
  <2>7. cause[q + 1] \notin differ
    BY <2>2, <2>3, <2>6
  <2> QED
    BY <2>3, <2>4, <2>5, <2>6, <2>7
<1>6. p \in 0 .. p
  BY DEF TypeOK
<1> QED
  BY <1>1, <1>5, <1>6

\* A walk is stopped for its depth exactly when a chain of triggered events
\* outran the bound: what `steps` counts is the chain, and not how much was
\* appended (`drive` of src/interp.rs).
THEOREM OnlyRunawaysStop == Spec => []StopsRunawaysOnly
PROOF
<1>1. Inv /\ Chained => StopsRunawaysOnly
  <2> SUFFICES ASSUME Inv, Chained PROVE StopsRunawaysOnly
    OBVIOUS
  <2>1. \A p \in 0 .. Len(log) - 1 : Depth(p) = steps[p + 1]
    BY DepthIsCounted DEF Inv, Chained
  <2> QED
    BY <2>1 DEF Chained, Outran, StopsRunawaysOnly
<1> QED
  BY <1>1, ChainsAreCounted, PTL
=============================================================================
