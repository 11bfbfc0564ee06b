---------------------------- MODULE LoaderProofs ----------------------------
(***************************************************************************)
(* The theorems of three of the loader's checks, for every program: that   *)
(* the search for cycles of declarations is right (CycleWalk), that only a *)
(* text the loader lost sight of outgrows its bound (Bounds), and that no  *)
(* effect brings about its own event by what its statements invoke         *)
(* (SelfTrigger).                                                          *)
(***************************************************************************)
EXTENDS CycleWalk, Bounds, SelfTrigger, SequenceTheorems, FiniteSetTheorems,
        WellFoundedInduction, NaturalsInduction, TLAPS

-----------------------------------------------------------------------------
(* CycleWalk. What the walk came back from is closed, but for names        *)
(* nothing declares, and has no cycle; what a declaration on the path      *)
(* reaches is still pending, is the next on the path, or is behind it. So  *)
(* a declaration is left with all it reaches behind it, and cannot close a *)
(* cycle there.                                                            *)

\* A declaration on the path is reached by the one before it.
Follows(p) ==
  \A i \in 1 .. Len(p) - 1 : p[i + 1] \in Range(calls[p[i]])

WalkTypeOK ==
  /\ Declared \subseteq Name
  /\ calls \in [Declared -> Seq(Name)]
  /\ path \in Seq(Declared)
  /\ pending \in Seq(Seq(Name))
  /\ Len(pending) = Len(path) + 1
  /\ done \subseteq Declared
  /\ found \in Seq(Name)

OnThePath ==
  /\ Follows(path)
  /\ \A i, j \in 1 .. Len(path) : path[i] = path[j] => i = j
  /\ \A i \in 1 .. Len(path) : path[i] \notin done
  /\ \A i \in 1 .. Len(path) : Range(pending[i + 1]) \subseteq Range(calls[path[i]])

\* What a frame set out to visit and does no longer have before it.
Behind(i, n) ==
  \/ n \in done
  \/ n \notin Declared
  \/ i <= Len(path) /\ n = path[i]

Accounted ==
  /\ \A d \in Declared : d \in Range(pending[1]) \/ Behind(1, d)
  /\ \A i \in 1 .. Len(path) : \A n \in Range(calls[path[i]]) :
       n \in Range(pending[i + 1]) \/ Behind(i + 1, n)

Closed(S) == \A d \in S : \A n \in Range(calls[d]) : n \in S \/ n \notin Declared

WalkInv ==
  /\ WalkTypeOK /\ OnThePath /\ Accounted
  /\ Closed(done) /\ Acyclic(done)
  /\ FoundIsACycle

-----------------------------------------------------------------------------
(* Sequences.                                                              *)

\* A stack without its top.
LEMMA WithoutTop ==
  ASSUME NEW S, NEW s \in Seq(S), Len(s) > 0
  PROVE  /\ Without(s) \in Seq(S)
         /\ Len(Without(s)) = Len(s) - 1
         /\ \A i \in 1 .. Len(s) - 1 : Without(s)[i] = s[i]
PROOF
  <1>1. Len(s) \in Nat /\ \A i \in 1 .. Len(s) - 1 : s[i] \in S
    OBVIOUS
  <1>2. /\ SubSeq(s, 1, Len(s) - 1) \in Seq(S)
        /\ Len(SubSeq(s, 1, Len(s) - 1)) =
             IF 1 <= Len(s) - 1 THEN Len(s) - 1 - 1 + 1 ELSE 0
        /\ \A i \in 1 .. Len(s) - 1 - 1 + 1 :
             SubSeq(s, 1, Len(s) - 1)[i] = s[1 + i - 1]
    BY <1>1, SubSeqProperties
  <1>3. Without(s) = SubSeq(s, 1, Len(s) - 1)
    BY DEF Without
  <1>4. Len(Without(s)) = Len(s) - 1
    <2>1. Len(s) \in Nat
      OBVIOUS
    <2>2. \A n \in Nat :
            n > 0 => (IF 1 <= n - 1 THEN n - 1 - 1 + 1 ELSE 0) = n - 1
      OBVIOUS
    <2> QED BY <1>2, <1>3, <2>1, <2>2
  <1>5. ASSUME NEW i \in 1 .. Len(s) - 1 PROVE Without(s)[i] = s[i]
    <2>1. i \in 1 .. Len(s) - 1 - 1 + 1 /\ 1 + i - 1 = i
      BY <1>1
    <2> QED BY <1>2, <1>3, <2>1
  <1> QED BY <1>2, <1>3, <1>4, <1>5

\* A stack of frames whose top has visited its first name.
LEMMA PassedTop ==
  ASSUME NEW S, NEW s \in Seq(Seq(S)), Len(s) > 0, s[Len(s)] # <<>>
  PROVE  /\ Passed(s) \in Seq(Seq(S))
         /\ Len(Passed(s)) = Len(s)
         /\ \A i \in 1 .. Len(s) - 1 : Passed(s)[i] = s[i]
         /\ Passed(s)[Len(s)] = Tail(s[Len(s)])
PROOF BY DEF Passed

\* The names of a list are its first and those of the rest.
LEMMA HeadAndTail ==
  ASSUME NEW S, NEW s \in Seq(S), s # <<>>
  PROVE  /\ Head(s) \in S
         /\ Tail(s) \in Seq(S)
         /\ Range(s) = {Head(s)} \cup Range(Tail(s))
PROOF
  <1>1. Head(s) = s[1] /\ Head(s) \in S /\ Tail(s) \in Seq(S) /\ Len(s) > 0
    OBVIOUS
  <1>2. Len(Tail(s)) = Len(s) - 1 /\ \A i \in 1 .. Len(s) - 1 : Tail(s)[i] = s[i + 1]
    BY <1>1
  <1>3. DOMAIN s = 1 .. Len(s) /\ DOMAIN Tail(s) = 1 .. Len(s) - 1
    BY <1>1, <1>2
  <1>4. Range(s) \subseteq {Head(s)} \cup Range(Tail(s))
    <2> SUFFICES ASSUME NEW i \in 1 .. Len(s)
                 PROVE  s[i] = Head(s) \/ s[i] \in Range(Tail(s))
      BY <1>3 DEF Range
    <2>1. CASE i = 1
      BY <2>1, <1>1
    <2>2. CASE i # 1
      <3>1. i - 1 \in 1 .. Len(s) - 1 /\ Tail(s)[i - 1] = s[i]
        BY <2>2, <1>2
      <3> QED BY <3>1, <1>3 DEF Range
    <2> QED BY <2>1, <2>2
  <1>5. {Head(s)} \cup Range(Tail(s)) \subseteq Range(s)
    BY <1>1, <1>2, <1>3 DEF Range
  <1> QED BY <1>1, <1>4, <1>5

\* A set that has no cycle, joined by what reaches it alone.
LEMMA Joining ==
  ASSUME NEW S, NEW v \in Declared \ S, S \subseteq Declared,
         Acyclic(S), Closed(S),
         \A n \in Range(calls[v]) : n \in S \/ n \notin Declared
  PROVE  Acyclic(S \cup {v}) /\ Closed(S \cup {v})
PROOF
  <1>1. Closed(S \cup {v})
    BY DEF Closed
  <1>2. ASSUME NEW T \in SUBSET (S \cup {v}), T # {}
        PROVE  \E d \in T : Range(calls[d]) \cap T = {}
    <2>1. CASE T \ {v} = {}
      <3>1. T = {v}
        BY <2>1, <1>2
      <3>2. v \notin Range(calls[v])
        OBVIOUS
      <3> QED BY <3>1, <3>2
    <2>2. CASE T \ {v} # {}
      <3>1. PICK d \in T \ {v} : Range(calls[d]) \cap (T \ {v}) = {}
        BY <2>2 DEF Acyclic
      <3>2. v \notin Range(calls[d])
        BY <3>1 DEF Closed
      <3> QED BY <3>1, <3>2
    <2> QED BY <2>1, <2>2
  <1> QED BY <1>1, <1>2 DEF Acyclic

-----------------------------------------------------------------------------
(* The invariant.                                                          *)

\* It holds at the start: every declaration is before the outer loop.
THEOREM WalkInvInit == WalkInit => WalkInv
PROOF
  <1> SUFFICES ASSUME WalkInit PROVE WalkInv
    OBVIOUS
  <1> USE DEF WalkInit, Declared
  <1>1. PICK D \in SUBSET Name : calls \in [D -> Seq(Name)]
    OBVIOUS
  <1>2. Declared = D
    BY <1>1
  <1>3. PICK order \in Seq(Name) : Range(order) = Declared /\ pending = <<order>>
    OBVIOUS
  <1>4. WalkTypeOK
    BY <1>1, <1>2, <1>3 DEF WalkTypeOK
  <1>5. OnThePath
    BY DEF OnThePath, Follows
  <1>6. Accounted
    BY <1>3 DEF Accounted
  <1>7. Closed(done) /\ Acyclic(done)
    BY DEF Closed, Acyclic
  <1>8. FoundIsACycle
    BY DEF FoundIsACycle
  <1> QED BY <1>4, <1>5, <1>6, <1>7, <1>8 DEF WalkInv

\* What the top frame has before it, when it has a name to visit.
LEMMA AtTheTop ==
  ASSUME WalkInv, Frame # <<>>
  PROVE  /\ Len(pending) > 0
         /\ Visited \in Name
         /\ Visited \in Range(Frame)
         /\ Tail(Frame) \in Seq(Name)
         /\ Range(Frame) = {Visited} \cup Range(Tail(Frame))
         /\ Passed(pending) \in Seq(Seq(Name))
         /\ Len(Passed(pending)) = Len(path) + 1
         /\ \A i \in 1 .. Len(path) : Passed(pending)[i] = pending[i]
         /\ Passed(pending)[Len(path) + 1] = Tail(Frame)
         /\ path # <<>> => Visited \in Range(calls[path[Len(path)]])
PROOF
  <1>1. path \in Seq(Declared) /\ Len(path) \in Nat
    BY DEF WalkInv, WalkTypeOK
  <1>2. pending \in Seq(Seq(Name)) /\ Len(pending) = Len(path) + 1
    BY DEF WalkInv, WalkTypeOK
  <1>3. Frame = pending[Len(pending)] /\ Frame \in Seq(Name)
    BY <1>1, <1>2 DEF Frame
  <1>4. /\ Visited \in Name /\ Tail(Frame) \in Seq(Name)
        /\ Range(Frame) = {Visited} \cup Range(Tail(Frame))
    BY <1>3, HeadAndTail DEF Visited
  <1>5. /\ Passed(pending) \in Seq(Seq(Name))
        /\ Len(Passed(pending)) = Len(pending)
        /\ \A i \in 1 .. Len(pending) - 1 : Passed(pending)[i] = pending[i]
        /\ Passed(pending)[Len(pending)] = Tail(Frame)
    <2>1. Len(pending) > 0 /\ pending[Len(pending)] # <<>>
      BY <1>1, <1>2, <1>3
    <2> QED BY <1>2, <1>3, <2>1, PassedTop
  <1>6. ASSUME path # <<>> PROVE Visited \in Range(calls[path[Len(path)]])
    <2>1. Len(path) \in 1 .. Len(path)
      BY <1>1, <1>6
    <2>2. Range(pending[Len(path) + 1]) \subseteq Range(calls[path[Len(path)]])
      BY <2>1 DEF WalkInv, OnThePath
    <2> QED BY <1>2, <1>3, <1>4, <2>2
  <1> QED BY <1>1, <1>2, <1>4, <1>5, <1>6

\* A path that is closed is a cycle.
LEMMA CloseKeeps ==
  ASSUME WalkInv, Close
  PROVE  WalkInv'
PROOF
  <1>1. /\ found = <<>> /\ Frame # <<>> /\ Visited \in Range(path)
        /\ UNCHANGED <<calls, path, pending, done>>
    BY DEF Close, Visiting
  <1>2. path \in Seq(Declared) /\ Len(path) \in Nat /\ DOMAIN path = 1 .. Len(path)
    BY DEF WalkInv, WalkTypeOK
  <1> DEFINE at == CHOOSE i \in DOMAIN path : path[i] = Visited
             loop == SubSeq(path, at, Len(path))
  <1>3. at \in 1 .. Len(path) /\ path[at] = Visited
    BY <1>1, <1>2 DEF Range
  <1>4. /\ loop \in Seq(Declared) /\ Len(loop) = Len(path) - at + 1
        /\ \A i \in 1 .. Len(path) - at + 1 : loop[i] = path[at + i - 1]
    BY <1>2, <1>3, SubSeqProperties
  <1>5. found' = Append(loop, Visited)
    BY DEF Close
  <1>6. Visited \in Declared
    BY <1>2, <1>3
  <1>7. /\ Len(found') = Len(path) - at + 2
        /\ \A i \in 1 .. Len(path) - at + 1 : found'[i] = path[at + i - 1]
        /\ found'[Len(path) - at + 2] = Visited
        /\ found' \in Seq(Declared)
    BY <1>2, <1>3, <1>4, <1>5, <1>6
  <1> HIDE DEF at, loop
  <1>8. Declared' = Declared
    BY <1>1 DEF Declared
  <1>9. WalkTypeOK'
    <2>1. found' \in Seq(Name)
      <3>1. Declared \subseteq Name
        BY DEF WalkInv, WalkTypeOK
      <3> QED BY <1>7, <3>1
    <2> QED BY <1>1, <1>8, <2>1 DEF WalkInv, WalkTypeOK
  <1>10. OnThePath'
    BY <1>1, <1>8 DEF WalkInv, OnThePath, Follows
  <1>11. Accounted'
    BY <1>1, <1>8 DEF WalkInv, Accounted, Behind
  <1>12. (Closed(done) /\ Acyclic(done))'
    BY <1>1, <1>8 DEF WalkInv, Closed, Acyclic
  <1>13. FoundIsACycle'
    <2>1. Len(found') > 1 /\ found'[1] = found'[Len(found')]
      BY <1>2, <1>3, <1>7
    <2>2. ASSUME NEW i \in 1 .. Len(found') - 1
          PROVE  found'[i] \in Declared /\ found'[i + 1] \in Range(calls[found'[i]])
      <3>1. i \in 1 .. Len(path) - at + 1 /\ found'[i] = path[at + i - 1]
        BY <1>2, <1>3, <1>7
      <3>2. CASE i = Len(path) - at + 1
        <4>1. path # <<>> /\ found'[i] = path[Len(path)] /\ found'[i + 1] = Visited
          BY <1>2, <1>3, <1>7, <3>1, <3>2
        <4>2. Visited \in Range(calls[path[Len(path)]])
          BY <1>1, <4>1, AtTheTop
        <4> QED BY <1>2, <1>3, <4>1, <4>2
      <3>3. CASE i # Len(path) - at + 1
        <4>1. found'[i + 1] = path[at + i] /\ at + i - 1 \in 1 .. Len(path) - 1
          <5>1. i + 1 \in 1 .. Len(path) - at + 1
            BY <1>2, <1>3, <3>1, <3>3
          <5>2. found'[i + 1] = path[at + (i + 1) - 1] /\ at + (i + 1) - 1 = at + i
            BY <1>3, <1>7, <5>1
          <5> QED BY <1>2, <1>3, <5>1, <5>2
        <4>2. path[at + i - 1 + 1] \in Range(calls[path[at + i - 1]])
          BY <4>1 DEF WalkInv, OnThePath, Follows
        <4>3. at + i - 1 + 1 = at + i /\ path[at + i - 1] \in Declared
          BY <1>2, <1>3, <4>1
        <4> QED BY <3>1, <4>1, <4>2, <4>3
      <3> QED BY <3>2, <3>3
    <2> QED BY <1>1, <1>8, <2>1, <2>2 DEF FoundIsACycle
  <1> QED BY <1>9, <1>10, <1>11, <1>12, <1>13 DEF WalkInv

\* A name passed by is behind.
LEMMA PassByKeeps ==
  ASSUME WalkInv, PassBy
  PROVE  WalkInv'
PROOF
  <1>1. /\ Frame # <<>>
        /\ Visited \in done \/ Visited \notin Declared
        /\ pending' = Passed(pending)
        /\ UNCHANGED <<calls, path, done, found>>
    BY DEF PassBy, Visiting
  <1>2. /\ Visited \in Name
        /\ Range(Frame) = {Visited} \cup Range(Tail(Frame))
        /\ Passed(pending) \in Seq(Seq(Name))
        /\ Len(Passed(pending)) = Len(path) + 1
        /\ \A i \in 1 .. Len(path) : Passed(pending)[i] = pending[i]
        /\ Passed(pending)[Len(path) + 1] = Tail(Frame)
    BY <1>1, AtTheTop
  <1>3. /\ path \in Seq(Declared) /\ Len(path) \in Nat
        /\ Len(pending) = Len(path) + 1 /\ Frame = pending[Len(path) + 1]
    BY DEF WalkInv, WalkTypeOK, Frame
  <1>4. Declared' = Declared
    BY <1>1 DEF Declared
  <1>5. \A i \in 1 .. Len(path) + 1 :
          /\ Range(pending'[i]) \subseteq Range(pending[i])
          /\ \A n \in Range(pending[i]) :
               n \in Range(pending'[i]) \/ n \in done \/ n \notin Declared
    <2> SUFFICES ASSUME NEW i \in 1 .. Len(path) + 1
                 PROVE  /\ Range(pending'[i]) \subseteq Range(pending[i])
                        /\ \A n \in Range(pending[i]) :
                             n \in Range(pending'[i]) \/ n \in done \/ n \notin Declared
      OBVIOUS
    <2>1. CASE i = Len(path) + 1
      BY <1>1, <1>2, <1>3, <2>1
    <2>2. CASE i # Len(path) + 1
      <3>1. pending'[i] = pending[i]
        BY <1>1, <1>2, <1>3, <2>2
      <3> QED BY <3>1
    <2> QED BY <2>1, <2>2
  <1>6. WalkTypeOK'
    BY <1>1, <1>2, <1>4 DEF WalkInv, WalkTypeOK
  <1>7. OnThePath'
    <2>1. ASSUME NEW i \in 1 .. Len(path)
          PROVE  Range(pending'[i + 1]) \subseteq Range(calls[path[i]])
      <3>1. i + 1 \in 1 .. Len(path) + 1
        BY <1>3
      <3>2. Range(pending[i + 1]) \subseteq Range(calls[path[i]])
        BY DEF WalkInv, OnThePath
      <3> QED BY <1>5, <3>1, <3>2
    <2> QED BY <1>1, <1>4, <2>1 DEF WalkInv, OnThePath, Follows
  <1>8. Accounted'
    <2>1. 1 \in 1 .. Len(path) + 1
      BY <1>3
    <2>2. ASSUME NEW d \in Declared
          PROVE  d \in Range(pending'[1]) \/ Behind(1, d)
      <3>1. d \in Range(pending[1]) \/ Behind(1, d)
        BY DEF WalkInv, Accounted
      <3> QED BY <1>5, <2>1, <3>1 DEF Behind
    <2>3. ASSUME NEW i \in 1 .. Len(path), NEW n \in Range(calls[path[i]])
          PROVE  n \in Range(pending'[i + 1]) \/ Behind(i + 1, n)
      <3>1. n \in Range(pending[i + 1]) \/ Behind(i + 1, n)
        BY DEF WalkInv, Accounted
      <3>2. i + 1 \in 1 .. Len(path) + 1
        BY <1>3
      <3> QED BY <1>5, <3>1, <3>2 DEF Behind
    <2> QED BY <1>1, <1>4, <2>2, <2>3 DEF Accounted, Behind
  <1>9. (Closed(done) /\ Acyclic(done))'
    BY <1>1, <1>4 DEF WalkInv, Closed, Acyclic
  <1>10. FoundIsACycle'
    BY <1>1, <1>4 DEF WalkInv, FoundIsACycle
  <1> QED BY <1>6, <1>7, <1>8, <1>9, <1>10 DEF WalkInv

\* A declaration entered is the next on the path, with all it reaches pending.
LEMMA EnterKeeps ==
  ASSUME WalkInv, Enter
  PROVE  WalkInv'
PROOF
  <1>1. /\ Frame # <<>> /\ Visited \notin Range(path) /\ Visited \notin done
        /\ Visited \in Declared
        /\ path' = Append(path, Visited)
        /\ pending' = Append(Passed(pending), calls[Visited])
        /\ UNCHANGED <<calls, done, found>>
    BY DEF Enter, Visiting
  <1>2. /\ Visited \in Name
        /\ Range(Frame) = {Visited} \cup Range(Tail(Frame))
        /\ Passed(pending) \in Seq(Seq(Name))
        /\ Len(Passed(pending)) = Len(path) + 1
        /\ \A i \in 1 .. Len(path) : Passed(pending)[i] = pending[i]
        /\ Passed(pending)[Len(path) + 1] = Tail(Frame)
        /\ path # <<>> => Visited \in Range(calls[path[Len(path)]])
    BY <1>1, AtTheTop
  <1>3. /\ path \in Seq(Declared) /\ Len(path) \in Nat /\ DOMAIN path = 1 .. Len(path)
        /\ Len(pending) = Len(path) + 1 /\ Frame = pending[Len(path) + 1]
    BY DEF WalkInv, WalkTypeOK, Frame
  <1>0. Len(path) \in Nat
    BY <1>3
  <1>4. Declared' = Declared /\ calls[Visited] \in Seq(Name)
    BY <1>1 DEF Declared, WalkInv, WalkTypeOK
  <1>5. /\ path' \in Seq(Declared) /\ Len(path') = Len(path) + 1
        /\ \A i \in 1 .. Len(path) : path'[i] = path[i]
        /\ path'[Len(path) + 1] = Visited
    BY <1>1, <1>3
  <1>6. /\ pending' \in Seq(Seq(Name)) /\ Len(pending') = Len(path) + 2
        /\ \A i \in 1 .. Len(path) : pending'[i] = pending[i]
        /\ pending'[Len(path) + 1] = Tail(Frame)
        /\ pending'[Len(path) + 2] = calls[Visited]
    <2>1. \A i \in 1 .. Len(path) + 1 : pending'[i] = Passed(pending)[i]
      BY <1>1, <1>2, <1>3, <1>4
    <2>2. pending'[Len(path) + 2] = calls[Visited] /\ Len(pending') = Len(path) + 2
      BY <1>1, <1>2, <1>3, <1>4
    <2>3. pending' \in Seq(Seq(Name))
      BY <1>1, <1>2, <1>4
    <2>4. \A i \in 1 .. Len(path) : i \in 1 .. Len(path) + 1
      BY <1>0
    <2>5. Len(path) + 1 \in 1 .. Len(path) + 1
      BY <1>0
    <2> QED BY <1>2, <2>1, <2>2, <2>3, <2>4, <2>5
  <1>7. WalkTypeOK'
    BY <1>1, <1>3, <1>4, <1>5, <1>6 DEF WalkInv, WalkTypeOK
  <1>8. OnThePath'
    <2>1. ASSUME NEW i \in 1 .. Len(path)
          PROVE  path'[i + 1] \in Range(calls[path'[i]])
      <3>1. CASE i = Len(path)
        <4>1. path # <<>>
          BY <1>3, <3>1
        <4> QED BY <1>2, <1>5, <3>1, <4>1
      <3>2. CASE i # Len(path)
        <4>1. i \in 1 .. Len(path) - 1 /\ i + 1 \in 1 .. Len(path)
          BY <1>0, <3>2
        <4>2. path[i + 1] \in Range(calls[path[i]])
          BY <4>1 DEF WalkInv, OnThePath, Follows
        <4> QED BY <1>5, <4>1, <4>2
      <3> QED BY <3>1, <3>2
    <2>2. \A i \in 1 .. Len(path) : path[i] # Visited
      BY <1>1, <1>3 DEF Range
    <2>3. \A i, j \in 1 .. Len(path) + 1 : path'[i] = path'[j] => i = j
      <3> SUFFICES ASSUME NEW i \in 1 .. Len(path) + 1, NEW j \in 1 .. Len(path) + 1,
                          path'[i] = path'[j]
                   PROVE  i = j
        OBVIOUS
      <3>1. CASE i \in 1 .. Len(path) /\ j \in 1 .. Len(path)
        BY <1>5, <3>1 DEF WalkInv, OnThePath
      <3>2. CASE i = Len(path) + 1 \/ j = Len(path) + 1
        BY <1>3, <1>5, <2>2, <3>2
      <3> QED BY <1>3, <3>1, <3>2
    <2>4. \A i \in 1 .. Len(path) + 1 : path'[i] \notin done
      <3> SUFFICES ASSUME NEW i \in 1 .. Len(path) + 1 PROVE path'[i] \notin done
        OBVIOUS
      <3>1. CASE i \in 1 .. Len(path)
        BY <1>5, <3>1 DEF WalkInv, OnThePath
      <3>2. CASE i = Len(path) + 1
        BY <1>1, <1>5, <3>2
      <3> QED BY <1>3, <3>1, <3>2
    <2>5. ASSUME NEW i \in 1 .. Len(path) + 1
          PROVE  Range(pending'[i + 1]) \subseteq Range(calls[path'[i]])
      <3>1. CASE i = Len(path) + 1
        BY <1>3, <1>5, <1>6, <3>1
      <3>2. CASE i = Len(path)
        <4>1. Range(pending[i + 1]) \subseteq Range(calls[path[i]]) /\ i \in 1 .. Len(path)
          BY <1>3, <3>2 DEF WalkInv, OnThePath
        <4> QED BY <1>2, <1>3, <1>5, <1>6, <3>2, <4>1
      <3>3. CASE i \in 1 .. Len(path) - 1
        <4>1. i \in 1 .. Len(path) /\ i + 1 \in 1 .. Len(path)
          BY <1>3, <3>3
        <4>2. Range(pending[i + 1]) \subseteq Range(calls[path[i]])
          BY <4>1 DEF WalkInv, OnThePath
        <4> QED BY <1>5, <1>6, <4>1, <4>2
      <3> QED BY <1>0, <3>1, <3>2, <3>3
    <2>6. Len(path') - 1 = Len(path)
      BY <1>3, <1>5
    <2> QED BY <1>1, <1>4, <1>5, <2>1, <2>3, <2>4, <2>5, <2>6 DEF OnThePath, Follows
  <1>9. \A i \in 1 .. Len(path) + 1 : \A n \in Range(pending[i]) :
          n \in Range(pending'[i]) \/ n = path'[i]
    <2> SUFFICES ASSUME NEW i \in 1 .. Len(path) + 1, NEW n \in Range(pending[i])
                 PROVE  n \in Range(pending'[i]) \/ n = path'[i]
      OBVIOUS
    <2>1. CASE i = Len(path) + 1
      BY <1>2, <1>3, <1>5, <1>6, <2>1
    <2>2. CASE i # Len(path) + 1
      <3>1. pending'[i] = pending[i]
        <4>1. i \in 1 .. Len(path)
          BY <1>0, <2>2
        <4> QED BY <1>6, <4>1
      <3> QED BY <3>1
    <2> QED BY <2>1, <2>2
  <1>10. \A i \in 1 .. Len(path) + 1 : \A n : Behind(i, n) => Behind(i, n)'
    BY <1>1, <1>3, <1>4, <1>5 DEF Behind
  <1>11. \A i \in 1 .. Len(path) + 1 : \A n : n = path'[i] => Behind(i, n)'
    BY <1>3, <1>5 DEF Behind
  <1>12. Accounted'
    <2>1. 1 \in 1 .. Len(path) + 1
      BY <1>3
    <2>2. ASSUME NEW d \in Declared
          PROVE  d \in Range(pending'[1]) \/ Behind(1, d)'
      <3>1. d \in Range(pending[1]) \/ Behind(1, d)
        BY DEF WalkInv, Accounted
      <3> QED BY <1>9, <1>10, <1>11, <2>1, <3>1
    <2>3. ASSUME NEW i \in 1 .. Len(path) + 1, NEW n \in Range(calls[path'[i]])
          PROVE  n \in Range(pending'[i + 1]) \/ Behind(i + 1, n)'
      <3>1. CASE i = Len(path) + 1
        BY <1>3, <1>5, <1>6, <3>1
      <3>2. CASE i # Len(path) + 1
        <4>1. i \in 1 .. Len(path) /\ i + 1 \in 1 .. Len(path) + 1 /\ path'[i] = path[i]
          BY <1>3, <1>5, <3>2
        <4>2. n \in Range(pending[i + 1]) \/ Behind(i + 1, n)
          BY <4>1 DEF WalkInv, Accounted
        <4> QED BY <1>9, <1>10, <1>11, <4>1, <4>2
      <3> QED BY <3>1, <3>2
    <2> QED BY <1>1, <1>4, <1>5, <2>2, <2>3 DEF Accounted
  <1>13. (Closed(done) /\ Acyclic(done))'
    BY <1>1, <1>4 DEF WalkInv, Closed, Acyclic
  <1>14. FoundIsACycle'
    BY <1>1, <1>4 DEF WalkInv, FoundIsACycle
  <1> QED BY <1>7, <1>8, <1>12, <1>13, <1>14 DEF WalkInv

\* A declaration is left with all it reaches behind it.
LEMMA LeaveKeeps ==
  ASSUME WalkInv, Leave
  PROVE  WalkInv'
PROOF
  <1> DEFINE v == path[Len(path)]
  <1>1. /\ found = <<>> /\ Frame = <<>> /\ path # <<>>
        /\ done' = done \cup {v}
        /\ path' = Without(path) /\ pending' = Without(pending)
        /\ UNCHANGED <<calls, found>>
    BY DEF Leave
  <1>2. /\ path \in Seq(Declared) /\ Len(path) \in Nat /\ Len(path) > 0
        /\ pending \in Seq(Seq(Name))
        /\ Len(pending) = Len(path) + 1 /\ Frame = pending[Len(path) + 1]
    BY <1>1 DEF WalkInv, WalkTypeOK, Frame
  <1>3. Declared' = Declared /\ v \in Declared
    BY <1>1, <1>2 DEF Declared
  <1>4. /\ path' \in Seq(Declared) /\ Len(path') = Len(path) - 1
        /\ \A i \in 1 .. Len(path) - 1 : path'[i] = path[i]
    BY <1>1, <1>2, WithoutTop
  <1>5. /\ pending' \in Seq(Seq(Name)) /\ Len(pending') = Len(path)
        /\ \A i \in 1 .. Len(path) : pending'[i] = pending[i]
    <2>1. Len(pending) > 0 /\ Len(pending) - 1 = Len(path)
      BY <1>2
    <2>2. /\ Without(pending) \in Seq(Seq(Name))
          /\ Len(Without(pending)) = Len(pending) - 1
          /\ \A i \in 1 .. Len(pending) - 1 : Without(pending)[i] = pending[i]
      BY <1>2, <2>1, WithoutTop
    <2> QED BY <1>1, <2>1, <2>2
  <1>6. v \notin done
    BY <1>2 DEF WalkInv, OnThePath
  <1>7. \A n \in Range(calls[v]) : n \in done \/ n \notin Declared
    <2> SUFFICES ASSUME NEW n \in Range(calls[v]) PROVE n \in done \/ n \notin Declared
      OBVIOUS
    <2>1. Len(path) \in 1 .. Len(path)
      BY <1>2
    <2>2. n \in Range(pending[Len(path) + 1]) \/ Behind(Len(path) + 1, n)
      BY <2>1 DEF WalkInv, Accounted
    <2>3. Range(pending[Len(path) + 1]) = {}
      BY <1>1, <1>2 DEF Range
    <2> QED BY <1>2, <2>2, <2>3 DEF Behind
  <1>8. Closed(done \cup {v}) /\ Acyclic(done \cup {v})
    BY <1>3, <1>6, <1>7, Joining DEF WalkInv, WalkTypeOK
  <1> HIDE DEF v
  <1>9. WalkTypeOK'
    <2>1. /\ Declared \subseteq Name /\ calls \in [Declared -> Seq(Name)]
          /\ done \subseteq Declared /\ found \in Seq(Name)
      BY DEF WalkInv, WalkTypeOK
    <2>2. done' \subseteq Declared /\ calls' = calls /\ found' = found
      BY <1>1, <1>3, <2>1
    <2>3. path' \in Seq(Declared)'
      BY <1>3, <1>4
    <2>4. Len(pending') = Len(path') + 1
      BY <1>2, <1>4, <1>5
    <2> QED BY <1>3, <1>5, <2>1, <2>2, <2>3, <2>4 DEF WalkTypeOK
  <1>10. OnThePath'
    <2>1. \A i \in 1 .. Len(path) - 1 : path[i] # v
      BY <1>2 DEF WalkInv, OnThePath, v
    <2>2. \A i \in 1 .. Len(path') - 1 : path'[i + 1] \in Range(calls[path'[i]])
      <3> SUFFICES ASSUME NEW i \in 1 .. Len(path') - 1
                   PROVE  path'[i + 1] \in Range(calls[path'[i]])
        OBVIOUS
      <3>1. i \in 1 .. Len(path) - 1 /\ i + 1 \in 1 .. Len(path) - 1
        BY <1>2, <1>4
      <3>2. path[i + 1] \in Range(calls[path[i]])
        BY <3>1 DEF WalkInv, OnThePath, Follows
      <3> QED BY <1>4, <3>1, <3>2
    <2>3. \A i, j \in 1 .. Len(path) - 1 : path'[i] = path'[j] => i = j
      BY <1>2, <1>4 DEF WalkInv, OnThePath
    <2>4. \A i \in 1 .. Len(path) - 1 : path'[i] \notin done'
      <3> SUFFICES ASSUME NEW i \in 1 .. Len(path) - 1 PROVE path'[i] \notin done'
        OBVIOUS
      <3>1. i \in 1 .. Len(path)
        BY <1>2
      <3>2. path[i] \notin done
        BY <3>1 DEF WalkInv, OnThePath
      <3> QED BY <1>1, <1>4, <2>1, <3>2
    <2>5. \A i \in 1 .. Len(path) - 1 :
            Range(pending'[i + 1]) \subseteq Range(calls[path'[i]])
      <3> SUFFICES ASSUME NEW i \in 1 .. Len(path) - 1
                   PROVE  Range(pending'[i + 1]) \subseteq Range(calls[path'[i]])
        OBVIOUS
      <3>1. i \in 1 .. Len(path) /\ i + 1 \in 1 .. Len(path)
        BY <1>2
      <3>2. Range(pending[i + 1]) \subseteq Range(calls[path[i]])
        BY <3>1 DEF WalkInv, OnThePath
      <3> QED BY <1>4, <1>5, <3>1, <3>2
    <2> QED BY <1>1, <1>4, <2>2, <2>3, <2>4, <2>5 DEF OnThePath, Follows
  <1>11. \A i \in 1 .. Len(path) : \A n : Behind(i, n) => Behind(i, n)'
    BY <1>1, <1>2, <1>3, <1>4 DEF Behind, v
  <1>12. Accounted'
    <2>1. 1 \in 1 .. Len(path)
      BY <1>2
    <2>2. ASSUME NEW d \in Declared
          PROVE  d \in Range(pending'[1]) \/ Behind(1, d)'
      <3>1. d \in Range(pending[1]) \/ Behind(1, d)
        BY DEF WalkInv, Accounted
      <3> QED BY <1>5, <1>11, <2>1, <3>1
    <2>3. ASSUME NEW i \in 1 .. Len(path) - 1, NEW n \in Range(calls[path'[i]])
          PROVE  n \in Range(pending'[i + 1]) \/ Behind(i + 1, n)'
      <3>1. i \in 1 .. Len(path) /\ i + 1 \in 1 .. Len(path) /\ path'[i] = path[i]
        BY <1>2, <1>4
      <3>2. n \in Range(pending[i + 1]) \/ Behind(i + 1, n)
        BY <3>1 DEF WalkInv, Accounted
      <3> QED BY <1>5, <1>11, <3>1, <3>2
    <2> QED BY <1>1, <1>3, <1>4, <2>2, <2>3 DEF Accounted
  <1>13. (Closed(done) /\ Acyclic(done))'
    BY <1>1, <1>3, <1>8 DEF Closed, Acyclic
  <1>14. FoundIsACycle'
    BY <1>1, <1>3 DEF WalkInv, FoundIsACycle
  <1> QED BY <1>9, <1>10, <1>12, <1>13, <1>14 DEF WalkInv

\* Every step keeps it.
THEOREM WalkInvStep == WalkInv /\ [WalkNext]_walkVars => WalkInv'
PROOF
  <1> SUFFICES ASSUME WalkInv, [WalkNext]_walkVars PROVE WalkInv'
    OBVIOUS
  <1>1. CASE UNCHANGED walkVars
    BY <1>1 DEF walkVars, WalkInv, WalkTypeOK, OnThePath, Follows, Accounted, Behind,
                Closed, Acyclic, FoundIsACycle, Declared
  <1>2. CASE WalkNext
    BY <1>2, CloseKeeps, PassByKeeps, EnterKeeps, LeaveKeeps DEF WalkNext
  <1> QED BY <1>1, <1>2

\* It holds throughout: in particular the walk is inside of declarations
\* that reach one another and came back from none of them.
THEOREM WalkHolds == WalkSpec => []WalkInv
PROOF BY WalkInvInit, WalkInvStep, PTL DEF WalkSpec

\* The loader refuses a program for a cycle it has.
THEOREM FoundHolds == WalkSpec => []FoundIsACycle
PROOF
  <1>1. WalkInv => FoundIsACycle
    BY DEF WalkInv
  <1> QED BY <1>1, WalkHolds, PTL

\* The loader clears no program that has one.
THEOREM ClearedHolds == WalkSpec => []ClearedIsAcyclic
PROOF
  <1>1. ASSUME WalkInv, Cleared PROVE Acyclic(Declared)
    <2>1. Len(path) = 0 /\ pending[1] = <<>>
      BY <1>1 DEF WalkInv, WalkTypeOK, Cleared
    <2>2. Range(pending[1]) = {}
      BY <2>1 DEF Range
    <2>3. Declared \subseteq done
      BY <1>1, <2>1, <2>2 DEF WalkInv, Accounted, Behind
    <2>4. done = Declared
      BY <1>1, <2>3 DEF WalkInv, WalkTypeOK
    <2> QED BY <1>1, <2>4 DEF WalkInv
  <1>2. WalkInv => ClearedIsAcyclic
    BY <1>1 DEF ClearedIsAcyclic
  <1> QED BY <1>2, WalkHolds, PTL

\* The loader refuses a program for a cycle exactly when it has one.
THEOREM VerdictsAreRight == WalkSpec => []VerdictsHold
PROOF
  <1>1. FoundIsACycle /\ ClearedIsAcyclic => VerdictsHold
    BY DEF VerdictsHold
  <1> QED BY <1>1, FoundHolds, ClearedHolds, PTL

-----------------------------------------------------------------------------
(* Bounds. A plain text is measured where it is written; a text moved      *)
(* under its seal is not. Where the loader knows the field it comes from,  *)
(* it stays within its bound by what the loader checked and by the bound   *)
(* of that field; where it does not, the text has slipped.                 *)

TextRecord == [length : Nat, sealed : BOOLEAN, slipped : BOOLEAN]

Holding == [event : DOMAIN schema.max, holds : TextRecord]

\* The program is one that loaded.
Loaded == schema \in Schemas /\ CheckMax(schema)

\* A text within its bound, or one that slipped under its seal.
Fits(text, bound) ==
  /\ text.slipped => text.sealed
  /\ Outgrows(text, bound) => text.slipped

TextsFit ==
  /\ texts \in Seq(Holding)
  /\ \A i \in DOMAIN texts : Fits(texts[i].holds, schema.max[texts[i].event])

ColumnFits == Outgrows(column, schema.column) => column.slipped

Inv == Loaded /\ TextsFit /\ ColumnFits /\ halted # "read"

-----------------------------------------------------------------------------
\* What a program's parts are.
LEMMA SchemaFacts ==
  ASSUME schema \in Schemas
  PROVE  /\ schema.max \in [DOMAIN schema.max -> Nat]
         /\ schema.sealed \in [DOMAIN schema.max -> BOOLEAN]
         /\ "copied" \in DOMAIN schema.max
         /\ schema.column \in Nat
PROOF BY BoundsAssumption

\* What a log's records are.
LEMMA TextFacts ==
  ASSUME Inv
  PROVE  \A i \in DOMAIN texts :
           /\ texts[i].event \in DOMAIN schema.max
           /\ texts[i].holds \in TextRecord
           /\ Fits(texts[i].holds, schema.max[texts[i].event])
PROOF
<1>1. texts \in Seq(Holding)
  BY DEF Inv, TextsFit
<1>2. \A i \in DOMAIN texts : texts[i] \in Holding
  BY <1>1
<1> QED
  BY <1>2 DEF Holding, Inv, TextsFit

\* A text that is within its bound, unless it slipped or nobody measures
\* it, may be written into an event.
LEMMA Appending ==
  ASSUME Inv, NEW event \in DOMAIN schema.max, NEW text \in TextRecord,
         text.slipped => text.sealed,
         text.sealed /\ ~text.slipped
           => ~Outgrows(text, schema.max[event]),
         IntoLog(event, text),
         UNCHANGED <<schema, column, halted>>
  PROVE  Inv'
PROOF
<1> DEFINE kept == [text EXCEPT !.sealed = @ \/ schema.sealed[event]]
           last == [event |-> event, holds |-> kept]
<1>1. schema.sealed[event] \in BOOLEAN /\ schema.max[event] \in Nat
  BY SchemaFacts DEF Inv, Loaded
<1>2. /\ kept \in TextRecord
      /\ kept.length = text.length /\ kept.slipped = text.slipped
      /\ text.sealed => kept.sealed
  BY <1>1 DEF TextRecord
<1>3. Fits(kept, schema.max[event])
  <2>1. ~TooLong(text, schema.max[event])
    BY DEF IntoLog
  <2>2. Outgrows(text, schema.max[event]) => text.slipped
    BY <2>1 DEF TooLong, Outgrows
  <2> HIDE DEF kept
  <2> QED
    BY <1>2, <2>2 DEF Fits, Outgrows
<1>4. last \in Holding /\ last.event = event /\ last.holds = kept
  BY <1>2 DEF Holding
<1>5. texts' = Append(texts, last)
  BY DEF IntoLog
<1> HIDE DEF last, kept
<1>6. texts \in Seq(Holding)
  BY DEF Inv, TextsFit
<1>7. texts' \in Seq(Holding) /\ Holding' = Holding
  BY <1>4, <1>5, <1>6 DEF Holding
<1>8. \A i \in DOMAIN texts' :
        texts'[i] = last \/ (i \in DOMAIN texts /\ texts'[i] = texts[i])
  BY <1>5, <1>6
<1>9. TextsFit'
  <2>1. \A i \in DOMAIN texts' :
          Fits(texts'[i].holds, schema.max[texts'[i].event])
    BY <1>3, <1>4, <1>8, TextFacts
  <2> QED
    BY <1>7, <2>1 DEF TextsFit, Fits, Outgrows
<1> QED
  BY <1>9 DEF Inv, Loaded, ColumnFits, Outgrows

-----------------------------------------------------------------------------
(* The steps.                                                              *)

\* A text as it is made.
LEMMA NewTextFacts ==
  ASSUME NEW n \in Nat
  PROVE  /\ NewText(n) \in TextRecord
         /\ NewText(n).length = n
         /\ ~NewText(n).sealed /\ ~NewText(n).slipped
PROOF BY DEF NewText, TextRecord

\* A text as it is moved.
LEMMA MovedFacts ==
  ASSUME NEW text \in TextRecord, NEW traced \in BOOLEAN
  PROVE  /\ MovedOn(text, traced) \in TextRecord
         /\ MovedOn(text, traced).length = text.length
         /\ MovedOn(text, traced).sealed = text.sealed
         /\ MovedOn(text, traced).slipped
              = (text.slipped \/ (text.sealed /\ ~traced))
PROOF BY DEF MovedOn, TextRecord

LEMMA InitInv == BoundsInit => Inv
PROOF
<1> SUFFICES ASSUME BoundsInit PROVE Inv
  OBVIOUS
<1>1. TextsFit
  BY DEF BoundsInit, TextsFit
<1>2. ColumnFits
  BY SchemaFacts, NewTextFacts DEF BoundsInit, ColumnFits, Outgrows
<1> QED
  BY <1>1, <1>2 DEF BoundsInit, Inv, Loaded

\* A text from outside is measured before it is written.
LEMMA PublishInv == Inv /\ Publish => Inv'
PROOF
<1> SUFFICES ASSUME Inv, Publish PROVE Inv'
  OBVIOUS
<1>1. PICK event \in DOMAIN schema.max, length \in Lengths :
        IntoLog(event, NewText(length))
  BY DEF Publish
<1>2. length \in Nat
  BY BoundsAssumption
<1>3. UNCHANGED <<schema, column, halted>>
  BY DEF Publish
<1> QED
  BY <1>1, <1>2, <1>3, NewTextFacts, Appending

\* What a fold comes to is a text an arm of it read, or one it made.
LEMMA FoldedFromTheLog ==
  ASSUME Inv, NEW text \in FoldedTexts
  PROVE  \/ text \in TextRecord /\ ~text.sealed /\ ~text.slipped
         \/ \E i \in DOMAIN texts, arm \in schema.arms :
              arm.on = texts[i].event /\ text = texts[i].holds
PROOF
<1>1. PICK i \in LastRead : \E arm \in ReadingArms(i) :
        text \in ArmTakes(arm, texts[i].holds)
  BY DEF FoldedTexts
<1>2. PICK arm \in ReadingArms(i) : text \in ArmTakes(arm, texts[i].holds)
  BY <1>1
<1>3. i \in DOMAIN texts /\ arm \in schema.arms /\ arm.on = texts[i].event
  BY DEF LastRead, ReadingArms
<1>4. CASE arm.how = "trims"
  <2>1. texts[i].holds.length \in Nat
    BY <1>3, TextFacts DEF TextRecord
  <2>2. PICK n \in 0 .. texts[i].holds.length : text = NewText(n)
    BY <1>2, <1>4 DEF ArmTakes
  <2> QED
    BY <2>1, <2>2, NewTextFacts
<1>5. CASE arm.how # "trims"
  BY <1>2, <1>3, <1>5 DEF ArmTakes
<1> QED
  BY <1>4, <1>5

\* A plain fold is measured. A sealed one of a known source comes from
\* fields no longer than the one it is emitted into.
LEMMA CopyInv == Inv /\ Copy => Inv'
PROOF
<1> SUFFICES ASSUME Inv, Copy PROVE Inv'
  OBVIOUS
<1> DEFINE traced == Traced(schema)
<1>1. PICK text \in FoldedTexts : IntoLog("copied", MovedOn(text, traced))
  BY DEF Copy
<1>2. "copied" \in DOMAIN schema.max /\ schema.max["copied"] \in Nat
  BY SchemaFacts DEF Inv, Loaded
<1>3. traced \in BOOLEAN
  BY DEF Traced
<1>4. UNCHANGED <<schema, column, halted>>
  BY DEF Copy
<1>5. CASE text \in TextRecord /\ ~text.sealed /\ ~text.slipped
  BY <1>1, <1>2, <1>3, <1>4, <1>5, MovedFacts, Appending
<1>6. ASSUME NEW i \in DOMAIN texts, NEW arm \in schema.arms,
             arm.on = texts[i].event, text = texts[i].holds
      PROVE  Inv'
  <2> DEFINE moved == MovedOn(text, traced)
             source == schema.max[arm.on]
             target == schema.max["copied"]
  <2>1. /\ text \in TextRecord /\ source \in Nat
        /\ Fits(text, source)
    BY <1>6, TextFacts, SchemaFacts DEF Inv, Loaded
  <2>2. /\ moved \in TextRecord /\ moved.length = text.length
        /\ moved.sealed = text.sealed
        /\ moved.slipped = (text.slipped \/ (text.sealed /\ ~traced))
    BY <1>3, <2>1, MovedFacts
  <2>3. moved.sealed /\ ~moved.slipped => ~Outgrows(moved, target)
    <3> SUFFICES ASSUME moved.sealed, ~moved.slipped
                 PROVE  ~Outgrows(moved, target)
      OBVIOUS
    <3>1. traced /\ ~text.slipped
      BY <2>2
    <3>2. arm.on \in FoldedFrom(schema)
      BY <1>6, <3>1 DEF FoldedFrom
    <3>3. Within(source, target)
      BY <3>2 DEF Inv, Loaded, CheckMax, EmitsFit
    <3>4. ~Outgrows(text, source)
      BY <2>1, <3>1 DEF Fits
    <3>5. text.length \in Nat
      BY <2>1 DEF TextRecord
    <3> HIDE DEF moved, source, target, traced
    <3> QED
      BY <1>2, <2>1, <2>2, <3>3, <3>4, <3>5 DEF Within, Outgrows, target
  <2>4. moved.slipped => moved.sealed
    BY <2>1, <2>2 DEF Fits
  <2> HIDE DEF traced
  <2> QED
    BY <1>1, <1>2, <1>4, <2>2, <2>3, <2>4, Appending
<1> QED
  BY <1>5, <1>6, FoldedFromTheLog

\* A field that is read as it is fits the column it is written to; what is
\* computed is measured.
LEMMA ProjectInv == Inv /\ Project => Inv'
PROOF
<1> SUFFICES ASSUME Inv, Project PROVE Inv'
  OBVIOUS
<1>1. PICK i \in DOMAIN texts, handler \in schema.handlers :
        /\ handler.on = texts[i].event
        /\ \E text \in HandedOn(handler, texts[i].holds) :
             IF TooLong(text, schema.column)
             THEN /\ halted' = IF LoadedField(handler) THEN "read" ELSE "made"
                  /\ UNCHANGED column
             ELSE column' = text /\ UNCHANGED halted
  BY DEF Project
<1>2. PICK text \in HandedOn(handler, texts[i].holds) :
        IF TooLong(text, schema.column)
        THEN /\ halted' = IF LoadedField(handler) THEN "read" ELSE "made"
             /\ UNCHANGED column
        ELSE column' = text /\ UNCHANGED halted
  BY <1>1
<1> DEFINE field == texts[i].holds
           source == schema.max[handler.on]
<1>3. field \in TextRecord /\ source \in Nat /\ Fits(field, source)
  BY <1>1, TextFacts, SchemaFacts DEF Inv, Loaded
<1>4. schema.column \in Nat
  BY SchemaFacts DEF Inv, Loaded
<1>5. LoadedField(handler)
        => text \in TextRecord /\ Fits(text, schema.column)
             /\ (Outgrows(text, schema.column) => text.sealed)
  <2> SUFFICES ASSUME LoadedField(handler)
               PROVE  text \in TextRecord /\ Fits(text, schema.column)
                        /\ (Outgrows(text, schema.column) => text.sealed)
    OBVIOUS
  <2>1. text = MovedOn(field, TRUE)
    BY <1>2 DEF HandedOn, LoadedField
  <2>2. /\ text \in TextRecord /\ text.length = field.length
        /\ text.sealed = field.sealed /\ text.slipped = field.slipped
    <3> HIDE DEF field
    <3>1. TRUE \in BOOLEAN
      OBVIOUS
    <3>2. /\ MovedOn(field, TRUE).sealed = field.sealed
          /\ MovedOn(field, TRUE).slipped = (field.slipped \/ (field.sealed /\ ~TRUE))
          /\ MovedOn(field, TRUE).length = field.length
          /\ MovedOn(field, TRUE) \in TextRecord
      BY <1>3, <3>1, MovedFacts
    <3>3. field.slipped \in BOOLEAN
      BY <1>3 DEF TextRecord
    <3> QED
      BY <2>1, <3>2, <3>3
  <2>3. Within(source, schema.column)
    BY DEF Inv, Loaded, CheckMax, WritesFit
  <2>4. field.length \in Nat
    BY <1>3 DEF TextRecord
  <2> HIDE DEF field, source
  <2>5. Outgrows(text, schema.column) => Outgrows(field, source)
    BY <1>3, <1>4, <2>2, <2>3, <2>4 DEF Within, Outgrows
  <2> QED
    BY <1>3, <2>2, <2>5 DEF Fits
<1>6. ~LoadedField(handler) /\ text.sealed => text.slipped
  <2> SUFFICES ASSUME ~LoadedField(handler), text.sealed
               PROVE  text.slipped
    OBVIOUS
  <2>1. CASE handler.how = "computed"
    BY <1>2, <2>1, NewTextFacts, BoundsAssumption DEF HandedOn
  <2>2. CASE handler.how # "computed"
    <3>1. text = MovedOn(field, LoadedField(handler))
      BY <1>2, <2>2 DEF HandedOn
    <3>2. LoadedField(handler) \in BOOLEAN
      BY DEF LoadedField
    <3> HIDE DEF field
    <3>3. /\ text.sealed = field.sealed
          /\ text.slipped
               = (field.slipped \/ (field.sealed /\ ~LoadedField(handler)))
      BY <1>3, <3>1, <3>2, MovedFacts
    <3> QED
      BY <3>3
  <2> QED
    BY <2>1, <2>2
<1>7. UNCHANGED <<schema, texts>>
  BY DEF Project
<1>8. Loaded' /\ TextsFit'
  BY <1>7 DEF Inv, Loaded, TextsFit, Holding, Fits, Outgrows
<1>9. ColumnFits' /\ halted' # "read"
  <2>1. CASE TooLong(text, schema.column)
    <3>1. ~LoadedField(handler)
      BY <1>5, <2>1 DEF TooLong, Outgrows
    <3> QED
      BY <1>2, <1>7, <2>1, <3>1 DEF Inv, ColumnFits, Outgrows
  <2>2. CASE ~TooLong(text, schema.column)
    <3>1. Outgrows(text, schema.column) => text.sealed
      BY <2>2 DEF TooLong, Outgrows
    <3>2. Outgrows(text, schema.column) => text.slipped
      BY <1>5, <1>6, <3>1 DEF Fits
    <3> QED
      BY <1>2, <1>7, <2>2, <3>2 DEF Inv, ColumnFits, Outgrows
  <2> QED
    BY <2>1, <2>2
<1> QED
  BY <1>8, <1>9 DEF Inv

-----------------------------------------------------------------------------
\* Of every program that loads: a text that came longer than the field or
\* the column that holds it declares came, under its seal, through a write
\* the loader knows no source of, or copies one that did; and the projector
\* meets no field it may not write (`check_max` of src/parse.rs).
THEOREM TextsKeepTheirBounds == BoundsSpec => []OnlyTheUntracedOutgrow
PROOF
<1>1. BoundsInit => Inv
  BY InitInv
<1>2. Inv /\ [BoundsNext]_boundVars => Inv'
  <2> SUFFICES ASSUME Inv, [BoundsNext]_boundVars PROVE Inv'
    OBVIOUS
  <2>1. CASE Publish
    BY <2>1, PublishInv
  <2>2. CASE Copy
    BY <2>2, CopyInv
  <2>3. CASE Project
    BY <2>3, ProjectInv
  <2>4. CASE UNCHANGED boundVars
    BY <2>4 DEF boundVars, Inv, Loaded, TextsFit, Holding, Fits, ColumnFits, Outgrows
  <2> QED
    BY <2>1, <2>2, <2>3, <2>4 DEF BoundsNext
<1>3. Inv => OnlyTheUntracedOutgrow
  BY DEF Inv, TextsFit, Fits, ColumnFits, OnlyTheUntracedOutgrow
<1> QED
  BY <1>1, <1>2, <1>3, PTL DEF BoundsSpec

-----------------------------------------------------------------------------
(* SelfTrigger. A stretch of the chain of records that statements alone    *)
(* brought about is one of the descents of the loader's search, so an      *)
(* event that came back on it would close a cycle the search has found.    *)

(* What is walked is what is called.                                       *)

\* What the walk queues contains what the body calls, and with each `fn`
\* those it calls; and it is in all that do.
LEMMA WalkedClosed ==
  ASSUME NEW effect, NEW name, NEW body
  PROVE  /\ Walked(effect, name, body) \subseteq DOMAIN effect.fns
         /\ Queued(effect, name, body) \subseteq Walked(effect, name, body)
         /\ \A g \in Walked(effect, name, body) :
              Queued(effect, name, effect.fns[g]) \subseteq Walked(effect, name, body)
         /\ \A own \in SUBSET DOMAIN effect.fns :
              /\ Queued(effect, name, body) \subseteq own
              /\ \A g \in own : Queued(effect, name, effect.fns[g]) \subseteq own
              => Walked(effect, name, body) \subseteq own
PROOF
<1>1. \A other : Queued(effect, name, other) \subseteq DOMAIN effect.fns
  BY DEF Queued
<1> QED
  BY <1>1 DEF Walked

\* And so of what a run calls.
LEMMA MayCallClosed ==
  ASSUME NEW program, NEW body
  PROVE  /\ MayCall(program, body) \subseteq Fns(program)
         /\ body.calls \cap Fns(program) \subseteq MayCall(program, body)
         /\ \A g \in MayCall(program, body) :
              BodyOf(program, g).calls \cap Fns(program) \subseteq MayCall(program, body)
         /\ \A within \in SUBSET Fns(program) :
              /\ body.calls \cap Fns(program) \subseteq within
              /\ \A g \in within : BodyOf(program, g).calls \cap Fns(program) \subseteq within
              => MayCall(program, body) \subseteq within
PROOF BY DEF MayCall

\* The calls of an effect's bodies are calls of its own `fn`s.
LEMMA OwnCalls ==
  ASSUME NEW program \in Applications, NEW name \in DOMAIN program.effects, NEW body,
         \/ \E arm \in program.effects[name].arms : body = arm.body
         \/ \E f \in DOMAIN program.effects[name].fns : body = program.effects[name].fns[f]
  PROVE  body.calls \cap Fns(program) =
           {<<name, f>> : f \in Queued(program.effects[name], name, body)}
PROOF
<1> DEFINE effect == program.effects[name]
           bodies == {arm.body : arm \in effect.arms} \cup Range(effect.fns)
<1>1. \A f \in DOMAIN effect.fns : effect.fns[f] \in Range(effect.fns)
  BY DEF Range
<1>2. body \in bodies
  BY <1>1
<1>3. \A call \in body.calls \cap Fns(program) : call[1] = name
  BY <1>2, ApplicationsAssumption
<1> HIDE DEF effect
<1>4. ASSUME NEW call \in body.calls \cap Fns(program)
      PROVE  call \in {<<name, f>> : f \in Queued(effect, name, body)}
  <2>1. PICK other \in DOMAIN program.effects :
          \E f \in DOMAIN program.effects[other].fns : call = <<other, f>>
    BY <1>4 DEF Fns
  <2>2. PICK f \in DOMAIN program.effects[other].fns : call = <<other, f>>
    BY <2>1
  <2>3. other = name
    BY <1>3, <2>2
  <2> QED
    BY <2>2, <2>3 DEF Queued, effect
<1>5. ASSUME NEW f \in Queued(effect, name, body)
      PROVE  <<name, f>> \in body.calls \cap Fns(program)
  <2>1. f \in DOMAIN effect.fns /\ <<name, f>> \in body.calls
    BY <1>5 DEF Queued
  <2>2. <<name, f>> \in Fns(program)
    BY <2>1 DEF Fns, effect
  <2> QED
    BY <2>1, <2>2
<1> QED
  BY <1>4, <1>5 DEF effect

\* What the loader reckons an arm invokes is what a run of it may invoke.
LEMMA InvokedIsInvoked ==
  ASSUME NEW program \in Applications, NEW name \in DOMAIN program.effects,
         NEW arm \in program.effects[name].arms
  PROVE  MayInvoke(program, arm.body) = InvokedBy(program.effects[name], name, arm)
PROOF
<1> DEFINE effect == program.effects[name]
           body == arm.body
           walked == Walked(effect, name, body)
           called == MayCall(program, body)
           through == {<<name, f>> : f \in walked}
<1>1. body.calls \cap Fns(program) = {<<name, f>> : f \in Queued(effect, name, body)}
  BY OwnCalls
<1>2. \A f \in DOMAIN effect.fns :
        /\ <<name, f>> \in Fns(program)
        /\ BodyOf(program, <<name, f>>) = effect.fns[f]
        /\ effect.fns[f].calls \cap Fns(program) =
             {<<name, g>> : g \in Queued(effect, name, effect.fns[f])}
  BY OwnCalls DEF Fns, BodyOf
<1>3. /\ walked \subseteq DOMAIN effect.fns
      /\ Queued(effect, name, body) \subseteq walked
      /\ \A g \in walked : Queued(effect, name, effect.fns[g]) \subseteq walked
      /\ \A own \in SUBSET DOMAIN effect.fns :
           /\ Queued(effect, name, body) \subseteq own
           /\ \A g \in own : Queued(effect, name, effect.fns[g]) \subseteq own
           => walked \subseteq own
  BY WalkedClosed
<1>4. /\ called \subseteq Fns(program)
      /\ body.calls \cap Fns(program) \subseteq called
      /\ \A g \in called : BodyOf(program, g).calls \cap Fns(program) \subseteq called
      /\ \A within \in SUBSET Fns(program) :
           /\ body.calls \cap Fns(program) \subseteq within
           /\ \A g \in within : BodyOf(program, g).calls \cap Fns(program) \subseteq within
           => called \subseteq within
  BY MayCallClosed
<1> HIDE DEF effect, body, walked, called
<1>5. called \subseteq through
  <2>1. through \in SUBSET Fns(program)
    BY <1>2, <1>3
  <2>2. body.calls \cap Fns(program) \subseteq through
    BY <1>1, <1>3
  <2>3. \A g \in through : BodyOf(program, g).calls \cap Fns(program) \subseteq through
    BY <1>2, <1>3
  <2> QED
    BY <1>4, <2>1, <2>2, <2>3
<1>6. through \subseteq called
  <2> DEFINE own == {f \in DOMAIN effect.fns : <<name, f>> \in called}
  <2>1. Queued(effect, name, body) \subseteq own
    BY <1>1, <1>4 DEF Queued
  <2>2. \A g \in own : Queued(effect, name, effect.fns[g]) \subseteq own
    <3> TAKE g \in own
    <3>1. {<<name, h>> : h \in Queued(effect, name, effect.fns[g])} \subseteq called
      BY <1>2, <1>4
    <3> QED
      BY <3>1 DEF Queued
  <2>3. walked \subseteq own
    <3> HIDE DEF own
    <3>1. own \in SUBSET DOMAIN effect.fns
      BY DEF own
    <3> QED
      BY <1>3, <2>1, <2>2, <3>1
  <2> QED
    BY <2>3
<1>7. UNION {BodyOf(program, fn).invokes : fn \in called}
        = UNION {effect.fns[f].invokes : f \in walked}
  <2>1. called = through
    BY <1>5, <1>6
  <2>2. \A f \in walked : BodyOf(program, <<name, f>>) = effect.fns[f]
    BY <1>2, <1>3
  <2>3. {BodyOf(program, fn).invokes : fn \in through}
          = {BodyOf(program, <<name, f>>).invokes : f \in walked}
    <3>1. \A fn \in through : \E f \in walked : fn = <<name, f>>
      OBVIOUS
    <3>2. \A f \in walked : <<name, f>> \in through
      OBVIOUS
    <3> HIDE DEF through
    <3> QED
      BY <3>1, <3>2
  <2>4. {BodyOf(program, <<name, f>>).invokes : f \in walked}
          = {effect.fns[f].invokes : f \in walked}
    BY <2>2
  <2> QED
    BY <2>1, <2>3, <2>4
<1> QED
  BY <1>7 DEF MayInvoke, InvokedBy, Through, effect, body, walked, called

\* What the statements on an event may bring about is where its edges go.
LEMMA FollowsAreEdges ==
  ASSUME NEW program \in Applications, NEW one, NEW next
  PROVE  next \in FollowsBy("body", program, one) <=>
           \E edge \in Edges(program) : edge.from = one /\ edge.to = next
PROOF
<1>1. next \in FollowsBy("body", program, one) <=>
        \E name \in DOMAIN program.effects : \E arm \in program.effects[name].arms :
          /\ one \in arm.events
          /\ \E c \in MayInvoke(program, arm.body) \cap DOMAIN program.commands :
               next \in program.commands[c]
  BY DEF FollowsBy
<1>2. ASSUME NEW edge
      PROVE  edge \in Edges(program) <=>
        \E name \in DOMAIN program.effects : \E arm \in program.effects[name].arms :
          \E c \in InvokedBy(program.effects[name], name, arm) \cap DOMAIN program.commands :
            \E on \in arm.events, event \in program.commands[c] :
              edge = [from |-> on, to |-> event, effect |-> name, command |-> c]
  BY DEF Edges
<1>3. \A name \in DOMAIN program.effects : \A arm \in program.effects[name].arms :
        MayInvoke(program, arm.body) = InvokedBy(program.effects[name], name, arm)
  BY InvokedIsInvoked
<1>4. ASSUME next \in FollowsBy("body", program, one)
      PROVE  \E edge \in Edges(program) : edge.from = one /\ edge.to = next
  <2>1. PICK name \in DOMAIN program.effects : \E arm \in program.effects[name].arms :
          /\ one \in arm.events
          /\ \E c \in MayInvoke(program, arm.body) \cap DOMAIN program.commands :
               next \in program.commands[c]
    BY <1>1, <1>4
  <2>2. PICK arm \in program.effects[name].arms :
          /\ one \in arm.events
          /\ \E c \in MayInvoke(program, arm.body) \cap DOMAIN program.commands :
               next \in program.commands[c]
    BY <2>1
  <2>3. PICK c \in InvokedBy(program.effects[name], name, arm) \cap DOMAIN program.commands :
          next \in program.commands[c]
    BY <1>3, <2>2
  <2> DEFINE edge == [from |-> one, to |-> next, effect |-> name, command |-> c]
  <2>4. edge \in Edges(program)
    BY <1>2, <2>2, <2>3
  <2> QED
    BY <2>4
<1>5. ASSUME NEW edge \in Edges(program), edge.from = one, edge.to = next
      PROVE  next \in FollowsBy("body", program, one)
  <2>1. \E name \in DOMAIN program.effects : \E arm \in program.effects[name].arms :
          \E c \in InvokedBy(program.effects[name], name, arm) \cap DOMAIN program.commands :
            one \in arm.events /\ next \in program.commands[c]
    BY <1>2, <1>5
  <2> QED
    BY <1>1, <1>3, <2>1
<1> QED
  BY <1>4, <1>5

-----------------------------------------------------------------------------
(* The descents.                                                           *)

\* A set of numbers has a first one.
LEMMA FirstOf ==
  ASSUME NEW S \in SUBSET Nat, S # {}
  PROVE  \E q \in S : \A r \in S : ~(r < q)
PROOF
<1>1. PICK q \in S : \A r \in S : ~(<<r, q>> \in OpToRel(<, Nat))
  BY WFMin, NatLessThanWellFounded
<1> QED
  BY <1>1 DEF OpToRel

\* What holds first and is kept by every step of so many is held by all.
LEMMA Steps ==
  ASSUME NEW n \in Nat, NEW bad \in SUBSET (0 .. n), 0 \notin bad,
         \A k \in 1 .. n : k - 1 \notin bad => k \notin bad
  PROVE  bad = {}
PROOF
<1> SUFFICES ASSUME bad # {} PROVE FALSE
  OBVIOUS
<1>1. PICK k \in bad : \A j \in bad : ~(j < k)
  BY FirstOf
<1>2. k \in 1 .. n /\ k - 1 < k
  BY <1>1
<1> QED
  BY <1>1, <1>2

\* The descents of one length, given the shorter ones.
DeepFrom(edges, before, k) ==
  IF k = 0 THEN Begun(edges) ELSE Descend(edges, before[k - 1])

\* There are descents of every length.
LEMMA DescentsExist ==
  ASSUME NEW edges, NEW n \in Nat
  PROVE  \E f : f = [k \in 0 .. n |-> DeepFrom(edges, f, k)]
PROOF
<1> DEFINE Each(f, k) == DeepFrom(edges, f, k)
           Solves(f, m) == f = [k \in 0 .. m |-> Each(f, k)]
           unsolved == {m \in Nat : ~ \E f : Solves(f, m)}
<1>1. \A f, g, k : k = 0 \/ f[k - 1] = g[k - 1] => Each(f, k) = Each(g, k)
  BY DEF DeepFrom
<1> HIDE DEF Each
<1>2. unsolved = {}
  <2> SUFFICES ASSUME unsolved # {} PROVE FALSE
    OBVIOUS
  <2>1. PICK m \in unsolved : \A j \in unsolved : ~(j < m)
    <3>1. unsolved \in SUBSET Nat
      OBVIOUS
    <3> HIDE DEF unsolved
    <3> QED
      BY <3>1, FirstOf
  <2>2. CASE m = 0
    <3> DEFINE f == [k \in 0 .. 0 |-> Each(<<>>, 0)]
    <3>1. Solves(f, 0)
      <4>1. \A k \in 0 .. 0 : k = 0
        OBVIOUS
      <4>2. \A k \in 0 .. 0 : Each(f, k) = Each(<<>>, 0)
        <5> HIDE DEF f
        <5> QED
          BY <1>1, <4>1
      <4> QED
        BY <4>2
    <3> HIDE DEF Solves, f
    <3> QED
      BY <2>1, <2>2, <3>1
  <2>3. CASE m # 0
    <3>1. m \in Nat /\ m - 1 \in Nat /\ m - 1 < m
      BY <2>1, <2>3
    <3>2. PICK f : Solves(f, m - 1)
      BY <2>1, <3>1
    <3> DEFINE g == [k \in 0 .. m |-> IF k = m THEN Each(f, m) ELSE f[k]]
    <3>3. \A k \in 0 .. m : k # m => k \in 0 .. m - 1
      BY <3>1
    <3>4. \A k \in 0 .. m - 1 : g[k] = f[k] /\ f[k] = Each(f, k)
      BY <3>1, <3>2
    <3>5. \A k \in 0 .. m : k # 0 => k - 1 \in 0 .. m - 1
      BY <3>1
    <3>6. \A k \in 0 .. m : Each(g, k) = Each(f, k)
      <4> HIDE DEF g
      <4> QED
        BY <1>1, <3>4, <3>5
    <3>7. \A k \in 0 .. m : g[k] = Each(g, k)
      BY <3>3, <3>4, <3>6
    <3>8. Solves(g, m)
      BY <3>7
    <3> HIDE DEF Solves, g
    <3> QED
      BY <2>1, <3>8
  <2> QED
    BY <2>2, <2>3
<1> QED
  BY <1>2 DEF Each

\* They begin at an edge, and go on by edges that close nothing.
LEMMA DescentsAre ==
  ASSUME NEW edges, IsFiniteSet(edges)
  PROVE  /\ Cardinality(edges) \in Nat
         /\ Descents(edges)[0] = Begun(edges)
         /\ \A n \in 1 .. Cardinality(edges) :
              Descents(edges)[n] = Descend(edges, Descents(edges)[n - 1])
PROOF
<1> DEFINE most == Cardinality(edges)
           Solves(f) == f = [k \in 0 .. most |-> DeepFrom(edges, f, k)]
           deep == CHOOSE f : Solves(f)
<1>1. most \in Nat
  BY FS_CardinalityType
<1>2. Descents(edges) = deep
  BY DEF Descents, DeepFrom
<1>3. Solves(deep)
  <2>1. \A m \in Nat : \E f : f = [k \in 0 .. m |-> DeepFrom(edges, f, k)]
    BY DescentsExist
  <2> HIDE DEF most
  <2>2. \E f : f = [k \in 0 .. most |-> DeepFrom(edges, f, k)]
    BY ONLY <1>1, <2>1, Zenon
  <2>3. \E f : Solves(f)
    BY <2>2
  <2> HIDE DEF Solves
  <2> QED
    BY <2>3
<1> HIDE DEF deep, most
<1>4. \A k \in 0 .. most : deep[k] = DeepFrom(edges, deep, k)
  BY <1>3
<1>5. deep[0] = Begun(edges)
  BY <1>1, <1>4 DEF DeepFrom
<1>6. \A n \in 1 .. most : deep[n] = Descend(edges, deep[n - 1])
  BY <1>1, <1>4 DEF DeepFrom
<1> QED
  BY <1>1, <1>2, <1>5, <1>6 DEF most

\* A descent has been at each of its events once, and took an edge from each
\* to the next.
IsDescent(edges, descent, n) ==
  /\ descent.nodes \in Seq({edge.from : edge \in edges} \cup {edge.to : edge \in edges})
  /\ Len(descent.nodes) = n + 1
  /\ descent.path \in Seq(edges) /\ Len(descent.path) = n
  /\ \A i \in 1 .. n : /\ descent.path[i].from = descent.nodes[i]
                       /\ descent.path[i].to = descent.nodes[i + 1]
  /\ \A i, j \in 1 .. n + 1 : descent.nodes[i] = descent.nodes[j] => i = j

\* One that goes on is one longer.
LEMMA Deeper ==
  ASSUME NEW edges, NEW n \in Nat, NEW descent, IsDescent(edges, descent, n),
         NEW edge \in Onwards(edges, descent), ~Closes(descent, edge)
  PROVE  IsDescent(edges, [nodes |-> Append(descent.nodes, edge.to),
                           path |-> Append(descent.path, edge)], n + 1)
PROOF
<1> DEFINE Events == {e.from : e \in edges} \cup {e.to : e \in edges}
           nodes == descent.nodes
           taken == descent.path
           more == Append(nodes, edge.to)
           took == Append(taken, edge)
<1>1. nodes \in Seq(Events) /\ taken \in Seq(edges)
      /\ Len(nodes) = n + 1 /\ Len(taken) = n
  BY DEF IsDescent
<1>2. edge \in edges /\ edge.from = nodes[n + 1]
  BY <1>1 DEF Onwards, Last
<1>3. \A i \in 1 .. n + 1 : nodes[i] # edge.to
  <2>1. \A i \in 1 .. n + 1 : nodes[i] \in Range(nodes)
    BY <1>1 DEF Range
  <2> QED
    BY <2>1 DEF Closes
<1>4. edge.to \in Events
  BY <1>2
<1>5. \A i \in 1 .. n : taken[i].from = nodes[i] /\ taken[i].to = nodes[i + 1]
  BY DEF IsDescent
<1>6. \A i, j \in 1 .. n + 1 : nodes[i] = nodes[j] => i = j
  BY DEF IsDescent
<1> HIDE DEF Events, nodes, taken
<1>7. more \in Seq(Events) /\ Len(more) = n + 2 /\ took \in Seq(edges) /\ Len(took) = n + 1
  BY <1>1, <1>2, <1>4
<1>8. /\ \A i \in 1 .. n + 1 : more[i] = nodes[i]
      /\ more[n + 2] = edge.to
      /\ \A i \in 1 .. n : took[i] = taken[i]
      /\ took[n + 1] = edge
  BY <1>1
<1> HIDE DEF more, took
<1>9. \A i \in 1 .. n + 1 : took[i].from = more[i] /\ took[i].to = more[i + 1]
  <2> TAKE i \in 1 .. n + 1
  <2>1. CASE i = n + 1
    BY <1>2, <1>8, <2>1
  <2>2. CASE i # n + 1
    BY <1>5, <1>8, <2>2
  <2> QED
    BY <2>1, <2>2
<1>10. \A i, j \in 1 .. n + 2 : more[i] = more[j] => i = j
  <2> TAKE i, j \in 1 .. n + 2
  <2>1. i = n + 2 \/ i \in 1 .. n + 1
    OBVIOUS
  <2>2. j = n + 2 \/ j \in 1 .. n + 1
    OBVIOUS
  <2> QED
    BY <1>3, <1>6, <1>8, <2>1, <2>2
<1> QED
  BY <1>7, <1>9, <1>10 DEF IsDescent, Events, more, took, nodes, taken

\* All descents are.
LEMMA DescentsDescend ==
  ASSUME NEW edges, IsFiniteSet(edges), NEW n \in 0 .. Cardinality(edges),
         NEW descent \in Descents(edges)[n]
  PROVE  IsDescent(edges, descent, n)
PROOF
<1> DEFINE most == Cardinality(edges)
           deep == Descents(edges)
           bad == {k \in 0 .. most : ~ \A d \in deep[k] : IsDescent(edges, d, k)}
<1>1. /\ most \in Nat
      /\ deep[0] = Begun(edges)
      /\ \A k \in 1 .. most : deep[k] = Descend(edges, deep[k - 1])
  BY DescentsAre
<1> HIDE DEF most, deep
<1>2. 0 \notin bad
  <2>1. ASSUME NEW edge \in edges
        PROVE  IsDescent(edges, [nodes |-> <<edge.from>>, path |-> <<>>], 0)
    BY DEF IsDescent
  <2> QED
    BY <1>1, <2>1 DEF Begun
<1>3. ASSUME NEW k \in 1 .. most, k - 1 \notin bad PROVE k \notin bad
  <2>1. k - 1 \in 0 .. most /\ k - 1 \in Nat /\ (k - 1) + 1 = k
    BY <1>1
  <2>2. \A d \in deep[k - 1] : IsDescent(edges, d, k - 1)
    BY <1>3, <2>1
  <2>3. ASSUME NEW d \in deep[k - 1], NEW edge \in Onwards(edges, d), ~Closes(d, edge)
        PROVE  IsDescent(edges, [nodes |-> Append(d.nodes, edge.to),
                                 path |-> Append(d.path, edge)], k)
    <3>1. IsDescent(edges, d, k - 1)
      BY <2>2
    <3>2. IsDescent(edges, [nodes |-> Append(d.nodes, edge.to),
                            path |-> Append(d.path, edge)], (k - 1) + 1)
      BY <2>1, <2>3, <3>1, Deeper
    <3> QED
      BY <2>1, <3>2
  <2>4. ASSUME NEW d \in deep[k] PROVE IsDescent(edges, d, k)
    <3>1. d \in Descend(edges, deep[k - 1])
      BY <1>1
    <3>2. PICK was \in deep[k - 1] : \E edge \in Onwards(edges, was) :
            /\ ~Closes(was, edge)
            /\ d = [nodes |-> Append(was.nodes, edge.to), path |-> Append(was.path, edge)]
      BY <3>1 DEF Descend
    <3> QED
      BY <2>3, <3>2
  <2> QED
    BY <2>4
<1>4. bad = {}
  BY <1>1, <1>2, <1>3, Steps
<1> QED
  BY <1>4 DEF most, deep

\* A descent that may go on took fewer edges than there are.
LEMMA DepthIsBounded ==
  ASSUME NEW edges, IsFiniteSet(edges), NEW n \in Nat,
         NEW descent, IsDescent(edges, descent, n), NEW edge \in Onwards(edges, descent)
  PROVE  n + 1 <= Cardinality(edges)
PROOF
<1> DEFINE f == [i \in 1 .. n + 1 |-> IF i = n + 1 THEN edge ELSE descent.path[i]]
<1>1. edge \in edges /\ edge.from = descent.nodes[n + 1]
  BY DEF Onwards, Last, IsDescent
<1>2. \A i \in 1 .. n + 1 : f[i] \in edges /\ f[i].from = descent.nodes[i]
  <2> TAKE i \in 1 .. n + 1
  <2>1. CASE i = n + 1
    BY <1>1, <2>1
  <2>2. CASE i # n + 1
    <3>1. i \in 1 .. n
      BY <2>2
    <3>2. descent.path[i] \in edges /\ descent.path[i].from = descent.nodes[i]
      BY <3>1 DEF IsDescent
    <3> QED
      BY <2>2, <3>2
  <2> QED
    BY <2>1, <2>2
<1>3. \A i, j \in 1 .. n + 1 : descent.nodes[i] = descent.nodes[j] => i = j
  BY DEF IsDescent
<1>4. f \in [1 .. n + 1 -> edges]
  BY <1>2
<1> HIDE DEF f
<1>5. f \in Injection(1 .. n + 1, edges)
  BY <1>2, <1>3, <1>4 DEF Injection, IsInjective
<1>6. Cardinality(1 .. n + 1) <= Cardinality(edges)
  BY <1>5, FS_Injection
<1>7. Cardinality(1 .. n + 1) = n + 1
  BY FS_Interval
<1> QED
  BY <1>6, <1>7

\* A cycle that is found is one of the edges.
LEMMA FoundIsOfEdges ==
  ASSUME NEW edges, IsFiniteSet(edges), NEW cycle \in FindCycles(edges)
  PROVE  /\ cycle \in Seq(edges) /\ Len(cycle) > 0
         /\ cycle[1].from = Last(cycle).to
         /\ \A i \in 2 .. Len(cycle) : cycle[i].from = cycle[i - 1].to
PROOF
<1>1. PICK n \in 0 .. Cardinality(edges) : \E descent \in Descents(edges)[n] :
        \E edge \in Onwards(edges, descent) :
          Closes(descent, edge) /\ cycle = CycleAt(descent, edge)
  BY DEF FindCycles
<1>2. PICK descent \in Descents(edges)[n] :
        \E edge \in Onwards(edges, descent) :
          Closes(descent, edge) /\ cycle = CycleAt(descent, edge)
  BY <1>1
<1>3. PICK edge \in Onwards(edges, descent) :
        Closes(descent, edge) /\ cycle = CycleAt(descent, edge)
  BY <1>2
<1>4. IsDescent(edges, descent, n)
  BY DescentsDescend
<1> DEFINE nodes == descent.nodes
           taken == descent.path
           start == CHOOSE i \in DOMAIN nodes : nodes[i] = edge.to
           kept == SubSeq(taken, start, Len(taken))
<1>5. n \in Nat
  BY DescentsAre
<1>6. /\ taken \in Seq(edges) /\ Len(taken) = n /\ Len(nodes) = n + 1
      /\ DOMAIN nodes = 1 .. n + 1
      /\ \A i \in 1 .. n : taken[i].from = nodes[i] /\ taken[i].to = nodes[i + 1]
  BY <1>4 DEF IsDescent
<1>7. edge \in edges /\ edge.from = nodes[n + 1]
  BY <1>6 DEF Onwards, Last
<1>8. start \in 1 .. n + 1 /\ nodes[start] = edge.to
  <2>1. \E i \in DOMAIN nodes : nodes[i] = edge.to
    BY <1>3 DEF Closes, Range
  <2> QED
    BY <1>6, <2>1
<1>9. cycle = Append(kept, edge)
  BY <1>3 DEF CycleAt
<1> HIDE DEF nodes, taken, start
<1> DEFINE m == n - start + 1
<1>10. kept \in Seq(edges) /\ Len(kept) = m /\ m \in Nat
       /\ \A i \in 1 .. m : kept[i] = taken[start - 1 + i]
  BY <1>5, <1>6, <1>8
<1> HIDE DEF kept
<1>11. /\ cycle \in Seq(edges) /\ Len(cycle) = m + 1 /\ cycle[m + 1] = edge
       /\ \A i \in 1 .. m : cycle[i] = taken[start - 1 + i]
  BY <1>7, <1>9, <1>10
<1>12. \A i \in 1 .. m + 1 : cycle[i].from = nodes[start - 1 + i]
  <2> TAKE i \in 1 .. m + 1
  <2>1. CASE i = m + 1
    <3>1. start - 1 + i = n + 1
      BY <1>5, <1>8, <2>1
    <3> QED
      BY <1>7, <1>11, <2>1, <3>1
  <2>2. CASE i # m + 1
    <3>1. i \in 1 .. m /\ start - 1 + i \in 1 .. n
      BY <1>5, <1>8, <2>2
    <3> QED
      BY <1>6, <1>11, <3>1
  <2> QED
    BY <2>1, <2>2
<1>13. \A i \in 1 .. m : cycle[i].to = nodes[start + i]
  <2> TAKE i \in 1 .. m
  <2>1. start - 1 + i \in 1 .. n /\ (start - 1 + i) + 1 = start + i
    BY <1>5, <1>8
  <2> QED
    BY <1>6, <1>11, <2>1
<1>14. cycle[1].from = Last(cycle).to
  <2>1. 1 \in 1 .. m + 1 /\ start - 1 + 1 = start
    BY <1>8, <1>10
  <2>2. cycle[1].from = nodes[start]
    BY <1>12, <2>1
  <2> QED
    BY <1>8, <1>11, <2>2 DEF Last
<1>15. \A i \in 2 .. Len(cycle) : cycle[i].from = cycle[i - 1].to
  <2> TAKE i \in 2 .. Len(cycle)
  <2>1. i \in 1 .. m + 1 /\ i - 1 \in 1 .. m /\ start - 1 + i = start + (i - 1)
    BY <1>8, <1>10, <1>11
  <2> QED
    BY <1>12, <1>13, <2>1
<1> QED
  BY <1>10, <1>11, <1>14, <1>15

-----------------------------------------------------------------------------
(* The chain.                                                              *)

\* The events of a chain from one of its records to another.
Stretch(records, i, j) == [k \in 1 .. j - i + 1 |-> records[i + k - 1].event]

\* Statements alone brought about all of them but the first.
ByStatements(records, i, j) == \A k \in i + 1 .. j : records[k].by # "args"

\* Every stretch of the chain that statements brought about is a descent of the
\* loader's search.
TriggerInv ==
  /\ loaded \in Applications
  /\ chain \in Seq(Range(chain))
  /\ \A i, j \in DOMAIN chain :
       i < j /\ ByStatements(chain, i, j) =>
         /\ Loads(loaded)
         /\ j - i \in 0 .. Cardinality(Edges(loaded))
         /\ \E descent \in Descents(Edges(loaded))[j - i] :
              descent.nodes = Stretch(chain, i, j)

\* It begins as one record.
LEMMA TriggersInitially == TriggerInit => TriggerInv
PROOF
<1> SUFFICES ASSUME TriggerInit PROVE TriggerInv
  OBVIOUS
<1>1. PICK first : chain = <<first>>
  BY DEF TriggerInit
<1>2. Len(chain) = 1 /\ DOMAIN chain = {1} /\ chain \in Seq({first}) /\ chain[1] = first
  BY <1>1
<1>3. Range(chain) = {first}
  BY <1>2 DEF Range
<1> QED
  BY <1>2, <1>3 DEF TriggerInit, TriggerInv

\* What one more record does to a chain.
LEMMA Longer ==
  ASSUME NEW records, records \in Seq(Range(records)), NEW record
  PROVE  /\ Append(records, record) \in Seq(Range(Append(records, record)))
         /\ Len(records) \in Nat /\ DOMAIN records = 1 .. Len(records)
         /\ Len(Append(records, record)) = Len(records) + 1
         /\ DOMAIN Append(records, record) = 1 .. Len(records) + 1
         /\ Append(records, record)[Len(records) + 1] = record
         /\ \A i \in 1 .. Len(records) : Append(records, record)[i] = records[i]
PROOF
<1> DEFINE S == Range(records) \cup {record}
           longer == Append(records, record)
<1>1. records \in Seq(S) /\ record \in S
  OBVIOUS
<1> HIDE DEF S
<1>2. /\ longer \in Seq(S)
      /\ Len(records) \in Nat /\ DOMAIN records = 1 .. Len(records)
      /\ Len(longer) = Len(records) + 1
      /\ DOMAIN longer = 1 .. Len(records) + 1
      /\ longer[Len(records) + 1] = record
      /\ \A i \in 1 .. Len(records) : longer[i] = records[i]
  BY <1>1
<1> HIDE DEF longer
<1>3. \A i \in 1 .. Len(longer) : longer[i] \in Range(longer)
  BY <1>2 DEF Range
<1>4. longer \in Seq(Range(longer))
  BY <1>2, <1>3, SeqDef
<1> QED
  BY <1>2, <1>4 DEF longer

\* A stretch that statements go on with is a longer descent: no event of it
\* comes to be there again.
LEMMA HandleDescends ==
  ASSUME TriggerInv, Loads(loaded), NEW i \in DOMAIN chain,
         ByStatements(chain, i, Len(chain)),
         NEW event \in FollowsBy("body", loaded, Last(chain).event)
  PROVE  LET n == Len(chain) - i
         IN  /\ n + 1 \in 0 .. Cardinality(Edges(loaded))
             /\ \E descent \in Descents(Edges(loaded))[n + 1] :
                  descent.nodes = Append(Stretch(chain, i, Len(chain)), event)
PROOF
<1> DEFINE edges == Edges(loaded)
           n == Len(chain) - i
           stretch == Stretch(chain, i, Len(chain))
<1>1. loaded \in Applications /\ chain \in Seq(Range(chain))
  BY DEF TriggerInv
<1>2. Len(chain) \in Nat /\ DOMAIN chain = 1 .. Len(chain) /\ n \in Nat
  BY <1>1
<1>3. PICK edge \in edges : edge.from = Last(chain).event /\ edge.to = event
  BY <1>1, FollowsAreEdges
<1>4. IsFiniteSet(edges)
  BY <1>1, ApplicationsAssumption
<1> HIDE DEF edges
<1>5. /\ Cardinality(edges) \in Nat
      /\ Descents(edges)[0] = Begun(edges)
      /\ \A k \in 1 .. Cardinality(edges) :
           Descents(edges)[k] = Descend(edges, Descents(edges)[k - 1])
  BY <1>4, DescentsAre
<1>6. n \in 0 .. Cardinality(edges)
      /\ \E descent \in Descents(edges)[n] : descent.nodes = stretch
  <2>1. CASE i = Len(chain)
    <3>1. n = 0 /\ Last(chain) = chain[i]
      BY <1>2, <2>1 DEF Last
    <3>2. stretch = <<edge.from>>
      BY <1>2, <1>3, <2>1, <3>1 DEF Stretch
    <3>3. [nodes |-> <<edge.from>>, path |-> <<>>] \in Descents(edges)[0]
      BY <1>5 DEF Begun
    <3> QED
      BY <1>5, <3>1, <3>2, <3>3
  <2>2. CASE i # Len(chain)
    <3>1. i < Len(chain) /\ Len(chain) \in DOMAIN chain
      BY <1>2, <2>2
    <3> QED
      BY <3>1 DEF TriggerInv, edges
  <2> QED
    BY <2>1, <2>2
<1>7. PICK descent \in Descents(edges)[n] : descent.nodes = stretch
  BY <1>6
<1>8. IsDescent(edges, descent, n)
  BY <1>4, <1>6, DescentsDescend
<1>9. edge \in Onwards(edges, descent)
  <2>1. Len(stretch) = n + 1 /\ stretch[n + 1] = chain[Len(chain)].event
    BY <1>2 DEF Stretch
  <2>2. Last(stretch) = Last(chain).event
    BY <2>1 DEF Last
  <2> QED
    BY <1>3, <1>7, <2>2 DEF Onwards
<1>10. n + 1 <= Cardinality(edges)
  BY <1>2, <1>4, <1>8, <1>9, DepthIsBounded
<1>11. ~Closes(descent, edge)
  <2>1. FindCycles(edges) = {}
    BY DEF Loads, edges
  <2>2. Closes(descent, edge) => CycleAt(descent, edge) \in FindCycles(edges)
    BY <1>6, <1>7, <1>9 DEF FindCycles
  <2> QED
    BY <2>1, <2>2
<1> DEFINE deeper == [nodes |-> Append(stretch, event), path |-> Append(descent.path, edge)]
<1>12. deeper \in Descend(edges, Descents(edges)[n])
  <2>1. deeper = [nodes |-> Append(descent.nodes, edge.to),
                  path |-> Append(descent.path, edge)]
    BY <1>3, <1>7
  <2>2. edge \in {other \in Onwards(edges, descent) : ~Closes(descent, other)}
    BY <1>9, <1>11
  <2> HIDE DEF deeper
  <2>3. deeper \in {[nodes |-> Append(descent.nodes, e.to),
                      path |-> Append(descent.path, e)]
                    : e \in {other \in Onwards(edges, descent) : ~Closes(descent, other)}}
    BY <2>1, <2>2
  <2> QED
    BY <1>7, <2>3 DEF Descend
<1>13. n + 1 \in 1 .. Cardinality(edges) /\ (n + 1) - 1 = n
  BY <1>2, <1>5, <1>10
<1>14. deeper \in Descents(edges)[n + 1]
  BY <1>5, <1>12, <1>13
<1>15. deeper.nodes = Append(stretch, event)
  OBVIOUS
<1> HIDE DEF deeper, n, stretch
<1>16. n + 1 \in 0 .. Cardinality(edges)
  BY <1>5, <1>13
<1>17. \E longer \in Descents(edges)[n + 1] : longer.nodes = Append(stretch, event)
  BY <1>14, <1>15
<1> QED
  BY <1>16, <1>17 DEF edges, n, stretch

\* And so every stretch of statements stays one.
LEMMA HandleInv == TriggerInv /\ Handle => TriggerInv'
PROOF
<1> SUFFICES ASSUME TriggerInv, Handle PROVE TriggerInv'
  OBVIOUS
<1> DEFINE most == Len(chain)
<1>1. loaded \in Applications /\ chain \in Seq(Range(chain))
      /\ loaded' = loaded /\ Loads(loaded)
  BY DEF TriggerInv, Handle
<1>2. PICK part \in {"args", "body"} :
        \E event \in FollowsBy(part, loaded, Last(chain).event) :
          chain' = Append(chain, [event |-> event, by |-> part])
  BY DEF Handle
<1>3. PICK event \in FollowsBy(part, loaded, Last(chain).event) :
        chain' = Append(chain, [event |-> event, by |-> part])
  BY <1>2
<1>4. /\ chain' \in Seq(Range(chain'))
      /\ most \in Nat /\ DOMAIN chain = 1 .. most
      /\ DOMAIN chain' = 1 .. most + 1
      /\ chain'[most + 1] = [event |-> event, by |-> part]
      /\ \A k \in 1 .. most : chain'[k] = chain[k]
  BY <1>1, <1>3, Longer
<1> HIDE DEF most
<1>5. ASSUME NEW i \in DOMAIN chain', NEW j \in DOMAIN chain', i < j,
             ByStatements(chain', i, j)
      PROVE  /\ j - i \in 0 .. Cardinality(Edges(loaded))
             /\ \E descent \in Descents(Edges(loaded))[j - i] :
                  descent.nodes = Stretch(chain', i, j)
  <2>1. CASE j <= most
    <3>1. i \in DOMAIN chain /\ j \in DOMAIN chain /\ j - i + 1 \in Nat
      BY <1>4, <1>5, <2>1
    <3>2. \A k \in i + 1 .. j : chain'[k] = chain[k]
      BY <1>4, <2>1, <3>1
    <3>3. ByStatements(chain, i, j)
      BY <1>5, <3>2 DEF ByStatements
    <3>4. \A k \in 1 .. j - i + 1 : i + k - 1 \in 1 .. most
      BY <1>4, <2>1, <3>1
    <3>5. Stretch(chain', i, j) = Stretch(chain, i, j)
      BY <1>4, <3>4 DEF Stretch
    <3> QED
      BY <1>5, <3>1, <3>3, <3>5 DEF TriggerInv
  <2>2. CASE j > most
    <3>1. j = most + 1 /\ i \in 1 .. most
      BY <1>4, <1>5, <2>2
    <3>2. part = "body"
      <4>1. j \in i + 1 .. j
        BY <3>1, <1>4
      <4>2. chain'[j].by = part
        BY <1>4, <3>1
      <4> QED
        BY <1>5, <4>1, <4>2 DEF ByStatements
    <3>3. ByStatements(chain, i, most)
      <4>1. \A k \in i + 1 .. most : k \in i + 1 .. j /\ chain'[k] = chain[k]
        BY <1>4, <3>1
      <4> QED
        BY <1>5, <4>1 DEF ByStatements
    <3>4. /\ (most - i) + 1 \in 0 .. Cardinality(Edges(loaded))
          /\ \E descent \in Descents(Edges(loaded))[(most - i) + 1] :
               descent.nodes = Append(Stretch(chain, i, most), event)
      BY <1>1, <1>3, <1>4, <3>1, <3>2, <3>3, HandleDescends DEF most
    <3>5. Stretch(chain', i, j) = Append(Stretch(chain, i, most), event)
      <4> DEFINE short == Stretch(chain, i, most)
                 long == Stretch(chain', i, j)
                 n == most - i + 1
      <4>1. n \in Nat /\ j - i + 1 = n + 1
        BY <1>4, <3>1
      <4>2. short = [k \in 1 .. n |-> chain[i + k - 1].event]
            /\ long = [k \in 1 .. n + 1 |-> chain'[i + k - 1].event]
        BY <4>1 DEF Stretch
      <4>3. \A k \in 1 .. n : chain'[i + k - 1] = chain[i + k - 1]
        BY <1>4, <3>1, <4>1
      <4>4. chain'[i + (n + 1) - 1].event = event
        BY <1>4, <3>1, <4>1
      <4> HIDE DEF short, long, n
      <4>5. /\ \A k \in 1 .. n : short[k] \in Range(short)
            /\ short = [k \in 1 .. n |-> short[k]]
        BY <4>2 DEF Range
      <4>6. short \in Seq(Range(short)) /\ Len(short) = n
        <5>1. short \in [1 .. n -> Range(short)]
          BY <4>5
        <5> QED
          BY <4>1, <5>1, SeqDef
      <4> DEFINE S == Range(short) \cup {event}
      <4>8. short \in Seq(S) /\ event \in S /\ long \in [1 .. n + 1 -> S]
        <5>1. short \in Seq(S) /\ event \in S
          BY <4>6
        <5>2. ASSUME NEW k \in 1 .. n + 1 PROVE long[k] \in S
          <6>1. CASE k = n + 1
            BY <4>1, <4>2, <4>4, <6>1
          <6>2. CASE k # n + 1
            <7>1. k \in 1 .. n
              BY <4>1, <6>2
            <7>2. long[k] = short[k]
              BY <4>1, <4>2, <4>3, <7>1
            <7> QED
              BY <4>5, <7>1, <7>2
          <6> QED
            BY <6>1, <6>2
        <5> HIDE DEF S
        <5> QED
          BY <4>2, <5>1, <5>2
      <4> HIDE DEF S
      <4>7. long = Append(short, event)
        <5>1. \A k \in 1 .. n : long[k] = short[k]
          BY <4>1, <4>2, <4>3
        <5>2. long[n + 1] = event
          BY <4>1, <4>2, <4>4
        <5>3. long \in Seq(S) /\ Len(long) = n + 1
          BY <4>1, <4>8, SeqDef
        <5> QED
          BY <4>1, <4>6, <4>8, <5>1, <5>2, <5>3
      <4> QED
        BY <4>7 DEF short, long
    <3>6. j - i = (most - i) + 1
      BY <1>4, <3>1
    <3> QED
      BY <3>4, <3>5, <3>6
  <2> QED
    BY <1>4, <2>1, <2>2
<1> QED
  BY <1>1, <1>4, <1>5 DEF TriggerInv

\* In a program that loads an event brings about another of its kind, through
\* whatever arms, `fn`s and commands, only where some step of the way is an
\* `invoke` in a fold's argument, and the statements of what the dispatcher
\* collapses append nothing; a program that is refused for a cycle has every step
\* of it (`check_cycles` and `latest_never_invokes` of src/src/parse.rs).
THEOREM NoEffectTriggersItself == TriggerSpec => []LoopsAreRefused
PROOF
<1>1. TriggerInv /\ [Handle]_triggerVars => TriggerInv'
  <2>1. ASSUME TriggerInv, UNCHANGED triggerVars PROVE TriggerInv'
    BY <2>1 DEF TriggerInv, triggerVars
  <2> QED
    BY <2>1, HandleInv
<1>2. TriggerInv => LoopsAreRefused
  <2> SUFFICES ASSUME TriggerInv PROVE LoopsAreRefused
    OBVIOUS
  <2> DEFINE edges == Edges(loaded)
  <2>1. loaded \in Applications /\ IsFiniteSet(edges)
    BY ApplicationsAssumption DEF TriggerInv
  <2>2. ASSUME NEW i \in DOMAIN chain, NEW j \in DOMAIN chain, i < j,
               chain[i].event = chain[j].event
        PROVE  \E k \in i + 1 .. j : chain[k].by = "args"
    <3> DEFINE n == j - i
    <3> SUFFICES ASSUME ByStatements(chain, i, j) PROVE FALSE
      BY DEF ByStatements
    <3>1. /\ n \in 0 .. Cardinality(edges)
          /\ \E descent \in Descents(edges)[n] : descent.nodes = Stretch(chain, i, j)
      BY <2>2 DEF TriggerInv
    <3>2. DOMAIN chain = 1 .. Len(chain) /\ Len(chain) \in Nat
      BY DEF TriggerInv
    <3>3. n \in Nat /\ n > 0 /\ i + (n + 1) - 1 = j /\ i + 1 - 1 = i
      BY <2>2, <3>2
    <3>4. PICK descent \in Descents(edges)[n] : descent.nodes = Stretch(chain, i, j)
      BY <3>1
    <3>5. /\ Stretch(chain, i, j)[1] = chain[i].event
          /\ Stretch(chain, i, j)[n + 1] = chain[j].event
      BY <3>3 DEF Stretch
    <3> HIDE DEF edges, n
    <3>6. IsDescent(edges, descent, n)
      BY <2>1, <3>1, DescentsDescend
    <3>7. 1 \in 1 .. n + 1 /\ n + 1 \in 1 .. n + 1 /\ n + 1 # 1
      BY <3>3
    <3> QED
      BY <2>2, <3>4, <3>5, <3>6, <3>7 DEF IsDescent
  <2>3. ASSUME Loads(loaded), NEW name \in DOMAIN loaded.effects,
               NEW arm \in loaded.effects[name].arms, arm.latest
        PROVE  MayInvoke(loaded, arm.body) = {}
    <3>1. InvokedBy(loaded.effects[name], name, arm) = {}
      BY <2>3 DEF Loads, LatestInvokes
    <3> QED
      BY <2>1, <3>1, InvokedIsInvoked
  <2>4. ASSUME NEW cycle \in FindCycles(edges)
        PROVE  /\ cycle[1].from = Last(cycle).to
               /\ \A i \in DOMAIN cycle :
                    cycle[i].to \in FollowsBy("body", loaded, cycle[i].from)
               /\ \A i \in 2 .. Len(cycle) : cycle[i].from = cycle[i - 1].to
    <3> HIDE DEF edges
    <3>1. /\ cycle \in Seq(edges)
          /\ cycle[1].from = Last(cycle).to
          /\ \A i \in 2 .. Len(cycle) : cycle[i].from = cycle[i - 1].to
      BY <2>1, FoundIsOfEdges
    <3>2. \A i \in DOMAIN cycle : cycle[i] \in edges
      BY <3>1
    <3>3. \A edge \in edges : edge.to \in FollowsBy("body", loaded, edge.from)
      BY <2>1, FollowsAreEdges DEF edges
    <3> QED
      BY <3>1, <3>2, <3>3
  <2> QED
    BY <2>2, <2>3, <2>4 DEF LoopsAreRefused
<1> QED
  BY <1>1, <1>2, TriggersInitially, PTL DEF TriggerSpec
=============================================================================
